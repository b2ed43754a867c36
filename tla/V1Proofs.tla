------------------------------ MODULE V1Proofs ------------------------------
(***************************************************************************)
(* Machine-checked proofs about the components of the v1 node: the         *)
(* Lightning quotes, the wallet and its recovery, the mint health and the  *)
(* provider's payments, each for every value of its constants.             *)
(***************************************************************************)
EXTENDS Quotes, V1Provider, CdkWallet, FiniteSetTheorems, TLAPS

-----------------------------------------------------------------------------
(* Lightning quotes (module Quotes).                                       *)

Record == [expiry : Expiries, processing : BOOLEAN, session_granted : BOOLEAN,
           completed_at : Int]

MonitorTask == [pc : {"sleep", "check", "mint", "grant", "exited"}, record : Record, now : Nat]

QuotesType ==
    /\ store \subseteq Record
    /\ mint \in {"Unpaid", "Paid", "Issued"}
    /\ clock \in Nat
    /\ monitor \in MonitorTask
    /\ listed \in BOOLEAN
    /\ grants \in Nat

(* The strengthening: access is granted by the last step of the monitor,   *)
(* which gets there only when the mint has issued the tokens, and what the *)
(* mint has issued it never takes back.                                    *)
GrantIsLast ==
    /\ grants > 0 => grants = 1 /\ monitor.pc = "exited" /\ mint = "Issued"
    /\ monitor.pc = "grant" => mint = "Issued"

LEMMA QuotesStep ==
  ASSUME QuotesType, GrantIsLast, [Next]_vars
  PROVE  QuotesType' /\ GrantIsLast'
  <1> USE DEF QuotesType, GrantIsLast, At, MonitorTask
  <1>1. CASE Wakes
    BY <1>1 DEF Wakes
  <1>2. CASE StatusFails
    BY <1>2 DEF StatusFails
  <1>3. CASE ChecksStatus
    <2>1. monitor.record \in Record /\ InFlight(monitor.record) \in Record
      BY DEF InFlight, Record
    <2>2. CASE mint = "Unpaid"
      BY <1>3, <2>1, <2>2 DEF ChecksStatus, GoesOn
    <2>3. CASE mint = "Paid"
      BY <1>3, <2>1, <2>3 DEF ChecksStatus, GoesOn
    <2>4. CASE mint = "Issued"
      BY <1>3, <2>1, <2>4 DEF ChecksStatus, GoesOn
    <2> QED
      BY <2>2, <2>3, <2>4
  <1>4. CASE MintsTokens
    BY <1>4 DEF MintsTokens
  <1>5. CASE MintFails
    BY <1>5 DEF MintFails, Retries, Record
  <1>6. CASE GrantsAccess
    <2> DEFINE granted == [monitor.record EXCEPT !.session_granted = TRUE,
                                                 !.completed_at = monitor.now]
    <2>1. monitor.record \in Record /\ monitor.now \in Int
      OBVIOUS
    <2>2. granted \in Record
      BY ONLY <2>1 DEF Record
    <2> HIDE DEF granted
    <2>3. monitor' = [monitor EXCEPT !.pc = "exited", !.record = granted]
          /\ store' = {granted} /\ grants' = grants + 1 /\ monitor.pc = "grant"
          /\ UNCHANGED <<mint, clock, listed>>
      BY <1>6 DEF GrantsAccess, granted
    <2>4. monitor' = [pc |-> "exited", record |-> granted, now |-> monitor.now]
      BY <2>3
    <2> QED
      BY <2>2, <2>3, <2>4
  <1>7. CASE GrantFails
    BY <1>7 DEF GrantFails, Retries, Record
  <1>8. CASE Janitor
    BY <1>8 DEF Janitor, JanitorLists, JanitorRemoves
  <1>9. CASE InvoicePaid
    BY <1>9 DEF InvoicePaid
  <1>10. CASE ClockAdvances
    BY <1>10 DEF ClockAdvances
  <1>11. CASE UNCHANGED vars
    BY <1>11 DEF vars
  <1> QED
    BY <1>1, <1>2, <1>3, <1>4, <1>5, <1>6, <1>7, <1>8, <1>9, <1>10, <1>11
       DEF Next, Monitor

(* One payment is granted at most once, and only when the mint has issued  *)
(* its tokens, whatever fails and is retried, whatever the janitor removes *)
(* and the monitor writes back, for every lifetime, age and expiry.        *)
THEOREM QuotesGrantOnce == Spec => []GrantedOnce
  <1>1. Init => QuotesType /\ GrantIsLast
    <2>1. \A expiry \in Expiries : NewRecord(expiry) \in Record
      BY DEF NewRecord, None, Record
    <2> SUFFICES ASSUME Init PROVE QuotesType /\ GrantIsLast
      OBVIOUS
    <2>2. PICK new \in Record :
            store = {new} /\ monitor = [pc |-> "sleep", record |-> new, now |-> 0]
      BY <2>1 DEF Init
    <2>3. monitor \in MonitorTask /\ monitor.pc = "sleep"
      BY <2>2 DEF MonitorTask
    <2>4. mint = "Unpaid" /\ clock = 0 /\ listed = FALSE /\ grants = 0
      BY DEF Init
    <2>5. QuotesType
      BY <2>2, <2>3, <2>4 DEF QuotesType
    <2> QED
      BY <2>3, <2>4, <2>5 DEF GrantIsLast
  <1>2. QuotesType /\ GrantIsLast => GrantedOnce
    BY DEF QuotesType, GrantIsLast, GrantedOnce
  <1> QED
    BY <1>1, <1>2, QuotesStep, PTL DEF Spec

-----------------------------------------------------------------------------
(* The v1 wallet (module CdkWallet).                                       *)

MintCall == [pc : {"idle", "poll", "mint", "sagas", "balance", "ok", "err"}, n : Nat, before : Nat]

CdkType ==
    /\ funds \in Nat /\ pending \in Nat
    /\ minting \in MintCall

(* The strengthening: until the mint issues the quote, the wallet has, and *)
(* can recover, no more than it could at the call.                         *)
NothingCameIn ==
    minting.pc \in {"poll", "mint", "sagas", "balance"} /\ quote # "Issued" =>
        funds + pending <= minting.before

CdkInv == CdkType /\ NothingCameIn /\ OkIsMinted

(* mint_test_tokens moves on, nothing comes into the wallet.               *)
LEMMA CdkMoves ==
  ASSUME CdkInv, NEW pc \in {"poll", "mint", "sagas", "balance", "err"}, NEW n \in Nat,
         minting' = [pc |-> pc, n |-> n, before |-> minting.before],
         pc # "err" => minting.pc \in {"poll", "mint", "sagas", "balance"},
         funds' \in Nat, pending' \in Nat,
         quote' = quote, funds' + pending' <= funds + pending
  PROVE  CdkInv'
  <1>1. /\ funds \in Nat /\ pending \in Nat /\ minting.before \in Nat
        /\ minting.pc \in {"poll", "mint", "sagas", "balance"} /\ quote # "Issued" =>
             funds + pending <= minting.before
    BY DEF CdkInv, CdkType, NothingCameIn, MintCall
  <1>2. minting' \in MintCall /\ minting'.pc = pc /\ minting'.before = minting.before
    BY <1>1 DEF MintCall
  <1>3. NothingCameIn'
    <2> SUFFICES ASSUME pc # "err", quote # "Issued"
                 PROVE  funds' + pending' <= minting.before
      BY <1>2 DEF NothingCameIn
    <2>1. funds + pending <= minting.before
      BY <1>1
    <2>2. funds' + pending' \in Int /\ funds + pending \in Int /\ minting.before \in Int
      BY <1>1
    <2>3. funds' + pending' <= funds + pending
      OBVIOUS
    <2> QED
      BY ONLY <2>1, <2>2, <2>3
  <1>4. OkIsMinted'
    BY <1>2 DEF OkIsMinted
  <1> QED
    BY <1>2, <1>3, <1>4 DEF CdkInv, CdkType

LEMMA CdkMintingStep ==
  ASSUME CdkInv, Minting
  PROVE  CdkInv'
  <1>1. /\ CdkType /\ NothingCameIn /\ OkIsMinted /\ TestAmount \in Nat
        /\ funds \in Nat /\ pending \in Nat /\ minting \in MintCall
    BY CdkAssumption DEF CdkInv, CdkType
  <1>2. minting.n \in Nat /\ minting.before \in Nat /\ minting.n + 1 \in Nat
    BY <1>1 DEF MintCall
  <1>3. \A pc : [minting EXCEPT !.pc = pc] = [pc |-> pc, n |-> minting.n, before |-> minting.before]
    BY <1>1 DEF MintCall
  <1>4. /\ [minting EXCEPT !.pc = "mint", !.n = 1] = [pc |-> "mint", n |-> 1, before |-> minting.before]
        /\ [minting EXCEPT !.pc = "mint", !.n = @ + 1] =
             [pc |-> "mint", n |-> minting.n + 1, before |-> minting.before]
    <2>1. ASSUME NEW n \in Nat, NEW next \in MintCall, next.pc = "mint", next.n = n,
                 next.before = minting.before
          PROVE  next = [pc |-> "mint", n |-> n, before |-> minting.before]
      BY <2>1 DEF MintCall
    <2> DEFINE first == [minting EXCEPT !.pc = "mint", !.n = 1]
               again == [minting EXCEPT !.pc = "mint", !.n = @ + 1]
    <2>2. first \in MintCall /\ first.pc = "mint" /\ first.n = 1 /\ first.before = minting.before
      BY <1>1 DEF MintCall
    <2>3. /\ again \in MintCall /\ again.pc = "mint" /\ again.n = minting.n + 1
          /\ again.before = minting.before
      BY <1>1, <1>2 DEF MintCall
    <2> HIDE DEF first, again
    <2>4. first = [pc |-> "mint", n |-> 1, before |-> minting.before]
      BY <2>1, <2>2
    <2>5. again = [pc |-> "mint", n |-> minting.n + 1, before |-> minting.before]
      BY <1>2, <2>1, <2>3
    <2> QED
      BY <2>4, <2>5 DEF first, again
  <1>5. CASE RequestsQuote
    <2>1. /\ minting' = [pc |-> "poll", n |-> 0, before |-> funds + pending]
          /\ UNCHANGED <<funds, pending>>
      BY <1>5 DEF RequestsQuote
    <2>2. minting' \in MintCall /\ minting'.pc = "poll" /\ minting'.before = funds + pending
      BY <1>1, <2>1 DEF MintCall
    <2> QED
      BY <1>1, <2>1, <2>2 DEF CdkInv, CdkType, NothingCameIn, OkIsMinted
  <1>6. CASE QuoteFails \/ PollFails \/ BalanceFails
    <2>1. /\ UNCHANGED <<funds, pending, quote>>
          /\ minting' = [pc |-> "err", n |-> minting.n, before |-> minting.before]
      BY <1>3, <1>6 DEF QuoteFails, PollFails, BalanceFails, Returns
    <2> QED
      BY <1>1, <1>2, <2>1, CdkMoves
  <1>7. CASE PollsQuote
    <2>1. /\ UNCHANGED <<funds, pending, quote>> /\ minting.pc = "poll"
          /\ minting' \in {[pc |-> "mint", n |-> 1, before |-> minting.before],
                           [pc |-> "poll", n |-> minting.n + 1, before |-> minting.before],
                           [pc |-> "err", n |-> minting.n, before |-> minting.before]}
      <3>1. CASE quote = "Paid"
        BY <1>4, <1>7, <3>1 DEF PollsQuote
      <3>2. CASE quote # "Paid" /\ minting.n + 1 < MaxQuotePolls
        <4>1. [minting EXCEPT !.n = @ + 1] = [pc |-> "poll", n |-> minting.n + 1, before |-> minting.before]
          BY <1>1, <1>7 DEF PollsQuote, MintCall
        <4> QED
          BY <1>7, <3>2, <4>1 DEF PollsQuote
      <3>3. CASE quote # "Paid" /\ ~(minting.n + 1 < MaxQuotePolls)
        BY <1>3, <1>7, <3>3 DEF PollsQuote
      <3> QED
        BY <1>7, <3>1, <3>2, <3>3 DEF PollsQuote
    <2> QED
      BY <1>1, <1>2, <2>1, CdkMoves
  <1>8. CASE Mints
    <2>1. /\ quote' = "Issued" /\ funds' = funds + TestAmount /\ UNCHANGED pending
          /\ minting' = [pc |-> "ok", n |-> minting.n, before |-> minting.before]
      BY <1>3, <1>8 DEF Mints, Returns
    <2>2. minting' \in MintCall /\ funds' \in Nat /\ pending' \in Nat
      BY <1>1, <1>2, <2>1 DEF MintCall
    <2> QED
      BY <2>1, <2>2 DEF CdkInv, CdkType, NothingCameIn, OkIsMinted
  <1>9. CASE MintAttemptFails
    <2>1. /\ minting.pc = "mint" /\ UNCHANGED funds
          /\ minting' = [pc |-> "sagas", n |-> minting.n, before |-> minting.before]
      BY <1>3, <1>9 DEF MintAttemptFails, Returns
    <2>2. CASE UNCHANGED <<quote, pending>>
      BY <1>1, <1>2, <2>1, <2>2, CdkMoves
    <2>3. CASE quote' = "Issued" /\ pending' = pending + TestAmount
      <3>1. minting' \in MintCall /\ minting'.pc = "sagas" /\ pending' \in Nat
        BY <1>1, <1>2, <2>1, <2>3 DEF MintCall
      <3> QED
        BY <1>1, <2>1, <2>3, <3>1 DEF CdkInv, CdkType, NothingCameIn, OkIsMinted
    <2> QED
      BY <1>9, <2>2, <2>3 DEF MintAttemptFails
  <1>10. CASE RecoversSagas
    <2>1. PICK got \in {0, TestAmount, pending} \cap 0 .. pending :
            funds' = funds + got /\ pending' = pending - got
      BY <1>10 DEF RecoversSagas
    <2>2. got \in Nat /\ got <= pending
      BY <1>1, <2>1
    <2>3. /\ minting.pc = "sagas" /\ UNCHANGED quote
          /\ minting' = [pc |-> "balance", n |-> minting.n, before |-> minting.before]
      BY <1>3, <1>10 DEF RecoversSagas, Returns
    <2>4. funds' \in Nat /\ pending' \in Nat /\ funds' + pending' <= funds + pending
      BY <1>1, <2>1, <2>2
    <2> QED
      BY <1>1, <1>2, <2>3, <2>4, CdkMoves
  <1>11. CASE ReadsBalance
    <2>1. UNCHANGED <<funds, pending, quote>> /\ minting.pc = "balance"
      BY <1>11 DEF ReadsBalance
    <2>2. CASE funds >= TestAmount
      <3>1. minting' = [pc |-> "ok", n |-> minting.n, before |-> minting.before]
        BY <1>3, <1>11, <2>2 DEF ReadsBalance
      <3>2. minting' \in MintCall /\ minting'.pc = "ok" /\ minting'.before = minting.before
        BY <1>2, <3>1 DEF MintCall
      <3>3. minting.before < TestAmount => quote = "Issued"
        BY <1>1, <1>2, <2>1, <2>2 DEF NothingCameIn
      <3> QED
        BY <1>1, <2>1, <3>2, <3>3 DEF CdkInv, CdkType, NothingCameIn, OkIsMinted
    <2>3. CASE ~(funds >= TestAmount)
      <3>1. minting' \in {[pc |-> "mint", n |-> minting.n + 1, before |-> minting.before],
                          [pc |-> "err", n |-> minting.n, before |-> minting.before]}
        BY <1>2, <1>3, <1>4, <1>11, <2>3 DEF ReadsBalance
      <3> QED
        BY <1>1, <1>2, <2>1, <3>1, CdkMoves
    <2> QED
      BY <2>2, <2>3
  <1> QED
    BY <1>5, <1>6, <1>7, <1>8, <1>9, <1>10, <1>11 DEF Minting

(* The other steps: the invoice is paid, or something leaves the wallet.   *)
LEMMA CdkOtherStep ==
  ASSUME CdkInv, UNCHANGED <<minting, pending>>, funds' \in Nat, funds' <= funds,
         quote' = quote \/ (quote # "Issued" /\ quote' # "Issued")
  PROVE  CdkInv'
  <1>1. minting \in MintCall /\ funds \in Nat /\ pending \in Nat /\ minting.before \in Nat
    BY DEF CdkInv, CdkType, MintCall
  <1> QED
    BY <1>1 DEF CdkInv, CdkType, NothingCameIn, OkIsMinted

LEMMA CdkInvariance == CdkSpec => []CdkInv
  <1>1. CdkInit => CdkInv
    <2> SUFFICES ASSUME CdkInit PROVE CdkInv
      OBVIOUS
    <2>1. minting \in MintCall /\ minting.pc = "idle"
      BY DEF CdkInit, Idle, MintCall
    <2> QED
      BY <2>1 DEF CdkInit, CdkInv, CdkType, NothingCameIn, OkIsMinted
  <1>2. CdkInv /\ [CdkNext]_cdkVars => CdkInv'
    <2> SUFFICES ASSUME CdkInv, [CdkNext]_cdkVars PROVE CdkInv'
      OBVIOUS
    <2>1. funds \in Nat
      BY DEF CdkInv, CdkType
    <2>2. CASE InvoiceIsPaid
      BY <2>1, <2>2, CdkOtherStep DEF InvoiceIsPaid
    <2>3. CASE Melts
      BY <2>1, <2>3, CdkOtherStep DEF Melts
    <2>4. ASSUME NEW t \in Tokens, CreatesToken(t) PROVE CdkInv'
      BY <2>1, <2>4, CdkOtherStep DEF CreatesToken
    <2>5. ASSUME NEW t \in Tokens, Redeems(t) \/ PaymentSeemsLost(t) \/ Recovery(t) PROVE CdkInv'
      <3>1. UNCHANGED <<minting, pending, funds, quote>>
        BY <2>5 DEF Redeems, PaymentSeemsLost, Recovery, ReceivesBack, ReceiveFails,
                    AppendsEntry, ReportsSaved, WriteFails
      <3> QED
        BY <2>1, <3>1, CdkOtherStep
    <2>6. CASE NodeRestarts
      <3>1. funds' = 0 /\ pending' = 0 /\ minting' = Idle
        BY <2>6 DEF NodeRestarts
      <3>2. minting' \in MintCall /\ minting'.pc = "idle"
        BY <3>1 DEF Idle, MintCall
      <3> QED
        BY <3>1, <3>2 DEF CdkInv, CdkType, NothingCameIn, OkIsMinted
    <2>7. CASE UNCHANGED cdkVars
      BY <2>1, <2>7, CdkOtherStep DEF cdkVars
    <2> QED
      BY <2>2, <2>3, <2>4, <2>5, <2>6, <2>7, CdkMintingStep DEF CdkNext
  <1> QED
    BY <1>1, <1>2, PTL DEF CdkSpec

(* When neither the balance nor an earlier call's saga can account for it, *)
(* mint_test_tokens returns Ok only for a quote the mint has issued: for   *)
(* any amount, any number of polls, attempts and calls, and whatever is    *)
(* spent, fails or restarts meanwhile.                                     *)
THEOREM MintedIsIssued == CdkSpec => []OkIsMinted
  BY CdkInvariance, PTL DEF CdkInv

-----------------------------------------------------------------------------
(* The mint health (module MintHealth).                                    *)

MarkPoints == {"reach", "count", "recover", "unreach", "reset"}
ProbePoints == MarkPoints \cup {"probe", "sleep", "ended"}
MintSets == SUBSET Urls
MintNames == Urls \cup {""}
ProbeTask == [pc : ProbePoints, todo : MintSets, url : MintNames]

HealthType ==
    /\ reachable \in [Urls -> BOOLEAN]
    /\ consecutive_successes \in [Urls -> Nat]
    /\ streak \in [Urls -> Nat]
    /\ prober \in [Probers -> ProbeTask]
    /\ \A t \in Probers : prober[t].pc \in MarkPoints => prober[t].url \in Urls

(* The strengthening, for a mint u that the two tasks never marked at the  *)
(* same time: its count of successes is covered by the streak, the success *)
(* that is about to be counted included.                                   *)
OneMarks(u) == \A t, o \in Probers : Marking(t, u) /\ Marking(o, u) => t = o

CountIsCovered(u) ==
    /\ (\A t \in Probers : ~Marking(t, u)) =>
         /\ consecutive_successes[u] < RecoveryThreshold
         /\ consecutive_successes[u] <= streak[u]
    /\ \A t \in Probers : Marking(t, u) =>
         /\ prober[t].pc \in {"reach", "count"} =>
              /\ consecutive_successes[u] < RecoveryThreshold
              /\ consecutive_successes[u] + 1 <= streak[u]
         /\ prober[t].pc = "recover" => streak[u] >= RecoveryThreshold

HealthInv == HealthType /\ \A u \in Urls \ raced : OneMarks(u) /\ CountIsCovered(u)

(* A task moves to a point p of its own mark.                              *)
LEMMA StepMoves ==
  ASSUME HealthType, NEW t \in Probers, NEW p \in MarkPoints \cup {"probe"}, Step(t, p),
         prober[t].pc \in MarkPoints
  PROVE  /\ prober' \in [Probers -> ProbeTask]
         /\ \A o \in Probers : prober'[o].pc \in MarkPoints => prober'[o].url \in Urls
         /\ prober'[t] = [pc |-> p, todo |-> prober[t].todo, url |-> prober[t].url]
         /\ \A o \in Probers \ {t} : prober'[o] = prober[o]
  <1>1. prober \in [Probers -> ProbeTask] /\ prober[t].url \in Urls
        /\ \A o \in Probers : prober[o].pc \in MarkPoints => prober[o].url \in Urls
    BY DEF HealthType
  <1>2. [prober[t] EXCEPT !.pc = p] = [pc |-> p, todo |-> prober[t].todo, url |-> prober[t].url]
    <2>1. prober[t] \in ProbeTask
      BY <1>1
    <2> QED
      BY <2>1 DEF ProbeTask
  <1>3. [pc |-> p, todo |-> prober[t].todo, url |-> prober[t].url] \in ProbeTask
    <2>1. prober[t].todo \in MintSets /\ prober[t].url \in MintNames /\ p \in ProbePoints
      BY <1>1 DEF ProbeTask, ProbePoints
    <2> QED
      BY <2>1 DEF ProbeTask
  <1>4. prober' = [prober EXCEPT ![t] = [pc |-> p, todo |-> prober[t].todo,
                                         url |-> prober[t].url]]
    BY <1>2 DEF Step
  <1> QED
    BY <1>1, <1>3, <1>4

(* A step of a mark: it touches the counts of its own mint only.           *)
LEMMA MarkKeeps ==
  ASSUME HealthInv, NEW t \in Probers, NEW p \in MarkPoints \cup {"probe"}, Step(t, p),
         prober[t].pc \in MarkPoints, reachable' \in [Urls -> BOOLEAN],
         consecutive_successes' \in [Urls -> Nat],
         \A u \in Urls \ {prober[t].url} : consecutive_successes'[u] = consecutive_successes[u],
         UNCHANGED <<streak, raced>>,
         LET u == prober[t].url
         IN  u \notin raced =>
               /\ p = "probe" =>
                    /\ consecutive_successes'[u] < RecoveryThreshold
                    /\ consecutive_successes'[u] <= streak[u]
               /\ p \in {"reach", "count"} =>
                    /\ consecutive_successes'[u] < RecoveryThreshold
                    /\ consecutive_successes'[u] + 1 <= streak[u]
               /\ p = "recover" => streak[u] >= RecoveryThreshold
  PROVE  HealthInv'
  <1> DEFINE v == prober[t].url
  <1>1. /\ prober' \in [Probers -> ProbeTask]
        /\ \A o \in Probers : prober'[o].pc \in MarkPoints => prober'[o].url \in Urls
        /\ prober'[t].pc = p /\ prober'[t].url = v
        /\ \A o \in Probers \ {t} : prober'[o] = prober[o]
    <2>1. HealthType
      BY DEF HealthInv
    <2>2. prober'[t] = [pc |-> p, todo |-> prober[t].todo, url |-> v]
      BY <2>1, StepMoves
    <2> QED
      BY <2>1, <2>2, StepMoves
  <1>2. HealthType'
    BY <1>1 DEF HealthInv, HealthType
  <1> SUFFICES ASSUME NEW u \in Urls \ raced PROVE OneMarks(u)' /\ CountIsCovered(u)'
    BY <1>2 DEF HealthInv
  <1>3. OneMarks(u) /\ CountIsCovered(u) /\ Marking(t, v)
    BY DEF HealthInv, Marking, MarkPoints
  <1>4. \A o \in Probers \ {t} : Marking(o, u)' <=> Marking(o, u)
    BY <1>1 DEF Marking
  <1>5. Marking(t, u)' <=> (u = v /\ p # "probe")
    BY <1>1 DEF Marking, MarkPoints
  <1>6. OneMarks(u)'
    BY <1>3, <1>4, <1>5 DEF OneMarks
  <1>7. CountIsCovered(u)'
    <2>1. CASE u # v
      <3>1. ~Marking(t, u) /\ ~Marking(t, u)'
        BY <1>5, <2>1 DEF Marking
      <3>2. consecutive_successes'[u] = consecutive_successes[u] /\ streak'[u] = streak[u]
        BY <2>1
      <3>3. \A o \in Probers : Marking(o, u)' => Marking(o, u) /\ prober'[o] = prober[o]
        BY <1>1, <1>4, <3>1
      <3>4. (\A o \in Probers : ~Marking(o, u)') => \A o \in Probers : ~Marking(o, u)
        BY <1>4, <3>1
      <3> QED
        BY <1>3, <3>2, <3>3, <3>4 DEF CountIsCovered
    <2>2. CASE u = v
      <3>1. \A o \in Probers : Marking(o, u)' => o = t
        BY <1>3, <1>4, <2>2 DEF OneMarks
      <3>2. (\A o \in Probers : ~Marking(o, u)') => p = "probe"
        BY <1>5, <2>2
      <3> QED
        BY <1>1, <2>2, <3>1, <3>2 DEF CountIsCovered
    <2> QED
      BY <2>1, <2>2
  <1> QED
    BY <1>6, <1>7

(* A task that begins or ends a pass marks nothing before or after.        *)
LEMMA PassKeeps ==
  ASSUME HealthInv, NEW t \in Probers, NEW q \in ProbeTask,
         prober' = [prober EXCEPT ![t] = q],
         prober[t].pc \notin MarkPoints, q.pc \notin MarkPoints,
         UNCHANGED <<reachable, consecutive_successes, streak, raced>>
  PROVE  HealthInv'
  <1>1. HealthType
    BY DEF HealthInv
  <1>2. /\ prober' \in [Probers -> ProbeTask]
        /\ prober'[t] = q /\ \A o \in Probers \ {t} : prober'[o] = prober[o]
    BY <1>1 DEF HealthType
  <1>3. HealthType'
    BY <1>1, <1>2 DEF HealthType
  <1> SUFFICES ASSUME NEW u \in Urls \ raced PROVE OneMarks(u)' /\ CountIsCovered(u)'
    BY <1>3 DEF HealthInv
  <1>4. OneMarks(u) /\ CountIsCovered(u)
    BY DEF HealthInv
  <1>5. \A o \in Probers : /\ Marking(o, u)' <=> Marking(o, u)
                           /\ Marking(o, u) => prober'[o] = prober[o]
    BY <1>2 DEF Marking, MarkPoints
  <1> QED
    BY <1>4, <1>5 DEF OneMarks, CountIsCovered

(* A probe has answered: the task starts to mark u, and whoever marks u at *)
(* that time makes it raced.                                               *)
LEMMA ProbedKeeps ==
  ASSUME HealthInv, NEW t \in Probers, Probed(t)
  PROVE  HealthInv'
  <1>1. HealthType /\ prober[t].pc = "probe" /\ RecoveryThreshold \in Nat \ {0}
    BY MintHealthAssumption DEF HealthInv, Probed, ProbeAt
  <1>2. PICK v \in prober[t].todo, ok \in BOOLEAN :
          /\ prober' = [prober EXCEPT ![t] = [pc |-> IF ok THEN "reach" ELSE "unreach",
                                              todo |-> prober[t].todo \ {v}, url |-> v]]
          /\ streak' = [streak EXCEPT ![v] =
                          IF ~ok THEN 0
                          ELSE IF streak[v] < RecoveryThreshold THEN streak[v] + 1 ELSE streak[v]]
          /\ raced' = IF \E o \in Probers \ {t} : Marking(o, v) THEN raced \cup {v} ELSE raced
    BY DEF Probed
  <1>3. UNCHANGED <<reachable, consecutive_successes>>
    BY DEF Probed
  <1>4. v \in Urls /\ prober[t].todo \in MintSets
    BY <1>1 DEF HealthType, ProbeTask, MintSets
  <1> DEFINE p == IF ok THEN "reach" ELSE "unreach"
             q == [pc |-> p, todo |-> prober[t].todo \ {v}, url |-> v]
  <1>5. q \in ProbeTask
    <2>1. p \in ProbePoints /\ prober[t].todo \ {v} \in MintSets /\ v \in MintNames
      BY <1>4 DEF ProbePoints, MarkPoints, MintSets, MintNames
    <2> QED
      BY <2>1 DEF ProbeTask
  <1>6. /\ prober' \in [Probers -> ProbeTask] /\ prober'[t].pc = p /\ prober'[t].url = v
        /\ \A o \in Probers \ {t} : prober'[o] = prober[o]
    BY <1>1, <1>2, <1>5 DEF HealthType
  <1>7. streak' \in [Urls -> Nat] /\ \A u \in Urls \ {v} : streak'[u] = streak[u]
    BY <1>1, <1>2, <1>4 DEF HealthType
  <1>8. HealthType'
    BY <1>1, <1>3, <1>4, <1>6, <1>7 DEF HealthType
  <1> SUFFICES ASSUME NEW u \in Urls \ raced' PROVE OneMarks(u)' /\ CountIsCovered(u)'
    BY <1>8 DEF HealthInv
  <1>9. u \notin raced /\ OneMarks(u) /\ CountIsCovered(u) /\ ~Marking(t, u)
    BY <1>1, <1>2 DEF HealthInv, Marking
  <1>10. \A o \in Probers \ {t} : Marking(o, u)' <=> Marking(o, u)
    BY <1>6 DEF Marking
  <1>11. Marking(t, u)' <=> u = v
    BY <1>6 DEF Marking
  <1>12. CASE u = v
    <2>1. \A o \in Probers : ~Marking(o, u)
      BY <1>2, <1>9, <1>12
    <2>2. /\ consecutive_successes[u] \in Nat /\ streak[u] \in Nat
          /\ consecutive_successes[u] < RecoveryThreshold
          /\ consecutive_successes[u] <= streak[u]
      BY <1>1, <1>9, <2>1 DEF CountIsCovered, HealthType
    <2>3. ok => consecutive_successes[u] + 1 <= streak'[u]
      <3>1. ok => streak'[u] = IF streak[u] < RecoveryThreshold THEN streak[u] + 1 ELSE streak[u]
        BY <1>1, <1>2, <1>4, <1>12 DEF HealthType
      <3> QED
        BY <1>1, <2>2, <3>1
    <2>4. \A o \in Probers : Marking(o, u)' => o = t
      BY <1>10, <2>1
    <2>5. OneMarks(u)'
      BY <2>4 DEF OneMarks
    <2>6. CountIsCovered(u)'
      BY <1>3, <1>6, <1>11, <1>12, <2>2, <2>3, <2>4 DEF CountIsCovered
    <2> QED
      BY <2>5, <2>6
  <1>13. CASE u # v
    <2>1. \A o \in Probers : /\ Marking(o, u)' <=> Marking(o, u)
                             /\ Marking(o, u) => prober'[o] = prober[o]
      BY <1>6, <1>9, <1>10, <1>11, <1>13
    <2>2. streak'[u] = streak[u] /\ consecutive_successes'[u] = consecutive_successes[u]
      BY <1>3, <1>7, <1>13
    <2> QED
      BY <1>9, <2>1, <2>2 DEF OneMarks, CountIsCovered
  <1> QED
    BY <1>12, <1>13

LEMMA ProberKeeps ==
  ASSUME HealthInv, NEW t \in Probers, Prober(t)
  PROVE  HealthInv'
  <1> DEFINE u == prober[t].url
  <1>1. /\ HealthType /\ RecoveryThreshold \in Nat \ {0}
        /\ reachable \in [Urls -> BOOLEAN] /\ consecutive_successes \in [Urls -> Nat]
        /\ streak \in [Urls -> Nat]
    BY MintHealthAssumption DEF HealthInv, HealthType
  <1>2. prober[t].pc \in MarkPoints => u \in Urls
    BY <1>1 DEF HealthType
  <1>3. ASSUME prober[t].pc \in MarkPoints, u \notin raced
        PROVE  CountIsCovered(u) /\ Marking(t, u)
    BY <1>2, <1>3 DEF HealthInv, Marking, MarkPoints
  <1>4. CASE EndPass(t)
    <2> DEFINE p == IF t = "initial" THEN "ended" ELSE "sleep"
               q == [pc |-> p, todo |-> prober[t].todo, url |-> u]
    <2>1. prober[t] \in ProbeTask /\ p \in ProbePoints
      BY <1>1 DEF HealthType, ProbePoints
    <2>2. q \in ProbeTask /\ [prober[t] EXCEPT !.pc = p] = q
      BY <2>1 DEF ProbeTask
    <2>3. prober' = [prober EXCEPT ![t] = q]
      BY <1>4, <2>2 DEF EndPass
    <2>4. prober[t].pc \notin MarkPoints /\ q.pc \notin MarkPoints
      BY <1>4 DEF EndPass, ProbeAt, MarkPoints
    <2> HIDE DEF q
    <2> QED
      BY <1>4, <2>2, <2>3, <2>4, PassKeeps DEF EndPass
  <1>5. CASE Probed(t)
    BY <1>5, ProbedKeeps
  <1>6. CASE SeesReachable(t)
    <2>1. prober[t].pc = "reach" /\ prober[t].pc \in MarkPoints
      BY <1>6 DEF SeesReachable, ProbeAt, MarkPoints
    <2>2. PICK p \in {"probe", "count"} : Step(t, p)
      BY <1>6 DEF SeesReachable
    <2>3. u \notin raced => consecutive_successes[u] < RecoveryThreshold
                            /\ consecutive_successes[u] + 1 <= streak[u]
                            /\ consecutive_successes[u] <= streak[u]
      BY <1>1, <1>2, <1>3, <2>1 DEF CountIsCovered
    <2>4. p \in MarkPoints \cup {"probe"} /\ p # "recover" /\ p # "reach"
      BY DEF MarkPoints
    <2> QED
      BY <1>1, <1>6, <2>1, <2>2, <2>3, <2>4, MarkKeeps DEF SeesReachable
  <1>7. CASE CountsSuccess(t)
    <2>1. prober[t].pc = "count" /\ prober[t].pc \in MarkPoints
      BY <1>7 DEF CountsSuccess, ProbeAt, MarkPoints
    <2>2. consecutive_successes' = [consecutive_successes EXCEPT ![u] = @ + 1]
          /\ UNCHANGED <<reachable, streak, raced>>
      BY <1>7 DEF CountsSuccess
    <2>3. u \notin raced => consecutive_successes[u] < RecoveryThreshold
                            /\ consecutive_successes[u] + 1 <= streak[u]
      BY <1>3, <2>1 DEF CountIsCovered
    <2>4. /\ consecutive_successes' \in [Urls -> Nat]
          /\ consecutive_successes'[u] = consecutive_successes[u] + 1
          /\ \A w \in Urls \ {u} : consecutive_successes'[w] = consecutive_successes[w]
      BY <1>1, <1>2, <2>1, <2>2
    <2>5. CASE consecutive_successes[u] + 1 >= RecoveryThreshold
      <3>1. Step(t, "recover") /\ "recover" \in MarkPoints
        BY <1>7, <2>5 DEF CountsSuccess, MarkPoints
      <3>2. u \notin raced => streak[u] >= RecoveryThreshold
        BY <1>1, <1>2, <2>1, <2>3, <2>5
      <3> QED
        BY <1>1, <2>1, <2>2, <2>4, <3>1, <3>2, MarkKeeps
    <2>6. CASE ~(consecutive_successes[u] + 1 >= RecoveryThreshold)
      <3>1. Step(t, "probe")
        BY <1>7, <2>6 DEF CountsSuccess
      <3>2. u \notin raced => consecutive_successes'[u] < RecoveryThreshold
                              /\ consecutive_successes'[u] <= streak[u]
        BY <1>1, <1>2, <2>1, <2>3, <2>4, <2>6
      <3> QED
        BY <1>1, <2>1, <2>2, <2>4, <3>1, <3>2, MarkKeeps
    <2> QED
      BY <2>5, <2>6
  <1>8. CASE Recovers(t) \/ MarkUnreachable(t)
    <2>1. prober[t].pc \in MarkPoints /\ "reset" \in MarkPoints /\ Step(t, "reset")
      BY <1>8 DEF Recovers, MarkUnreachable, ProbeAt, MarkPoints
    <2>2. reachable' \in [Urls -> BOOLEAN]
      BY <1>1, <1>8 DEF Recovers, MarkUnreachable
    <2>3. UNCHANGED <<consecutive_successes, streak, raced>>
      BY <1>8 DEF Recovers, MarkUnreachable
    <2> QED
      BY <1>1, <2>1, <2>2, <2>3, MarkKeeps
  <1>9. CASE ResetsCount(t)
    <2>1. prober[t].pc \in MarkPoints /\ Step(t, "probe")
      BY <1>9 DEF ResetsCount, ProbeAt, MarkPoints
    <2>2. /\ consecutive_successes' \in [Urls -> Nat] /\ consecutive_successes'[u] = 0
          /\ \A w \in Urls \ {u} : consecutive_successes'[w] = consecutive_successes[w]
          /\ UNCHANGED <<reachable, streak, raced>>
      BY <1>1, <1>2, <1>9, <2>1 DEF ResetsCount
    <2>3. 0 < RecoveryThreshold /\ 0 <= streak[u]
      BY <1>1, <1>2, <2>1
    <2> QED
      BY <1>1, <2>1, <2>2, <2>3, MarkKeeps
  <1> QED
    BY <1>4, <1>5, <1>6, <1>7, <1>8, <1>9 DEF Prober

LEMMA HealthStep ==
  ASSUME HealthInv, [HealthNext]_healthVars
  PROVE  HealthInv'
  <1>1. CASE StartPass
    <2> DEFINE q == [prober["periodic"] EXCEPT !.pc = "probe", !.todo = Urls]
    <2>1. /\ prober \in [Probers -> ProbeTask] /\ "periodic" \in Probers
          /\ "probe" \in ProbePoints /\ Urls \in MintSets
      BY DEF HealthInv, HealthType, Probers, ProbePoints, MintSets
    <2>2. q \in ProbeTask /\ q.pc = "probe"
      <3>1. prober["periodic"] \in ProbeTask
        BY <2>1
      <3> QED
        BY <2>1, <3>1 DEF ProbeTask
    <2>3. prober' = [prober EXCEPT !["periodic"] = q]
      BY <1>1, <2>1 DEF StartPass
    <2>4. prober["periodic"].pc \notin MarkPoints /\ q.pc \notin MarkPoints
      BY <1>1, <2>2 DEF StartPass, ProbeAt, MarkPoints
    <2> HIDE DEF q
    <2> QED
      BY <1>1, <2>1, <2>2, <2>3, <2>4, PassKeeps DEF StartPass
  <1>2. CASE MintUpDown \/ UNCHANGED healthVars
    BY <1>2 DEF MintUpDown, healthVars, HealthInv, HealthType, OneMarks, CountIsCovered, Marking
  <1> QED
    BY <1>1, <1>2, ProberKeeps DEF HealthNext

(* A mint that was found unreachable is advertised again only after        *)
(* recovery_threshold successful probes in a row, whichever of the two     *)
(* tasks made them and however their marks of other mints interleave,      *)
(* unless they marked this very mint at the same time; for every threshold *)
(* and every list of accepted mints.                                       *)
THEOREM RecoveryEarned == HealthSpec => RecoveryIsEarned
  <1>1. HealthInit => HealthInv
    <2> SUFFICES ASSUME HealthInit PROVE HealthInv
      OBVIOUS
    <2>1. /\ prober \in [Probers -> ProbeTask]
          /\ \A t \in Probers : prober[t].pc \notin MarkPoints
      <3>1. \A t \in Probers : /\ (IF t = "initial" THEN "probe" ELSE "sleep") \in ProbePoints
                               /\ (IF t = "initial" THEN Urls ELSE {}) \in MintSets
                               /\ "" \in MintNames
        BY DEF ProbePoints, MintSets, MintNames
      <3>2. \A t \in Probers : (IF t = "initial" THEN "probe" ELSE "sleep") \notin MarkPoints
        BY DEF MarkPoints
      <3> QED
        BY <3>1, <3>2 DEF HealthInit, ProbeTask
    <2>2. HealthType
      BY <2>1 DEF HealthInit, HealthType
    <2>3. \A u \in Urls, t \in Probers : ~Marking(t, u)
      BY <2>1 DEF Marking, MarkPoints
    <2>4. \A u \in Urls : consecutive_successes[u] = 0 /\ streak[u] = 0
      BY DEF HealthInit
    <2>5. RecoveryThreshold \in Nat /\ 0 < RecoveryThreshold
      BY MintHealthAssumption
    <2>6. \A u \in Urls : OneMarks(u) /\ CountIsCovered(u)
      BY <2>3, <2>4, <2>5 DEF OneMarks, CountIsCovered
    <2> QED
      BY <2>2, <2>6 DEF HealthInv
  <1>2. HealthInv /\ [HealthNext]_healthVars =>
          [\A u \in Urls : ~reachable[u] /\ reachable'[u] /\ u \notin raced
                             => streak[u] >= RecoveryThreshold]_healthVars
    <2> SUFFICES ASSUME HealthInv, HealthNext, NEW u \in Urls,
                        ~reachable[u], reachable'[u], u \notin raced
                 PROVE  streak[u] >= RecoveryThreshold
      OBVIOUS
    <2>1. PICK t \in Probers : Recovers(t) \/ MarkUnreachable(t)
      BY DEF HealthNext, StartPass, MintUpDown, Prober, EndPass, Probed, SeesReachable,
             CountsSuccess, ResetsCount
    <2>2. Recovers(t) /\ prober[t].url = u
      BY <2>1 DEF Recovers, MarkUnreachable, HealthInv, HealthType
    <2>3. Marking(t, u) /\ prober[t].pc = "recover" /\ CountIsCovered(u)
      BY <2>2 DEF Recovers, ProbeAt, Marking, HealthInv
    <2> QED
      BY <2>3 DEF CountIsCovered
  <1> QED
    BY <1>1, <1>2, HealthStep, PTL DEF HealthSpec, RecoveryIsEarned

-----------------------------------------------------------------------------
(* The provider's payments (module V1Provider).                            *)

HandleFields == {"pc", "address", "token", "ok", "status"}
WorkPoints == {"connect", "message", "verify", "credit", "ack", "drain"}
HandlePoints == WorkPoints \cup {"idle", "done", "gone"}

ProviderType ==
    /\ DOMAIN request = Requests
    /\ \A r \in Requests : /\ DOMAIN request[r] = HandleFields
                           /\ request[r].pc \in HandlePoints
                           /\ request[r].ok \in BOOLEAN
    /\ outbox \in [Peers -> Seq(BOOLEAN)]
    /\ credited \subseteq Requests
    /\ IsFiniteSet({r \in Requests : request[r].pc # "idle"})

(* How a request lives: its token and its address are set when it is       *)
(* posted, its token is credited once it is verified, and it is answered   *)
(* last.                                                                   *)
Lives(r) ==
    /\ request[r].pc = "idle" => request[r].token = NoToken
    /\ request[r].pc \in WorkPoints \cup {"gone"} => request[r].token # NoToken
    /\ request[r].token # NoToken => request[r].address \in DOMAIN Leases
    /\ request[r].status = 200 => request[r].pc = "done"
    /\ r \in credited => request[r].pc \in {"ack", "drain", "done", "gone"}
    /\ r \in credited => request[r].token # NoToken
    /\ request[r].pc = "ack" => (r \in credited <=> request[r].ok = TRUE)

(* The balance of one peer's acks: every acceptance, queued or announced,  *)
(* is one of a credited token.                                             *)
Accepted(p) == {r \in PaymentsOf(p) : request[r].status = 200}
Queued(p) == {i \in 1..Len(outbox[p]) : outbox[p][i] = TRUE}
Pending(p) == {r \in PaymentsOf(p) : request[r].pc = "ack" /\ request[r].ok = TRUE}
Paid(p) == {r \in credited : PeerOf(r) = p}

AcksAreCovered(p) ==
    Cardinality(Accepted(p)) + Cardinality(Queued(p)) + Cardinality(Pending(p))
      <= Cardinality(Paid(p))

(* A request that met no other one of its peer has the outbox to itself.   *)
Lingers(q) == request[q].pc \in WorkPoints \cup {"gone"}

Undisturbed(r) ==
    r \notin muddled /\ request[r].pc \in WorkPoints =>
        /\ \A q \in Requests \ {r} : Lingers(q) => PeerOf(q) # PeerOf(r)
        /\ request[r].pc # "drain" => outbox[PeerOf(r)] = <<>>
        /\ request[r].pc = "drain" =>
             (r \in credited <=> outbox[PeerOf(r)] # <<>> /\ Head(outbox[PeerOf(r)]) = TRUE)

OutboxIsOwned(p) == outbox[p] # <<>> => \E q \in Requests : Lingers(q) /\ PeerOf(q) = p

ProviderInv ==
    /\ ProviderType
    /\ \A r \in Requests : Lives(r) /\ Undisturbed(r)
    /\ \A p \in Peers : AcksAreCovered(p) /\ OutboxIsOwned(p)
    /\ OwnTokenIsAnswered

LEMMA AppendElements ==
  ASSUME NEW S, NEW s \in Seq(S), NEW e \in S
  PROVE  /\ Len(Append(s, e)) = Len(s) + 1 /\ Len(s) \in Nat
         /\ \A i \in 1..Len(s) : Append(s, e)[i] = s[i]
         /\ Append(s, e)[Len(s) + 1] = e
  OBVIOUS

LEMMA PaymentPeer ==
  ASSUME ProviderType, NEW r \in Requests, Lives(r), request[r].token # NoToken
  PROVE  PeerOf(r) \in Peers
  BY DEF Lives, PeerOf, Peers

LEMMA BooksFinite ==
  ASSUME ProviderType, \A r \in Requests : Lives(r), NEW p \in Peers
  PROVE  /\ IsFiniteSet(Accepted(p)) /\ Cardinality(Accepted(p)) \in Nat
         /\ IsFiniteSet(Queued(p)) /\ Cardinality(Queued(p)) \in Nat
         /\ IsFiniteSet(Pending(p)) /\ Cardinality(Pending(p)) \in Nat
         /\ IsFiniteSet(Paid(p)) /\ Cardinality(Paid(p)) \in Nat
  <1> DEFINE Used == {r \in Requests : request[r].pc # "idle"}
  <1>1. IsFiniteSet(Used)
    BY DEF ProviderType
  <1>2. Accepted(p) \subseteq Used /\ Pending(p) \subseteq Used
    BY DEF Accepted, Pending, PaymentsOf, Lives
  <1>3. Paid(p) \subseteq Used
    BY DEF Paid, Lives, ProviderType
  <1>4. Queued(p) \subseteq 1..Len(outbox[p]) /\ Len(outbox[p]) \in Nat
    BY DEF Queued, ProviderType
  <1>5. IsFiniteSet(1..Len(outbox[p]))
    BY <1>4, FS_Interval
  <1> HIDE DEF Used
  <1> QED
    BY <1>1, <1>2, <1>3, <1>4, <1>5, FS_Subset, FS_CardinalityType

(* The balance stays when nothing is credited and no ack is added.         *)
LEMMA BooksKept ==
  ASSUME ProviderInv, NEW p \in Peers,
         Accepted(p)' \subseteq Accepted(p), Queued(p)' \subseteq Queued(p),
         Pending(p)' \subseteq Pending(p), Paid(p)' = Paid(p)
  PROVE  AcksAreCovered(p)'
  <1>1. /\ IsFiniteSet(Accepted(p)) /\ Cardinality(Accepted(p)) \in Nat
        /\ IsFiniteSet(Queued(p)) /\ Cardinality(Queued(p)) \in Nat
        /\ IsFiniteSet(Pending(p)) /\ Cardinality(Pending(p)) \in Nat
        /\ Cardinality(Paid(p)) \in Nat /\ AcksAreCovered(p)
    BY BooksFinite DEF ProviderInv
  <1>2. /\ Cardinality(Accepted(p)') <= Cardinality(Accepted(p))
        /\ Cardinality(Queued(p)') <= Cardinality(Queued(p))
        /\ Cardinality(Pending(p)') <= Cardinality(Pending(p))
        /\ Cardinality(Accepted(p)') \in Nat /\ Cardinality(Queued(p)') \in Nat
        /\ Cardinality(Pending(p)') \in Nat
    BY <1>1, FS_Subset, FS_CardinalityType
  <1>3. Cardinality(Accepted(p)') + Cardinality(Queued(p)') + Cardinality(Pending(p)')
          <= Cardinality(Paid(p))
    BY <1>1, <1>2 DEF AcksAreCovered
  <1> QED
    BY <1>3 DEF AcksAreCovered

(* A step changes the handler of r only; and keeps its token and address.  *)
Only(r) ==
    /\ DOMAIN request' = Requests /\ DOMAIN request'[r] = HandleFields
    /\ \A q \in Requests \ {r} : request'[q] = request[q]

Keeps(r) ==
    /\ Only(r)
    /\ request'[r].address = request[r].address /\ request'[r].token = request[r].token

LEMMA KeptPeers ==
  ASSUME NEW r \in Requests, Keeps(r)
  PROVE  /\ \A q \in Requests : PeerOf(q)' = PeerOf(q)
         /\ \A q \in Requests : request'[q].token = request[q].token
         /\ \A p \in Peers : PaymentsOf(p)' = PaymentsOf(p)
  <1>1. \A q \in Requests : request'[q].address = request[q].address
                            /\ request'[q].token = request[q].token
    BY DEF Keeps, Only
  <1>2. \A q \in Requests : PeerOf(q)' = PeerOf(q)
    BY <1>1 DEF PeerOf
  <1> QED
    BY <1>1, <1>2 DEF PaymentsOf

LEMMA KeptTypes ==
  ASSUME ProviderInv, NEW r \in Requests, Only(r), request'[r].pc \in HandlePoints,
         request'[r].ok \in BOOLEAN, outbox' \in [Peers -> Seq(BOOLEAN)],
         credited' \subseteq Requests
  PROVE  ProviderType'
  <1> DEFINE Used == {q \in Requests : request[q].pc # "idle"}
             Used1 == {q \in Requests : request'[q].pc # "idle"}
  <1>1. ProviderType /\ IsFiniteSet(Used)
    BY DEF ProviderInv, ProviderType
  <1>2. Used1 \subseteq Used \cup {r}
    BY DEF Only
  <1>3. IsFiniteSet(Used1)
    <2> HIDE DEF Used, Used1
    <2>1. IsFiniteSet(Used \cup {r})
      BY <1>1, FS_AddElement
    <2> QED
      BY <1>2, <2>1, FS_Subset
  <1>4. \A q \in Requests : /\ DOMAIN request'[q] = HandleFields
                            /\ request'[q].pc \in HandlePoints /\ request'[q].ok \in BOOLEAN
    BY <1>1 DEF Only, ProviderType
  <1> QED
    BY <1>3, <1>4 DEF Only, ProviderType

(* A step that answers no payment leaves the answers as they are.          *)
LEMMA AnswersKept ==
  ASSUME ProviderInv, NEW r \in Requests, Keeps(r),
         request'[r].pc # "done" \/ request'[r].token = NoToken,
         \A q \in Requests \ {r} : q \in credited' <=> q \in credited,
         muddled \subseteq muddled'
  PROVE  OwnTokenIsAnswered'
  <1> SUFFICES ASSUME NEW p \in Peers, NEW q \in PaymentsOf(p)' \ muddled',
                      request'[q].pc = "done"
               PROVE  request'[q].status = 200 <=> q \in credited'
    BY DEF OwnTokenIsAnswered
  <1>1. q \in Requests \ {r} /\ request'[q] = request[q] /\ (q \in credited' <=> q \in credited)
    BY DEF PaymentsOf, Keeps, Only
  <1>2. q \in PaymentsOf(p) \ muddled
    BY KeptPeers
  <1> QED
    BY <1>1, <1>2 DEF ProviderInv, OwnTokenIsAnswered

(* The steps up to the credit: the token is not yet credited, the outbox   *)
(* not yet touched.                                                        *)
LEMMA EarlySteps ==
  ASSUME ProviderInv, NEW r \in Requests,
         \/ Connects(r) \/ ReceivesToken(r) \/ Verifies(r)
         \/ Credits(r) /\ account[PeerOf(r)] = Unknown
  PROVE  ProviderInv'
  <1>1. /\ ProviderType /\ \A q \in Requests : Lives(q) /\ Undisturbed(q)
        /\ \A p \in Peers : AcksAreCovered(p) /\ OutboxIsOwned(p)
        /\ DOMAIN request = Requests /\ DOMAIN request[r] = HandleFields
        /\ request[r].ok \in BOOLEAN
    BY DEF ProviderInv, ProviderType
  <1>2. /\ UNCHANGED <<outbox, credited, muddled>>
        /\ request[r].pc \in {"connect", "message", "verify", "credit"}
    BY DEF Connects, ReceivesToken, Verifies, Credits
  <1>3. /\ Keeps(r) /\ request'[r].pc \in {"message", "verify", "credit", "drain"}
        /\ request'[r].ok \in BOOLEAN /\ request'[r].status = request[r].status
    <2>1. CASE \/ Connects(r) \/ ReceivesToken(r)
               \/ Credits(r) /\ account[PeerOf(r)] = Unknown
      <3>1. PICK x \in {"message", "verify", "drain"} : request' = [request EXCEPT ![r].pc = x]
        BY <2>1 DEF Connects, ReceivesToken, Credits
      <3> QED
        BY <1>1, <3>1 DEF Keeps, Only, HandleFields
    <2>2. CASE Verifies(r)
      <3>1. PICK ok \in BOOLEAN : request' = [request EXCEPT ![r].pc = "credit", ![r].ok = ok]
        BY <2>2 DEF Verifies
      <3> QED
        BY <1>1, <3>1 DEF Keeps, Only, HandleFields
    <2> QED
      BY <2>1, <2>2
  <1>4. r \notin credited
    BY <1>1, <1>2 DEF Lives
  <1>5. ProviderType'
    BY <1>1, <1>2, <1>3, KeptTypes DEF Keeps, HandlePoints, WorkPoints, ProviderType
  <1>6. /\ \A q \in Requests : PeerOf(q)' = PeerOf(q)
        /\ \A q \in Requests \ {r} : request'[q] = request[q]
        /\ \A p \in Peers : PaymentsOf(p)' = PaymentsOf(p)
    BY <1>3, KeptPeers DEF Keeps, Only
  <1>7. \A q \in Requests : Lives(q)'
    BY <1>1, <1>2, <1>3, <1>4, <1>6 DEF Lives, Keeps, WorkPoints
  <1>8. \A q \in Requests : Lingers(q)' <=> Lingers(q)
    BY <1>2, <1>3, <1>6 DEF Lingers, WorkPoints
  <1>9. \A q \in Requests : Undisturbed(q)'
    <2> SUFFICES ASSUME NEW q \in Requests, q \notin muddled, request'[q].pc \in WorkPoints
                 PROVE  Undisturbed(q)'
      BY <1>2 DEF Undisturbed
    <2>1. request[q].pc \in WorkPoints /\ Undisturbed(q)
      BY <1>1, <1>2, <1>6 DEF WorkPoints
    <2>2. \A o \in Requests \ {q} : Lingers(o)' => PeerOf(o)' # PeerOf(q)'
      BY <1>6, <1>8, <2>1 DEF Undisturbed
    <2>3. CASE q = r
      <3>1. outbox[PeerOf(r)] = <<>>
        BY <1>2, <2>1, <2>3 DEF Undisturbed
      <3> QED
        BY <1>2, <1>4, <1>6, <2>2, <2>3, <3>1 DEF Undisturbed
    <2>4. CASE q # r
      BY <1>2, <1>6, <2>1, <2>2, <2>4 DEF Undisturbed
    <2> QED
      BY <2>3, <2>4
  <1>10. \A p \in Peers : OutboxIsOwned(p)'
    BY <1>1, <1>2, <1>6, <1>8 DEF OutboxIsOwned
  <1>11. \A p \in Peers : AcksAreCovered(p)'
    <2> SUFFICES ASSUME NEW p \in Peers PROVE AcksAreCovered(p)'
      OBVIOUS
    <2>1. Accepted(p)' \subseteq Accepted(p)
      BY <1>3, <1>6 DEF Accepted, PaymentsOf
    <2>2. Pending(p)' \subseteq Pending(p)
      BY <1>3, <1>6 DEF Pending, PaymentsOf
    <2>3. Queued(p)' = Queued(p)
      BY <1>2 DEF Queued
    <2>4. Paid(p)' = Paid(p)
      BY <1>1, <1>2, <1>6 DEF Paid, ProviderType
    <2> QED
      BY <2>1, <2>2, <2>3, <2>4, BooksKept
  <1>12. OwnTokenIsAnswered'
    BY <1>2, <1>3, AnswersKept
  <1> QED
    BY <1>5, <1>7, <1>9, <1>10, <1>11, <1>12 DEF ProviderInv

(* BootstrapVerified of a known peer: the one step that credits.           *)
LEMMA CreditStep ==
  ASSUME ProviderInv, NEW r \in Requests, Credits(r), account[PeerOf(r)] # Unknown
  PROVE  ProviderInv'
  <1>1. /\ ProviderType /\ \A q \in Requests : Lives(q) /\ Undisturbed(q)
        /\ \A p \in Peers : AcksAreCovered(p) /\ OutboxIsOwned(p)
        /\ DOMAIN request = Requests /\ DOMAIN request[r] = HandleFields
        /\ request[r].ok \in BOOLEAN
    BY DEF ProviderInv, ProviderType
  <1>2. /\ UNCHANGED <<outbox, muddled>> /\ request[r].pc = "credit"
        /\ request' = [request EXCEPT ![r].pc = "ack"]
        /\ credited' = IF request[r].ok = TRUE THEN credited \cup {r} ELSE credited
    BY <1>1 DEF Credits
  <1>3. /\ Keeps(r) /\ request'[r].pc = "ack"
        /\ request'[r].ok = request[r].ok /\ request'[r].status = request[r].status
    BY <1>1, <1>2 DEF Keeps, Only, HandleFields
  <1>4. r \notin credited /\ request[r].status # 200 /\ request[r].token # NoToken
    BY <1>1, <1>2 DEF Lives, WorkPoints
  <1>5. credited' \subseteq Requests /\ \A q \in Requests \ {r} : q \in credited' <=> q \in credited
    BY <1>1, <1>2 DEF ProviderType
  <1>6. ProviderType'
    BY <1>1, <1>2, <1>3, <1>5, KeptTypes DEF Keeps, HandlePoints, WorkPoints, ProviderType
  <1>7. /\ \A q \in Requests : PeerOf(q)' = PeerOf(q)
        /\ \A q \in Requests \ {r} : request'[q] = request[q]
        /\ \A p \in Peers : PaymentsOf(p)' = PaymentsOf(p)
    BY <1>3, KeptPeers DEF Keeps, Only
  <1>8. \A q \in Requests : Lives(q)'
    <2>1. Lives(r)'
      BY <1>1, <1>2, <1>3, <1>4 DEF Lives, Keeps, WorkPoints
    <2>2. \A q \in Requests \ {r} : Lives(q)'
      BY <1>1, <1>5, <1>7 DEF Lives
    <2> QED
      BY <2>1, <2>2
  <1>9. \A q \in Requests : Lingers(q)' <=> Lingers(q)
    BY <1>2, <1>3, <1>7 DEF Lingers, WorkPoints
  <1>10. \A q \in Requests : Undisturbed(q)'
    <2> SUFFICES ASSUME NEW q \in Requests, q \notin muddled, request'[q].pc \in WorkPoints
                 PROVE  Undisturbed(q)'
      BY <1>2 DEF Undisturbed
    <2>1. request[q].pc \in WorkPoints /\ Undisturbed(q)
      BY <1>1, <1>2, <1>7 DEF WorkPoints
    <2>2. \A o \in Requests \ {q} : Lingers(o)' => PeerOf(o)' # PeerOf(q)'
      BY <1>7, <1>9, <2>1 DEF Undisturbed
    <2>3. CASE q = r
      BY <1>2, <1>3, <1>7, <2>1, <2>2, <2>3 DEF Undisturbed
    <2>4. CASE q # r
      BY <1>2, <1>5, <1>7, <2>1, <2>2, <2>4 DEF Undisturbed
    <2> QED
      BY <2>3, <2>4
  <1>11. \A p \in Peers : OutboxIsOwned(p)'
    BY <1>1, <1>2, <1>7, <1>9 DEF OutboxIsOwned
  <1>12. ASSUME NEW p \in Peers PROVE AcksAreCovered(p)'
    <2>1. Accepted(p)' = Accepted(p)
      BY <1>3, <1>4, <1>7 DEF Accepted, PaymentsOf
    <2>2. Queued(p)' = Queued(p)
      BY <1>2 DEF Queued
    <2>3. CASE request[r].ok = TRUE /\ PeerOf(r) = p
      <3>1. Pending(p)' = Pending(p) \cup {r} /\ r \notin Pending(p)
        BY <1>2, <1>3, <1>4, <1>7, <2>3 DEF Pending, PaymentsOf
      <3>2. Paid(p)' = Paid(p) \cup {r} /\ r \notin Paid(p)
        BY <1>1, <1>2, <1>4, <1>7, <2>3 DEF Paid, ProviderType
      <3>3. /\ Cardinality(Accepted(p)) \in Nat /\ Cardinality(Queued(p)) \in Nat
            /\ IsFiniteSet(Pending(p)) /\ Cardinality(Pending(p)) \in Nat
            /\ IsFiniteSet(Paid(p)) /\ Cardinality(Paid(p)) \in Nat /\ AcksAreCovered(p)
        BY <1>1, BooksFinite
      <3>4. /\ Cardinality(Pending(p)') = Cardinality(Pending(p)) + 1
            /\ Cardinality(Paid(p)') = Cardinality(Paid(p)) + 1
        BY <3>1, <3>2, <3>3, FS_AddElement
      <3>5. Cardinality(Accepted(p)') + Cardinality(Queued(p)') + Cardinality(Pending(p)')
              <= Cardinality(Paid(p)')
        BY <2>1, <2>2, <3>3, <3>4 DEF AcksAreCovered
      <3> QED
        BY <3>5 DEF AcksAreCovered
    <2>4. CASE ~(request[r].ok = TRUE /\ PeerOf(r) = p)
      <3>1. Pending(p)' \subseteq Pending(p)
        BY <1>3, <1>7, <2>4 DEF Pending, PaymentsOf
      <3>2. Paid(p)' = Paid(p)
        BY <1>1, <1>2, <1>7, <2>4 DEF Paid, ProviderType
      <3> QED
        BY <2>1, <2>2, <3>1, <3>2, BooksKept
    <2> QED
      BY <2>3, <2>4
  <1>13. OwnTokenIsAnswered'
    BY <1>2, <1>3, <1>5, AnswersKept
  <1> QED
    BY <1>6, <1>8, <1>10, <1>11, <1>12, <1>13 DEF ProviderInv

(* The ack moves from the handler into the outbox.                         *)
LEMMA AckStep ==
  ASSUME ProviderInv, NEW r \in Requests, Acks(r)
  PROVE  ProviderInv'
  <1> DEFINE p == PeerOf(r)
  <1>1. /\ ProviderType /\ \A q \in Requests : Lives(q) /\ Undisturbed(q)
        /\ \A x \in Peers : AcksAreCovered(x) /\ OutboxIsOwned(x)
        /\ DOMAIN request = Requests /\ DOMAIN request[r] = HandleFields
        /\ request[r].ok \in BOOLEAN /\ outbox \in [Peers -> Seq(BOOLEAN)]
    BY DEF ProviderInv, ProviderType
  <1>2. /\ UNCHANGED <<credited, muddled>> /\ request[r].pc = "ack"
        /\ request' = [request EXCEPT ![r].pc = "drain"]
        /\ outbox' = [outbox EXCEPT ![p] = Append(@, request[r].ok)]
    BY DEF Acks
  <1>3. /\ Keeps(r) /\ request'[r].pc = "drain"
        /\ request'[r].ok = request[r].ok /\ request'[r].status = request[r].status
    BY <1>1, <1>2 DEF Keeps, Only, HandleFields
  <1>4. /\ request[r].status # 200 /\ request[r].token # NoToken
        /\ r \in credited <=> request[r].ok = TRUE
        /\ p \in Peers
    BY <1>1, <1>2, PaymentPeer DEF Lives, WorkPoints
  <1>5. /\ outbox' \in [Peers -> Seq(BOOLEAN)] /\ outbox'[p] = Append(outbox[p], request[r].ok)
        /\ \A x \in Peers \ {p} : outbox'[x] = outbox[x]
    BY <1>1, <1>2, <1>4
  <1>6. ProviderType'
    BY <1>1, <1>2, <1>3, <1>5, KeptTypes DEF Keeps, HandlePoints, WorkPoints, ProviderType
  <1>7. /\ \A q \in Requests : PeerOf(q)' = PeerOf(q)
        /\ \A q \in Requests \ {r} : request'[q] = request[q]
        /\ \A x \in Peers : PaymentsOf(x)' = PaymentsOf(x)
    BY <1>3, KeptPeers DEF Keeps, Only
  <1>8. \A q \in Requests : Lives(q)'
    <2>1. Lives(r)'
      BY <1>1, <1>2, <1>3, <1>4 DEF Lives, Keeps, WorkPoints
    <2>2. \A q \in Requests \ {r} : Lives(q)'
      BY <1>1, <1>2, <1>7 DEF Lives
    <2> QED
      BY <2>1, <2>2
  <1>9. \A q \in Requests : Lingers(q)' <=> Lingers(q)
    BY <1>2, <1>3, <1>7 DEF Lingers, WorkPoints
  <1>10. \A q \in Requests : Undisturbed(q)'
    <2> SUFFICES ASSUME NEW q \in Requests, q \notin muddled, request'[q].pc \in WorkPoints
                 PROVE  Undisturbed(q)'
      BY <1>2 DEF Undisturbed
    <2>1. request[q].pc \in WorkPoints /\ Undisturbed(q)
      BY <1>1, <1>2, <1>7 DEF WorkPoints
    <2>2. \A o \in Requests \ {q} : Lingers(o)' => PeerOf(o)' # PeerOf(q)'
      BY <1>7, <1>9, <2>1 DEF Undisturbed
    <2>3. CASE q = r
      <3>1. outbox[p] = <<>>
        BY <1>2, <2>1, <2>3 DEF Undisturbed
      <3>2. outbox'[p] # <<>> /\ Head(outbox'[p]) = request[r].ok
        BY <1>1, <1>5, <3>1
      <3> QED
        BY <1>2, <1>3, <1>4, <1>7, <2>2, <2>3, <3>2 DEF Undisturbed
    <2>4. CASE q # r
      <3>1. Lingers(r) /\ PeerOf(q) # p
        BY <1>2, <2>1, <2>4 DEF Undisturbed, Lingers, WorkPoints
      <3>2. PeerOf(q) \in Peers
        BY <1>1, <2>1, PaymentPeer DEF Lives
      <3>3. outbox'[PeerOf(q)] = outbox[PeerOf(q)]
        BY <1>5, <3>1, <3>2
      <3> QED
        BY <1>2, <1>7, <2>1, <2>2, <2>4, <3>3 DEF Undisturbed
    <2> QED
      BY <2>3, <2>4
  <1>11. \A x \in Peers : OutboxIsOwned(x)'
    <2>1. Lingers(r)' /\ PeerOf(r)' = p
      BY <1>3, <1>7 DEF Lingers, WorkPoints
    <2> QED
      BY <1>1, <1>5, <1>7, <1>9, <2>1 DEF OutboxIsOwned
  <1>12. ASSUME NEW x \in Peers PROVE AcksAreCovered(x)'
    <2>1. Accepted(x)' = Accepted(x)
      BY <1>3, <1>4, <1>7 DEF Accepted, PaymentsOf
    <2>2. Paid(x)' = Paid(x)
      BY <1>1, <1>2, <1>7 DEF Paid, ProviderType
    <2>3. CASE request[r].ok = TRUE /\ p = x
      <3>1. Pending(x)' = Pending(x) \ {r} /\ r \in Pending(x)
        BY <1>2, <1>3, <1>4, <1>7, <2>3 DEF Pending, PaymentsOf
      <3>2. Queued(x)' = Queued(x) \cup {Len(outbox[x]) + 1} /\ Len(outbox[x]) + 1 \notin Queued(x)
        <4>1. outbox[x] \in Seq(BOOLEAN) /\ outbox'[x] = Append(outbox[x], TRUE)
          BY <1>1, <1>5, <2>3
        <4>2. /\ Len(outbox'[x]) = Len(outbox[x]) + 1 /\ Len(outbox[x]) \in Nat
              /\ \A i \in 1..Len(outbox[x]) : outbox'[x][i] = outbox[x][i]
              /\ outbox'[x][Len(outbox[x]) + 1] = TRUE
          <5> DEFINE t == outbox[x]
          <5>1. TRUE \in BOOLEAN
            OBVIOUS
          <5>2. /\ Len(Append(t, TRUE)) = Len(t) + 1 /\ Len(t) \in Nat
                /\ \A i \in 1..Len(t) : Append(t, TRUE)[i] = t[i]
                /\ Append(t, TRUE)[Len(t) + 1] = TRUE
            <6> HIDE DEF t
            <6> QED
              BY <4>1, <5>1, AppendElements, Zenon DEF t
          <5> QED
            BY <4>1, <5>2
        <4> QED
          BY <4>2 DEF Queued
      <3>3. /\ Cardinality(Accepted(x)) \in Nat /\ Cardinality(Paid(x)) \in Nat
            /\ IsFiniteSet(Pending(x)) /\ Cardinality(Pending(x)) \in Nat
            /\ IsFiniteSet(Queued(x)) /\ Cardinality(Queued(x)) \in Nat /\ AcksAreCovered(x)
        BY <1>1, BooksFinite
      <3>4. Cardinality(Pending(x)') = Cardinality(Pending(x)) - 1
        BY <3>1, <3>3, FS_RemoveElement
      <3>5. Cardinality(Queued(x)') = Cardinality(Queued(x)) + 1
        BY <3>2, <3>3, FS_AddElement
      <3>6. Cardinality(Accepted(x)') + Cardinality(Queued(x)') + Cardinality(Pending(x)')
              <= Cardinality(Paid(x)')
        BY <2>1, <2>2, <3>3, <3>4, <3>5 DEF AcksAreCovered
      <3> QED
        BY <3>6 DEF AcksAreCovered
    <2>4. CASE ~(request[r].ok = TRUE /\ p = x)
      <3>1. Pending(x)' \subseteq Pending(x)
        BY <1>3, <1>7, <2>4 DEF Pending, PaymentsOf
      <3>2. Queued(x)' \subseteq Queued(x)
        <4>1. CASE x # p
          BY <1>5, <4>1 DEF Queued
        <4>2. CASE x = p
          <5>1. outbox[x] \in Seq(BOOLEAN) /\ outbox'[x] = Append(outbox[x], FALSE)
            BY <1>1, <1>5, <2>4, <4>2
          <5>2. /\ Len(outbox'[x]) = Len(outbox[x]) + 1 /\ Len(outbox[x]) \in Nat
                /\ \A i \in 1..Len(outbox[x]) : outbox'[x][i] = outbox[x][i]
                /\ outbox'[x][Len(outbox[x]) + 1] = FALSE
            <6> DEFINE t == outbox[x]
            <6>1. FALSE \in BOOLEAN
              OBVIOUS
            <6>2. /\ Len(Append(t, FALSE)) = Len(t) + 1 /\ Len(t) \in Nat
                  /\ \A i \in 1..Len(t) : Append(t, FALSE)[i] = t[i]
                  /\ Append(t, FALSE)[Len(t) + 1] = FALSE
              <7> HIDE DEF t
              <7> QED
                BY <5>1, <6>1, AppendElements, Zenon DEF t
            <6> QED
              BY <5>1, <6>2
          <5> QED
            BY <5>2 DEF Queued
        <4> QED
          BY <4>1, <4>2
      <3> QED
        BY <2>1, <2>2, <3>1, <3>2, BooksKept
    <2> QED
      BY <2>3, <2>4
  <1>13. OwnTokenIsAnswered'
    BY <1>2, <1>3, AnswersKept
  <1> QED
    BY <1>6, <1>8, <1>10, <1>11, <1>12, <1>13 DEF ProviderInv

(* The answer: the outbox is emptied, its first ack is announced.          *)
LEMMA DrainStep ==
  ASSUME ProviderInv, NEW r \in Requests, Drains(r)
  PROVE  ProviderInv'
  <1> DEFINE p == PeerOf(r)
             yes == outbox[p] # <<>> /\ Head(outbox[p]) = TRUE
  <1>1. /\ ProviderType /\ \A q \in Requests : Lives(q) /\ Undisturbed(q)
        /\ \A x \in Peers : AcksAreCovered(x) /\ OutboxIsOwned(x)
        /\ DOMAIN request = Requests /\ DOMAIN request[r] = HandleFields
        /\ request[r].ok \in BOOLEAN /\ outbox \in [Peers -> Seq(BOOLEAN)]
    BY DEF ProviderInv, ProviderType
  <1>2. /\ UNCHANGED <<credited, muddled>> /\ request[r].pc = "drain"
        /\ AnswerOf(r, outbox[p]) /\ outbox' = [outbox EXCEPT ![p] = <<>>]
    BY DEF Drains
  <1>3. /\ request[r].status # 200 /\ request[r].token # NoToken /\ p \in Peers
    BY <1>1, <1>2, PaymentPeer DEF Lives, WorkPoints
  <1>4. PICK s : /\ request' = [request EXCEPT ![r].pc = "done", ![r].status = s]
                 /\ s = IF yes THEN 200 ELSE 402
    <2>1. CASE yes
      BY <1>2, <2>1 DEF AnswerOf, Answer
    <2>2. CASE ~yes
      <3>1. ~(outbox[p] # <<>> /\ Head(outbox[p]))
        <4>1. outbox[p] # <<>> => Head(outbox[p]) \in BOOLEAN
          BY <1>1, <1>3
        <4> QED
          BY <2>2, <4>1
      <3> QED
        BY <1>2, <2>2, <3>1 DEF AnswerOf, Answer
    <2> QED
      BY <2>1, <2>2
  <1> HIDE DEF yes
  <1>5. /\ Keeps(r) /\ request'[r].pc = "done" /\ request'[r].ok = request[r].ok
        /\ request'[r].status = s
    BY <1>1, <1>4 DEF Keeps, Only, HandleFields
  <1>6. /\ outbox' \in [Peers -> Seq(BOOLEAN)] /\ outbox'[p] = <<>>
        /\ \A x \in Peers \ {p} : outbox'[x] = outbox[x]
    BY <1>1, <1>2, <1>3
  <1>7. ProviderType'
    BY <1>1, <1>2, <1>5, <1>6, KeptTypes DEF Keeps, HandlePoints, WorkPoints, ProviderType
  <1>8. /\ \A q \in Requests : PeerOf(q)' = PeerOf(q)
        /\ \A q \in Requests \ {r} : request'[q] = request[q]
        /\ \A x \in Peers : PaymentsOf(x)' = PaymentsOf(x)
        /\ request'[r].token = request[r].token
    BY <1>5, KeptPeers DEF Keeps, Only
  <1>9. \A q \in Requests : Lives(q)'
    <2>1. Lives(r)'
      BY <1>1, <1>2, <1>3, <1>5 DEF Lives, Keeps, WorkPoints
    <2>2. \A q \in Requests \ {r} : Lives(q)'
      BY <1>1, <1>2, <1>8 DEF Lives
    <2> QED
      BY <2>1, <2>2
  <1>10. \A q \in Requests : Lingers(q)' => q # r /\ Lingers(q)
    BY <1>5, <1>8 DEF Lingers, WorkPoints
  <1>11. \A q \in Requests \ {r} : Lingers(q) => Lingers(q)'
    BY <1>8 DEF Lingers
  <1>12. \A q \in Requests : Undisturbed(q)'
    <2> SUFFICES ASSUME NEW q \in Requests, q \notin muddled, request'[q].pc \in WorkPoints
                 PROVE  Undisturbed(q)'
      BY <1>2 DEF Undisturbed
    <2>1. q # r /\ request[q].pc \in WorkPoints /\ Undisturbed(q)
      BY <1>1, <1>5, <1>8 DEF WorkPoints
    <2>2. \A o \in Requests \ {q} : Lingers(o)' => PeerOf(o)' # PeerOf(q)'
      BY <1>8, <1>10, <2>1 DEF Undisturbed
    <2>3. Lingers(r) /\ PeerOf(q) # p
      BY <1>2, <2>1 DEF Undisturbed, Lingers, WorkPoints
    <2>4. PeerOf(q) \in Peers
      BY <1>1, <2>1, PaymentPeer DEF Lives
    <2>5. outbox'[PeerOf(q)] = outbox[PeerOf(q)]
      BY <1>6, <2>3, <2>4
    <2> QED
      BY <1>2, <1>8, <2>1, <2>2, <2>5 DEF Undisturbed
  <1>13. \A x \in Peers : OutboxIsOwned(x)'
    <2> SUFFICES ASSUME NEW x \in Peers, outbox'[x] # <<>>
                 PROVE  \E q \in Requests : Lingers(q)' /\ PeerOf(q)' = x
      BY DEF OutboxIsOwned
    <2>1. x # p /\ outbox[x] # <<>>
      BY <1>6
    <2>2. PICK q \in Requests : Lingers(q) /\ PeerOf(q) = x
      BY <1>1, <2>1 DEF OutboxIsOwned
    <2> QED
      BY <1>8, <1>11, <2>1, <2>2
  <1>14. ASSUME NEW x \in Peers PROVE AcksAreCovered(x)'
    <2>1. Pending(x)' \subseteq Pending(x)
      BY <1>5, <1>8 DEF Pending, PaymentsOf
    <2>2. Paid(x)' = Paid(x)
      BY <1>1, <1>2, <1>8 DEF Paid, ProviderType
    <2>3. Queued(x)' \subseteq Queued(x) /\ (x = p => Queued(x)' = {})
      <3>1. Len(<<>>) = 0 /\ 1..0 = {}
        OBVIOUS
      <3> QED
        BY <1>6, <3>1 DEF Queued
    <2>4. CASE x = p /\ yes
      <3>1. Accepted(x)' = Accepted(x) \cup {r} /\ r \notin Accepted(x)
        <4>1. request'[r].status = 200 /\ r \in PaymentsOf(x)
          BY <1>3, <1>4, <1>5, <2>4 DEF PaymentsOf
        <4>2. \A q \in PaymentsOf(x) \ {r} : request'[q].status = request[q].status
          BY <1>8 DEF PaymentsOf
        <4> QED
          BY <1>3, <1>8, <4>1, <4>2 DEF Accepted
      <3>2. 1 \in Queued(x)
        <4>1. outbox[x] \in Seq(BOOLEAN) /\ outbox[x] # <<>>
          BY <1>1, <2>4 DEF yes
        <4>2. 1 \in 1..Len(outbox[x]) /\ Head(outbox[x]) = outbox[x][1]
          BY <4>1
        <4> QED
          BY <2>4, <4>2 DEF Queued, yes
      <3>3. /\ IsFiniteSet(Accepted(x)) /\ Cardinality(Accepted(x)) \in Nat
            /\ Cardinality(Paid(x)) \in Nat
            /\ IsFiniteSet(Pending(x)) /\ Cardinality(Pending(x)) \in Nat
            /\ IsFiniteSet(Queued(x)) /\ Cardinality(Queued(x)) \in Nat /\ AcksAreCovered(x)
        BY <1>1, BooksFinite
      <3>4. Cardinality(Accepted(x)') = Cardinality(Accepted(x)) + 1
        BY <3>1, <3>3, FS_AddElement
      <3>5. Cardinality(Queued(x)') = 0 /\ Cardinality(Queued(x)) > 0
        <4>1. Cardinality(Queued(x)') = 0
          BY <2>3, <2>4, FS_EmptySet
        <4>2. Cardinality(Queued(x)) # 0
          BY <3>2, <3>3, FS_EmptySet
        <4> QED
          BY <3>3, <4>1, <4>2
      <3>6. Cardinality(Pending(x)') <= Cardinality(Pending(x)) /\ Cardinality(Pending(x)') \in Nat
        BY <2>1, <3>3, FS_Subset, FS_CardinalityType
      <3>7. Cardinality(Accepted(x)') + Cardinality(Queued(x)') + Cardinality(Pending(x)')
              <= Cardinality(Paid(x)')
        BY <2>2, <3>3, <3>4, <3>5, <3>6 DEF AcksAreCovered
      <3> QED
        BY <3>7 DEF AcksAreCovered
    <2>5. CASE ~(x = p /\ yes)
      <3>1. Accepted(x)' \subseteq Accepted(x)
        <4>1. r \in PaymentsOf(x) => request'[r].status # 200
          BY <1>4, <1>5, <2>5 DEF PaymentsOf
        <4>2. \A q \in PaymentsOf(x) \ {r} : request'[q].status = request[q].status
          BY <1>8 DEF PaymentsOf
        <4> QED
          BY <1>8, <4>1, <4>2 DEF Accepted
      <3> QED
        BY <2>1, <2>2, <2>3, <3>1, BooksKept
    <2> QED
      BY <2>4, <2>5
  <1>15. OwnTokenIsAnswered'
    <2> SUFFICES ASSUME NEW x \in Peers, NEW q \in PaymentsOf(x)' \ muddled',
                        request'[q].pc = "done"
                 PROVE  request'[q].status = 200 <=> q \in credited'
      BY DEF OwnTokenIsAnswered
    <2>1. q \in PaymentsOf(x) \ muddled /\ q \in Requests
      BY <1>2, <1>8 DEF PaymentsOf
    <2>2. CASE q = r
      <3>1. r \in credited <=> yes
        BY <1>1, <1>2, <2>1, <2>2 DEF Undisturbed, WorkPoints, yes
      <3> QED
        BY <1>2, <1>4, <1>5, <1>8, <2>2, <3>1
    <2>3. CASE q # r
      BY <1>2, <1>8, <2>1, <2>3 DEF ProviderInv, OwnTokenIsAnswered
    <2> QED
      BY <2>2, <2>3
  <1> QED
    BY <1>7, <1>9, <1>12, <1>13, <1>14, <1>15 DEF ProviderInv

(* A request that is answered at once (a body without a token, an address  *)
(* without a lease, a question), or whose client goes away.                *)
LEMMA EndStep ==
  ASSUME ProviderInv, NEW r \in Requests, Keeps(r), request'[r].ok = request[r].ok,
         UNCHANGED <<outbox, credited, muddled>>,
         \/ request[r].pc = "idle" /\ request'[r].pc = "done"
         \/ /\ request[r].pc \in WorkPoints /\ request'[r].pc = "gone"
            /\ request'[r].status = request[r].status
  PROVE  ProviderInv'
  <1>1. /\ ProviderType /\ \A q \in Requests : Lives(q) /\ Undisturbed(q)
        /\ \A x \in Peers : AcksAreCovered(x) /\ OutboxIsOwned(x)
        /\ request[r].ok \in BOOLEAN
    BY DEF ProviderInv, ProviderType
  <1>2. ProviderType'
    BY <1>1, KeptTypes DEF Keeps, HandlePoints, WorkPoints, ProviderType
  <1>3. /\ \A q \in Requests : PeerOf(q)' = PeerOf(q)
        /\ \A q \in Requests \ {r} : request'[q] = request[q]
        /\ \A x \in Peers : PaymentsOf(x)' = PaymentsOf(x)
        /\ request'[r].token = request[r].token
        /\ request'[r].address = request[r].address
    BY KeptPeers DEF Keeps, Only
  <1>4. \A q \in Requests : Lives(q)'
    <2>1. Lives(r)'
      BY <1>1, <1>3 DEF Lives, WorkPoints
    <2>2. \A q \in Requests \ {r} : Lives(q)'
      BY <1>1, <1>3 DEF Lives
    <2> QED
      BY <2>1, <2>2
  <1>5. \A q \in Requests : Lingers(q)' <=> Lingers(q)
    BY <1>3 DEF Lingers, WorkPoints
  <1>6. \A q \in Requests : Undisturbed(q)'
    <2> SUFFICES ASSUME NEW q \in Requests, q \notin muddled, request'[q].pc \in WorkPoints
                 PROVE  Undisturbed(q)'
      BY DEF Undisturbed
    <2>1. q # r /\ request'[q] = request[q] /\ Undisturbed(q)
      BY <1>1, <1>3 DEF WorkPoints
    <2>2. \A o \in Requests \ {q} : Lingers(o)' => PeerOf(o)' # PeerOf(q)'
      BY <1>3, <1>5, <2>1 DEF Undisturbed
    <2> QED
      BY <1>3, <2>1, <2>2 DEF Undisturbed
  <1>7. \A x \in Peers : OutboxIsOwned(x)'
    BY <1>1, <1>3, <1>5 DEF OutboxIsOwned
  <1>8. ASSUME NEW x \in Peers PROVE AcksAreCovered(x)'
    <2>1. Accepted(x)' \subseteq Accepted(x)
      <3>1. r \in PaymentsOf(x) => request'[r].status = request[r].status
        BY <1>1 DEF Lives, PaymentsOf
      <3>2. \A q \in PaymentsOf(x) \ {r} : request'[q].status = request[q].status
        BY <1>3 DEF PaymentsOf
      <3> QED
        BY <1>3, <3>1, <3>2 DEF Accepted
    <2>2. Pending(x)' \subseteq Pending(x)
      BY <1>3 DEF Pending, PaymentsOf
    <2>3. Queued(x)' = Queued(x)
      BY DEF Queued
    <2>4. Paid(x)' = Paid(x)
      BY <1>1, <1>3 DEF Paid, ProviderType
    <2> QED
      BY <2>1, <2>2, <2>3, <2>4, BooksKept
  <1>9. OwnTokenIsAnswered'
    <2>1. request'[r].pc # "done" \/ request'[r].token = NoToken
      BY <1>1, <1>3 DEF Lives
    <2> QED
      BY <2>1, AnswersKept
  <1> QED
    BY <1>2, <1>4, <1>6, <1>7, <1>8, <1>9 DEF ProviderInv

(* A payment arrives: it and the requests of its peer that are under way   *)
(* have met, and what an abandoned one left behind is met too.             *)
LEMMA PaymentArrives ==
  ASSUME ProviderInv, NEW r \in Requests, request[r].pc = "idle",
         NEW a \in DOMAIN Leases, NEW body, body # NoToken,
         request' = [request EXCEPT ![r] = [@ EXCEPT !.pc = "connect", !.address = a,
                                                    !.token = body]],
         NEW crowd, crowd = {q \in Requests : UnderWay(q) /\ Leases[a] = PeerOf(q)},
         NEW left, left = {q \in Requests : request[q].pc = "gone" /\ Leases[a] = PeerOf(q)},
         muddled' = IF crowd \cup left = {} THEN muddled ELSE muddled \cup crowd \cup {r},
         UNCHANGED <<outbox, credited>>
  PROVE  ProviderInv'
  <1> DEFINE p == Leases[a]
  <1>1. /\ ProviderType /\ \A q \in Requests : Lives(q) /\ Undisturbed(q)
        /\ \A x \in Peers : AcksAreCovered(x) /\ OutboxIsOwned(x)
        /\ DOMAIN request = Requests /\ DOMAIN request[r] = HandleFields
        /\ request[r].ok \in BOOLEAN /\ p \in Peers
    BY DEF ProviderInv, ProviderType, Peers
  <1>2. /\ Only(r) /\ request'[r].pc = "connect" /\ request'[r].address = a
        /\ request'[r].token = body /\ request'[r].ok = request[r].ok
        /\ request'[r].status = request[r].status
    BY <1>1 DEF Only, HandleFields
  <1>3. /\ \A q \in Requests \ {r} : request'[q] = request[q]
        /\ \A q \in Requests \ {r} : PeerOf(q)' = PeerOf(q)
        /\ PeerOf(r)' = p
    BY <1>2 DEF Only, PeerOf
  <1>4. r \notin credited /\ request[r].status # 200
    BY <1>1 DEF Lives
  <1>5. ProviderType'
    BY <1>1, <1>2, KeptTypes DEF HandlePoints, WorkPoints, ProviderType
  <1>6. \A q \in Requests : Lives(q)'
    <2>1. Lives(r)'
      BY <1>1, <1>2, <1>4 DEF Lives, WorkPoints
    <2>2. \A q \in Requests \ {r} : Lives(q)'
      BY <1>1, <1>3 DEF Lives
    <2> QED
      BY <2>1, <2>2
  <1>7. /\ \A q \in Requests \ {r} : Lingers(q)' <=> Lingers(q)
        /\ ~Lingers(r)
    BY <1>3 DEF Lingers, WorkPoints
  <1>8. \A q \in Requests : Lingers(q) /\ PeerOf(q) = p => q \in crowd \cup left
    BY DEF Lingers, UnderWay, WorkPoints
  <1>9. \A q \in Requests : request[q].pc \in WorkPoints /\ PeerOf(q) = p => q \in muddled'
    BY DEF UnderWay, WorkPoints
  <1>10. r \notin muddled' => crowd \cup left = {}
    OBVIOUS
  <1>11. muddled \subseteq muddled'
    OBVIOUS
  <1>12. \A q \in Requests : Undisturbed(q)'
    <2> SUFFICES ASSUME NEW q \in Requests, q \notin muddled', request'[q].pc \in WorkPoints
                 PROVE  Undisturbed(q)'
      BY DEF Undisturbed
    <2>1. CASE q = r
      <3>1. \A o \in Requests : Lingers(o) => PeerOf(o) # p
        BY <1>8, <1>10, <2>1
      <3>2. outbox[p] = <<>>
        BY <1>1, <3>1 DEF OutboxIsOwned
      <3> QED
        BY <1>2, <1>3, <1>7, <2>1, <3>1, <3>2 DEF Undisturbed
    <2>2. CASE q # r
      <3>1. request'[q] = request[q] /\ PeerOf(q)' = PeerOf(q) /\ Undisturbed(q) /\ q \notin muddled
        BY <1>1, <1>3, <1>11, <2>2
      <3>2. PeerOf(q) # p
        BY <1>9, <3>1
      <3>3. \A o \in Requests \ {q} : Lingers(o)' => PeerOf(o)' # PeerOf(q)'
        BY <1>3, <1>7, <3>1, <3>2 DEF Undisturbed
      <3> QED
        BY <3>1, <3>3 DEF Undisturbed
    <2> QED
      BY <2>1, <2>2
  <1>13. \A x \in Peers : OutboxIsOwned(x)'
    BY <1>1, <1>3, <1>7 DEF OutboxIsOwned
  <1>14. ASSUME NEW x \in Peers PROVE AcksAreCovered(x)'
    <2>1. \A q \in Requests \ {r} : q \in PaymentsOf(x)' <=> q \in PaymentsOf(x)
      BY <1>3 DEF PaymentsOf
    <2>2. PaymentsOf(x) \subseteq Requests /\ PaymentsOf(x)' \subseteq Requests
      BY DEF PaymentsOf
    <2>3. Accepted(x)' \subseteq Accepted(x)
      BY <1>2, <1>3, <1>4, <2>1, <2>2 DEF Accepted
    <2>4. Pending(x)' \subseteq Pending(x)
      BY <1>2, <1>3, <2>1, <2>2 DEF Pending
    <2>5. Queued(x)' = Queued(x)
      BY DEF Queued
    <2>6. Paid(x)' = Paid(x)
      BY <1>1, <1>3, <1>4 DEF Paid, ProviderType
    <2> QED
      BY <2>3, <2>4, <2>5, <2>6, BooksKept
  <1>15. OwnTokenIsAnswered'
    <2> SUFFICES ASSUME NEW x \in Peers, NEW q \in PaymentsOf(x)' \ muddled',
                        request'[q].pc = "done"
                 PROVE  request'[q].status = 200 <=> q \in credited'
      BY DEF OwnTokenIsAnswered
    <2>1. q \in Requests \ {r} /\ request'[q] = request[q] /\ PeerOf(q)' = PeerOf(q)
      BY <1>2, <1>3 DEF PaymentsOf
    <2>2. q \in PaymentsOf(x) \ muddled
      BY <1>11, <2>1 DEF PaymentsOf
    <2> QED
      BY <2>1, <2>2 DEF ProviderInv, OwnTokenIsAnswered
  <1> QED
    BY <1>5, <1>6, <1>12, <1>13, <1>14, <1>15 DEF ProviderInv

LEMMA ArrivalStep ==
  ASSUME ProviderInv, NEW r \in Requests, Posted(r) \/ Asked(r)
  PROVE  ProviderInv'
  <1>1. /\ DOMAIN request = Requests /\ DOMAIN request[r] = HandleFields
        /\ request[r].pc = "idle" /\ UNCHANGED <<outbox, credited>>
    BY DEF ProviderInv, ProviderType, Posted, Asked, Arrives
  <1>2. ASSUME NEW f, DOMAIN f = HandleFields, f.pc = "done", f.ok = request[r].ok,
               f.address = request[r].address, f.token = request[r].token,
               request' = [request EXCEPT ![r] = f], UNCHANGED muddled
        PROVE  ProviderInv'
    <2>1. Keeps(r) /\ request'[r] = f
      BY <1>1, <1>2 DEF Keeps, Only
    <2> QED
      BY <1>1, <1>2, <2>1, EndStep
  <1>3. CASE Asked(r)
    <2>1. UNCHANGED muddled
      BY <1>3 DEF Asked
    <2>2. PICK s : request' = [request EXCEPT ![r] = [@ EXCEPT !.pc = "done", !.status = s]]
      <3>1. PICK a \in Addresses :
              request' = [request EXCEPT ![r] =
                IF ~ResolvesFull(a) THEN [@ EXCEPT !.pc = "done", !.status = 400]
                ELSE IF account[Leases[a]] = Unknown THEN [@ EXCEPT !.pc = "done", !.status = 404]
                ELSE [@ EXCEPT !.pc = "done", !.status = 200]]
        BY <1>3 DEF Asked
      <3>2. CASE ~ResolvesFull(a)
        BY <3>1, <3>2
      <3>3. CASE ResolvesFull(a) /\ account[Leases[a]] = Unknown
        BY <3>1, <3>3, ZenonT(60)
      <3>4. CASE ResolvesFull(a) /\ account[Leases[a]] # Unknown
        BY <3>1, <3>4
      <3> QED
        BY <3>2, <3>3, <3>4
    <2> DEFINE f == [request[r] EXCEPT !.pc = "done", !.status = s]
    <2>3. /\ DOMAIN f = HandleFields /\ f.pc = "done" /\ f.ok = request[r].ok
          /\ f.address = request[r].address /\ f.token = request[r].token
      BY <1>1 DEF HandleFields
    <2>4. request' = [request EXCEPT ![r] = f]
      BY <1>1, <2>2
    <2> HIDE DEF f
    <2> QED
      BY <1>2, <2>1, <2>3, <2>4
  <1>4. CASE Posted(r)
    <2> DEFINE Crowd(a) == {q \in Requests : UnderWay(q) /\ Leases[a] = PeerOf(q)}
               Left(a) == {q \in Requests : request[q].pc = "gone" /\ Leases[a] = PeerOf(q)}
    <2>1. PICK a \in Addresses, body \in Bodies(r) :
             /\ request' = [request EXCEPT ![r] =
                  IF body = NoToken \/ ~Resolves(a)
                  THEN [@ EXCEPT !.pc = "done", !.status = 400]
                  ELSE [@ EXCEPT !.pc = "connect", !.address = a, !.token = body]]
             /\ muddled' = IF body = NoToken \/ ~Resolves(a) \/ Crowd(a) \cup Left(a) = {}
                           THEN muddled ELSE muddled \cup Crowd(a) \cup {r}
      BY <1>4 DEF Posted
    <2>2. CASE body = NoToken \/ ~Resolves(a)
      <3> DEFINE f == [request[r] EXCEPT !.pc = "done", !.status = 400]
      <3>1. /\ DOMAIN f = HandleFields /\ f.pc = "done" /\ f.ok = request[r].ok
            /\ f.address = request[r].address /\ f.token = request[r].token
        BY <1>1 DEF HandleFields
      <3>2. request' = [request EXCEPT ![r] = f] /\ UNCHANGED muddled
        BY <1>1, <2>1, <2>2
      <3> HIDE DEF f
      <3> QED
        BY <1>2, <3>1, <3>2
    <2>3. CASE ~(body = NoToken \/ ~Resolves(a))
      <3>1. a \in DOMAIN Leases /\ body # NoToken
        BY <2>3 DEF Resolves
      <3>2. /\ request' = [request EXCEPT ![r] = [@ EXCEPT !.pc = "connect", !.address = a,
                                                          !.token = body]]
            /\ muddled' = IF Crowd(a) \cup Left(a) = {} THEN muddled
                          ELSE muddled \cup Crowd(a) \cup {r}
        BY <2>1, <2>3
      <3> QED
        BY <1>1, <3>1, <3>2, PaymentArrives
    <2> QED
      BY <2>2, <2>3
  <1> QED
    BY <1>3, <1>4

(* The outbox of a peer is forgotten: the requests about to drain it, if   *)
(* there is an ack in it, are muddled.                                     *)
LEMMA ForgetStep ==
  ASSUME ProviderInv, NEW p \in Peers, Forgets(p)
  PROVE  ProviderInv'
  <1>1. /\ ProviderType /\ \A q \in Requests : Lives(q) /\ Undisturbed(q)
        /\ \A x \in Peers : AcksAreCovered(x) /\ OutboxIsOwned(x)
        /\ OwnTokenIsAnswered /\ outbox \in [Peers -> Seq(BOOLEAN)]
    BY DEF ProviderInv, ProviderType
  <1>2. /\ UNCHANGED <<request, credited>> /\ muddled \subseteq muddled'
        /\ outbox' = [outbox EXCEPT ![p] = <<>>]
        /\ outbox[p] # <<>> =>
             \A q \in Requests : request[q].pc = "drain" /\ PeerOf(q) = p => q \in muddled'
    BY DEF Forgets
  <1>3. /\ outbox' \in [Peers -> Seq(BOOLEAN)] /\ outbox'[p] = <<>>
        /\ \A x \in Peers \ {p} : outbox'[x] = outbox[x]
    BY <1>1, <1>2
  <1>4. /\ ProviderType' /\ \A q \in Requests : Lives(q)'
        /\ \A q \in Requests : PeerOf(q)' = PeerOf(q) /\ (Lingers(q)' <=> Lingers(q))
        /\ \A x \in Peers : PaymentsOf(x)' = PaymentsOf(x)
    BY <1>1, <1>2, <1>3 DEF ProviderType, Lives, PeerOf, Lingers, PaymentsOf
  <1>5. \A q \in Requests : Undisturbed(q)'
    <2> SUFFICES ASSUME NEW q \in Requests, q \notin muddled', request[q].pc \in WorkPoints
                 PROVE  Undisturbed(q)'
      BY <1>2 DEF Undisturbed
    <2>1. PeerOf(q) \in Peers /\ Undisturbed(q) /\ q \notin muddled
      BY <1>1, <1>2, PaymentPeer DEF Lives
    <2>2. CASE PeerOf(q) = p /\ request[q].pc = "drain"
      <3>1. outbox[PeerOf(q)] = <<>> /\ outbox'[PeerOf(q)] = <<>>
        BY <1>2, <1>3, <2>2
      <3> QED
        BY <1>2, <1>4, <2>1, <3>1 DEF Undisturbed
    <2>3. CASE PeerOf(q) = p /\ request[q].pc # "drain"
      BY <1>2, <1>3, <1>4, <2>1, <2>3 DEF Undisturbed
    <2>4. CASE PeerOf(q) # p
      BY <1>2, <1>3, <1>4, <2>1, <2>4 DEF Undisturbed
    <2> QED
      BY <2>2, <2>3, <2>4
  <1>6. \A x \in Peers : OutboxIsOwned(x)'
    BY <1>1, <1>3, <1>4 DEF OutboxIsOwned
  <1>7. ASSUME NEW x \in Peers PROVE AcksAreCovered(x)'
    <2>1. Accepted(x)' = Accepted(x) /\ Pending(x)' = Pending(x)
      BY <1>2, <1>4 DEF Accepted, Pending
    <2>2. Paid(x)' = Paid(x)
      BY <1>1, <1>2, <1>4 DEF Paid, ProviderType
    <2>3. Queued(x)' \subseteq Queued(x)
      <3>1. Len(<<>>) = 0 /\ 1..0 = {}
        OBVIOUS
      <3> QED
        BY <1>3, <3>1 DEF Queued
    <2> QED
      BY <2>1, <2>2, <2>3, BooksKept
  <1>8. OwnTokenIsAnswered'
    BY <1>1, <1>2, <1>4 DEF OwnTokenIsAnswered
  <1> QED
    BY <1>4, <1>5, <1>6, <1>7, <1>8 DEF ProviderInv

LEMMA ProviderIdle ==
  ASSUME ProviderInv, UNCHANGED <<request, outbox, credited, muddled>>
  PROVE  ProviderInv'
  <1>1. ProviderType' /\ \A r \in Requests : Lives(r)' /\ Undisturbed(r)'
    <2>1. ProviderType'
      BY DEF ProviderInv, ProviderType
    <2>2. \A r \in Requests : Lives(r)'
      BY DEF ProviderInv, Lives
    <2>3. \A r \in Requests : PeerOf(r)' = PeerOf(r) /\ (Lingers(r)' <=> Lingers(r))
      BY DEF Lingers, PeerOf
    <2>4. ASSUME NEW r \in Requests PROVE Undisturbed(r)'
      BY <2>3 DEF ProviderInv, Undisturbed
    <2> QED
      BY <2>1, <2>2, <2>4
  <1>2. \A p \in Peers : AcksAreCovered(p)' /\ OutboxIsOwned(p)'
    BY DEF ProviderInv, AcksAreCovered, OutboxIsOwned, Accepted, Queued, Pending, Paid,
           PaymentsOf, Lingers, PeerOf
  <1>3. OwnTokenIsAnswered'
    BY DEF ProviderInv, OwnTokenIsAnswered, PaymentsOf, PeerOf
  <1> QED
    BY <1>1, <1>2, <1>3 DEF ProviderInv

LEMMA ProviderStep ==
  ASSUME ProviderInv, [ProviderNext]_providerVars
  PROVE  ProviderInv'
  <1>1. CASE \E r \in Requests : Posted(r) \/ Asked(r)
    BY <1>1, ArrivalStep
  <1>2. CASE \E r \in Requests : Handler(r)
    <2>1. PICK r \in Requests : Handler(r)
      BY <1>2
    <2> QED
      BY <2>1, EarlySteps, CreditStep, AckStep, DrainStep DEF Handler
  <1>3. CASE \E r \in Requests : ClientLeaves(r)
    <2>1. PICK r \in Requests : ClientLeaves(r)
      BY <1>3
    <2>2. /\ DOMAIN request = Requests /\ DOMAIN request[r] = HandleFields
          /\ request[r].pc \in WorkPoints
      BY <2>1 DEF ProviderInv, ProviderType, ClientLeaves, UnderWay, HandlePoints
    <2>3. request' = [request EXCEPT ![r].pc = "gone"] /\ UNCHANGED <<outbox, credited, muddled>>
      BY <2>1 DEF ClientLeaves
    <2>4. /\ Keeps(r) /\ request'[r].pc = "gone" /\ request'[r].ok = request[r].ok
          /\ request'[r].status = request[r].status
      BY <2>2, <2>3 DEF Keeps, Only, HandleFields
    <2> QED
      BY <2>2, <2>3, <2>4, EndStep
  <1>4. CASE \E p \in Peers : Forgets(p)
    BY <1>4, ForgetStep
  <1>5. CASE \/ \E p \in Peers : Exhausts(p) \/ ListsIdle(p) \/ LooksAtPhase(p) \/ Disconnects(p)
             \/ UNCHANGED providerVars
    BY <1>5, ProviderIdle DEF Exhausts, ListsIdle, LooksAtPhase, Disconnects, providerVars
  <1> QED
    BY <1>1, <1>2, <1>3, <1>4, <1>5 DEF ProviderNext, Reaps

LEMMA ProviderInvariance == ProviderSpec => []ProviderInv
  <1>1. ProviderInit => ProviderInv
    <2> SUFFICES ASSUME ProviderInit PROVE ProviderInv
      OBVIOUS
    <2>1. /\ DOMAIN request = Requests /\ outbox \in [Peers -> Seq(BOOLEAN)]
          /\ credited = {} /\ \A p \in Peers : outbox[p] = <<>>
          /\ \A r \in Requests : request[r] = Fresh
      BY DEF ProviderInit
    <2>2. /\ DOMAIN Fresh = HandleFields /\ Fresh.pc = "idle" /\ Fresh.ok = FALSE
          /\ Fresh.token = NoToken /\ Fresh.status = 0
      BY DEF Fresh, HandleFields
    <2>3. {r \in Requests : request[r].pc # "idle"} = {}
      BY <2>1, <2>2
    <2>4. ProviderType
      BY <2>1, <2>2, <2>3, FS_EmptySet DEF ProviderType, HandlePoints
    <2>5. \A r \in Requests : Lives(r) /\ Undisturbed(r)
      <3> SUFFICES ASSUME NEW r \in Requests PROVE Lives(r) /\ Undisturbed(r)
        OBVIOUS
      <3>1. /\ request[r].pc = "idle" /\ request[r].token = NoToken /\ request[r].status # 200
            /\ r \notin credited
        BY <2>1, <2>2
      <3> QED
        BY <3>1 DEF Lives, Undisturbed, WorkPoints
    <2>6. \A p \in Peers : PaymentsOf(p) = {}
      BY <2>1, <2>2 DEF PaymentsOf
    <2>7. ASSUME NEW p \in Peers PROVE AcksAreCovered(p) /\ OutboxIsOwned(p)
      <3>1. Accepted(p) = {} /\ Pending(p) = {} /\ Paid(p) = {}
        BY <2>1, <2>6 DEF Accepted, Pending, Paid
      <3>2. Queued(p) = {}
        <4>1. Len(outbox[p]) = 0
          BY <2>1
        <4> QED
          BY <4>1 DEF Queued
      <3>3. Cardinality({}) = 0
        BY FS_EmptySet
      <3>4. AcksAreCovered(p)
        BY <3>1, <3>2, <3>3 DEF AcksAreCovered
      <3> QED
        BY <2>1, <3>4 DEF OutboxIsOwned
    <2>8. OwnTokenIsAnswered
      BY <2>6 DEF OwnTokenIsAnswered
    <2> QED
      BY <2>4, <2>5, <2>7, <2>8 DEF ProviderInv
  <1> QED
    BY <1>1, ProviderStep, PTL DEF ProviderSpec

(* A peer is never told more often that it has paid than tokens of it were *)
(* credited, for any number of requests, peers and clients that go away:   *)
(* every acceptance, in a handler, in the shared outbox or in an answer,   *)
(* stands for one credited token, and draining the outbox announces at     *)
(* most one of them.                                                       *)
THEOREM AcceptedPaid == ProviderSpec => []AcceptedIsPaid
  <1>1. ProviderInv => AcceptedIsPaid
    <2> SUFFICES ASSUME ProviderInv, NEW p \in Peers
                 PROVE  Cardinality(Accepted(p)) <= Cardinality(Paid(p))
      BY DEF AcceptedIsPaid, Accepted, Paid
    <2>1. /\ Cardinality(Accepted(p)) \in Nat /\ Cardinality(Queued(p)) \in Nat
          /\ Cardinality(Pending(p)) \in Nat /\ Cardinality(Paid(p)) \in Nat
          /\ AcksAreCovered(p)
      BY BooksFinite DEF ProviderInv
    <2> QED
      BY <2>1 DEF AcksAreCovered
  <1> QED
    BY <1>1, ProviderInvariance, PTL

(* A payment that met no other request of its peer, present or abandoned,  *)
(* and whose ack the reaper did not throw away, is accepted if and only if *)
(* its own token was credited, in every order of the reaper's four locks   *)
(* and the handlers' steps: until its answer it has the outbox to itself.  *)
THEOREM OwnTokenAnswered == ProviderSpec => []OwnTokenIsAnswered
  <1>1. ProviderInv => OwnTokenIsAnswered
    BY DEF ProviderInv
  <1> QED
    BY <1>1, ProviderInvariance, PTL

=============================================================================
