------------------------------- MODULE Wallet -------------------------------
(***************************************************************************)
(* tollgate-net's BootstrapWallet: concurrent verifications of Cashu       *)
(* tokens against a local record of spent proofs and the mint, the file    *)
(* that keeps the record, and restarts of the node.                        *)
(*                                                                         *)
(* A verification has three atomic parts - the look-up under the read      *)
(* lock, the exchange with the mint, the insertion under the write lock    *)
(* with the append to the file - and anything may happen in between.       *)
(* The mint is external.  A token is a set of proofs of one unit each.     *)
(***************************************************************************)
EXTENDS Integers, FiniteSets

CONSTANTS
    Proof,          \* proofs (their Y values)
    Token,          \* tokens, each a set of proofs; tokens may overlap
    Accepted,       \* tokens of mints in accepted_mints
    Task,           \* verifications that may run at once
    Swaps,          \* TRUE: cdk receive() swaps the proofs; FALSE: NUT-07 check
    MaxRestarts,    \* bound: restarts of the node
    MaxCredit       \* bound: credits given per proof

ASSUME TokenAssumption ==
    /\ Token \subseteq SUBSET Proof
    /\ Accepted \subseteq Token
    /\ Swaps \in BOOLEAN
    /\ MaxRestarts \in Nat /\ MaxCredit \in Nat

Idle == {}

VARIABLES
    task,           \* what each verification holds: a token, or Idle
    stage,          \* "looked" (locally unspent) or "vouched" (by the mint)
    spent,          \* BootstrapWallet.spent_yvalues
    file,           \* the lines of spent_file
    mint,           \* proofs the mint holds as spent
    restarts,       \* restarts so far
    credited        \* history: how often each proof was credited

walletVars == <<task, stage, spent, file, mint, restarts, credited>>

WalletTypeOK ==
    /\ task \in [Task -> Token \cup {Idle}]
    /\ stage \in [Task -> {"looked", "vouched"}]
    /\ spent \subseteq Proof /\ file \subseteq Proof /\ mint \subseteq Proof
    /\ restarts \in Nat
    /\ credited \in [Proof -> Nat]

WalletInit ==
    /\ task = [t \in Task |-> Idle]
    /\ stage = [t \in Task |-> "looked"]
    /\ spent = {} /\ file = {} /\ mint = {}
    /\ restarts = 0
    /\ credited = [p \in Proof |-> 0]

-----------------------------------------------------------------------------
(* Mutant: the proofs are on record before the mint has answered, which    *)
(* closes the gap between look-up and insertion.                           *)
LookUpAndInsert(t, token) ==
    /\ task[t] = Idle
    /\ token # {} /\ token \cap spent = {}
    /\ task' = [task EXCEPT ![t] = token]
    /\ stage' = [stage EXCEPT ![t] = "looked"]
    /\ spent' = spent \cup token
    /\ UNCHANGED <<file, mint, restarts, credited>>

(* verify(): a token with no proofs, or with a proof on record, is refused *)
(* at once and leaves nothing behind.                                      *)
LookUp(t, token) ==
    /\ task[t] = Idle
    /\ token # {} /\ token \cap spent = {}
    /\ task' = [task EXCEPT ![t] = token]
    /\ stage' = [stage EXCEPT ![t] = "looked"]
    /\ UNCHANGED <<spent, file, mint, restarts, credited>>

(* Mutant: the mint's refusal is not heeded.                               *)
MintVouchesForAll(t) ==
    /\ task[t] # Idle /\ stage[t] = "looked" /\ task[t] \in Accepted
    /\ mint' = mint \cup task[t]
    /\ stage' = [stage EXCEPT ![t] = "vouched"]
    /\ UNCHANGED <<task, spent, file, restarts, credited>>

(* The mint swaps the proofs for its own (receive), or is only asked       *)
(* whether they are unspent (check_proofs_unspent).                        *)
MintVouches(t) ==
    /\ task[t] # Idle /\ stage[t] = "looked"
    /\ task[t] \in Accepted
    /\ task[t] \cap mint = {}
    /\ mint' = IF Swaps THEN mint \cup task[t] ELSE mint
    /\ stage' = [stage EXCEPT ![t] = "vouched"]
    /\ UNCHANGED <<task, spent, file, restarts, credited>>

(* Spent at the mint, of a mint we do not accept, or no answer.            *)
MintRefuses(t) ==
    /\ task[t] # Idle /\ stage[t] = "looked"
    /\ task' = [task EXCEPT ![t] = Idle]
    /\ UNCHANGED <<stage, spent, file, mint, restarts, credited>>

(* The insertion under the write lock, and persist_yvalues: it appends     *)
(* line by line and no error is heeded, nor is there always a file.        *)
Insert(t) ==
    /\ spent' = spent \cup task[t]
    /\ \E written \in SUBSET task[t] : file' = file \cup written

(* Insert, and the credit the caller gives on Ok.                          *)
Record(t) ==
    /\ task[t] # Idle /\ stage[t] = "vouched"
    /\ \A p \in task[t] : credited[p] < MaxCredit
    /\ Insert(t)
    /\ credited' = [p \in Proof |-> credited[p] + (IF p \in task[t] THEN 1 ELSE 0)]
    /\ task' = [task EXCEPT ![t] = Idle]
    /\ UNCHANGED <<stage, mint, restarts>>

-----------------------------------------------------------------------------
(* The node goes down, possibly in the middle of an append, and comes back *)
(* with load_spent_file.                                                   *)
Restart ==
    /\ restarts < MaxRestarts
    /\ restarts' = restarts + 1
    /\ \E written \in SUBSET (UNION {task[t] : t \in {u \in Task : stage[u] = "vouched"}}) :
          file' = file \cup written
    /\ spent' = file'
    /\ task' = [t \in Task |-> Idle]
    /\ stage' = [t \in Task |-> "looked"]
    /\ UNCHANGED <<mint, credited>>

(* The payer spends proofs elsewhere.                                      *)
SpentElsewhere(token) ==
    /\ token \cap mint = {}
    /\ mint' = mint \cup token
    /\ UNCHANGED <<task, stage, spent, file, restarts, credited>>

WalletNext ==
    \/ \E t \in Task :
         \/ \E token \in Token : LookUp(t, token)
         \/ MintVouches(t) \/ MintRefuses(t) \/ Record(t)
    \/ Restart
    \/ \E token \in Token : SpentElsewhere(token)

WalletSpec == WalletInit /\ [][WalletNext]_walletVars

-----------------------------------------------------------------------------
(* No proof is credited twice: not by concurrent or overlapping tokens,    *)
(* and not after a restart.  wallet.rs: verify returns "an error if        *)
(* invalid, already spent", a second use is a "double-spend detected".     *)
NoDoubleCredit == \A p \in Proof : credited[p] <= 1

(* Nobody is refused a proof that is still good: what is on record as      *)
(* spent, in memory and in the file, is spent at the mint.  A token whose  *)
(* verification failed, or was cut off by a restart before the swap, can   *)
(* be presented again.                                                     *)
RefusedIsSpent == Swaps => spent \subseteq mint /\ file \subseteq mint

=============================================================================
