------------------------------ MODULE CdkWallet ------------------------------
(***************************************************************************)
(* v1_compat/wallet.rs and recovery.rs: the wallet of the v1 client and of *)
(* the Lightning handlers.  The cdk library and the mint are external: a   *)
(* call of theirs may fail, and may have taken effect although it failed.  *)
(*                                                                         *)
(* recover_failed_token, mint_test_tokens and try_mints have no caller in  *)
(* the repository; here the operator calls the one for tokens whose        *)
(* payment failed, fills the wallet by the next, one call at a time, and   *)
(* sets it up with the last.                                               *)
(***************************************************************************)
EXTENDS Integers, Sequences, FiniteSets

CONSTANTS
    MintUrls,       \* the mints try_mints goes through, in order
    Tokens,         \* bound: tokens made
    TestAmount,     \* amount of mint_test_tokens
    MaxQuotePolls,  \* polls of a quote (60)
    MaxAttempts,    \* attempts to mint (3)
    MaxMintings,    \* bound: calls of mint_test_tokens
    MaxFaults,      \* bound: calls that fail
    MaxRestarts     \* bound: restarts of the node

ASSUME CdkAssumption ==
    /\ MintUrls # <<>>
    /\ {TestAmount, MaxQuotePolls, MaxAttempts, MaxMintings, MaxFaults, MaxRestarts} \subseteq Nat

VARIABLES
    home,       \* the mint of the wallet
    funds,      \* its balance: the localstore is in memory
    pending,    \* what its incomplete sagas may still bring
    token,      \* tokens made: [mint, state]; one sat each
    recovery,   \* [pc, report] of recover_failed_token, by token
    file,       \* the recovery file: the entries that are whole
    quote,      \* the mint's side of the last quote
    minting,    \* mint_test_tokens: [pc, n, before]
    faults      \* [calls, mintings, restarts]: what may still happen

cdkVars == <<home, funds, pending, token, recovery, file, quote, minting, faults>>

NoMint == ""
Idle == [pc |-> "idle", n |-> 0, before |-> 0]

(* try_mints: the first mint whose wallet can be set up.                   *)
TryMints(broken) ==
    LET fit == {i \in DOMAIN MintUrls : MintUrls[i] \notin broken}
    IN  IF fit = {} THEN NoMint ELSE MintUrls[CHOOSE i \in fit : \A j \in fit : i <= j]

CdkInit ==
    /\ \E broken \in SUBSET {MintUrls[i] : i \in DOMAIN MintUrls} : home = TryMints(broken)
    /\ home # NoMint
    /\ funds = 0 /\ pending = 0
    /\ token = [t \in Tokens |-> [mint |-> NoMint, state |-> "none"]]
    /\ recovery = [t \in Tokens |-> [pc |-> "none", report |-> "none"]]
    /\ file = {}
    /\ quote = "none"
    /\ minting = Idle
    /\ faults = [calls |-> MaxFaults, mintings |-> MaxMintings, restarts |-> MaxRestarts]

Fault == faults.calls > 0 /\ faults' = [faults EXCEPT !.calls = @ - 1]

-----------------------------------------------------------------------------
(* mint_test_tokens.  before remembers what the wallet had, or could still *)
(* recover, when it was called.                                            *)

RequestsQuote ==
    /\ minting.pc \in {"idle", "ok", "err"} /\ faults.mintings > 0
    /\ faults' = [faults EXCEPT !.mintings = @ - 1]
    /\ minting' = [pc |-> "poll", n |-> 0, before |-> funds + pending]
    /\ quote' = "Unpaid"
    /\ UNCHANGED <<home, funds, pending, token, recovery, file>>

Returns(pc) == minting' = [minting EXCEPT !.pc = pc]

QuoteFails ==
    /\ minting.pc \in {"idle", "ok", "err"} /\ Fault
    /\ Returns("err")
    /\ UNCHANGED <<home, funds, pending, token, recovery, file, quote>>

InvoiceIsPaid ==
    /\ quote = "Unpaid"
    /\ quote' = "Paid"
    /\ UNCHANGED <<home, funds, pending, token, recovery, file, minting, faults>>

(* check_mint_quote_status, until the quote is paid or the polls are over. *)
PollsQuote ==
    /\ minting.pc = "poll"
    /\ minting' = IF quote = "Paid" THEN [minting EXCEPT !.pc = "mint", !.n = 1]
                  ELSE IF minting.n + 1 < MaxQuotePolls THEN [minting EXCEPT !.n = @ + 1]
                  ELSE [minting EXCEPT !.pc = "err"]
    /\ UNCHANGED <<home, funds, pending, token, recovery, file, quote, faults>>

PollFails ==
    /\ minting.pc = "poll" /\ Fault
    /\ Returns("err")
    /\ UNCHANGED <<home, funds, pending, token, recovery, file, quote>>

(* An attempt to mint.  The mint signs a quote once.                       *)
Mints ==
    /\ minting.pc = "mint" /\ quote = "Paid"
    /\ quote' = "Issued"
    /\ funds' = funds + TestAmount
    /\ Returns("ok")
    /\ UNCHANGED <<home, pending, token, recovery, file, faults>>

(* The attempt fails, and the mint may have signed all the same: then the  *)
(* wallet is left with an incomplete saga.                                 *)
MintAttemptFails ==
    /\ minting.pc = "mint"
    /\ IF quote = "Paid"
       THEN /\ Fault
            /\ \/ UNCHANGED <<quote, pending>>
               \/ quote' = "Issued" /\ pending' = pending + TestAmount
       ELSE UNCHANGED <<faults, quote, pending>>
    /\ Returns("sagas")
    /\ UNCHANGED <<home, funds, token, recovery, file>>

(* recover_incomplete_sagas: all of them, one or none; its failure is      *)
(* ignored.                                                                *)
RecoversSagas ==
    /\ minting.pc = "sagas"
    /\ \E got \in {0, TestAmount, pending} \cap 0 .. pending :
         /\ IF got = pending THEN UNCHANGED faults ELSE Fault
         /\ funds' = funds + got
         /\ pending' = pending - got
    /\ Returns("balance")
    /\ UNCHANGED <<home, token, recovery, file, quote>>

(* Mutant: the recovery is taken for the minting.                          *)
RecoveryIsSuccess ==
    /\ minting.pc = "balance"
    /\ Returns("ok")
    /\ UNCHANGED <<home, funds, pending, token, recovery, file, quote, faults>>

(* total_balance, which counts what was in the wallet before, too.         *)
ReadsBalance ==
    /\ minting.pc = "balance"
    /\ minting' = IF funds >= TestAmount THEN [minting EXCEPT !.pc = "ok"]
                  ELSE IF minting.n < MaxAttempts THEN [minting EXCEPT !.pc = "mint", !.n = @ + 1]
                  ELSE [minting EXCEPT !.pc = "err"]
    /\ UNCHANGED <<home, funds, pending, token, recovery, file, quote, faults>>

BalanceFails ==
    /\ minting.pc = "balance" /\ Fault
    /\ Returns("err")
    /\ UNCHANGED <<home, funds, pending, token, recovery, file, quote>>

Minting ==
    RequestsQuote \/ QuoteFails \/ PollsQuote \/ PollFails \/ Mints \/ MintAttemptFails
      \/ RecoversSagas \/ ReadsBalance \/ BalanceFails

-----------------------------------------------------------------------------
(* create_token, create_token_with_overpayment: the token is out of the    *)
(* wallet, whatever becomes of the payment.                                *)
CreatesToken(t) ==
    /\ token[t].state = "none" /\ funds > 0
    /\ funds' = funds - 1
    /\ token' = [token EXCEPT ![t] = [mint |-> home, state |-> "unspent"]]
    /\ UNCHANGED <<home, pending, recovery, file, quote, minting, faults>>

(* The upstream gateway redeems the token, at any time.                    *)
Redeems(t) ==
    /\ token[t].state = "unspent"
    /\ token' = [token EXCEPT ![t].state = "spent"]
    /\ UNCHANGED <<home, funds, pending, recovery, file, quote, minting, faults>>

(* melt_to_invoice, melt_to_lightning_address.                             *)
Melts ==
    /\ funds > 0
    /\ funds' = funds - 1
    /\ UNCHANGED <<home, pending, token, recovery, file, quote, minting, faults>>

-----------------------------------------------------------------------------
(* recover_failed_token.                                                   *)

(* A payment failed, or seemed to.                                         *)
PaymentSeemsLost(t) ==
    /\ token[t].state # "none" /\ recovery[t].pc = "none"
    /\ recovery' = [recovery EXCEPT ![t].pc = "check"]
    /\ UNCHANGED <<home, funds, pending, token, file, quote, minting, faults>>

(* verify_token and check_proofs_unspent on behalf of receive_token: the   *)
(* token is looked at, and not put back into the wallet.                   *)
ReceivesBack(t) ==
    /\ recovery[t].pc = "check"
    /\ token[t].mint = home /\ token[t].state = "unspent"
    /\ recovery' = [recovery EXCEPT ![t] = [pc |-> "done", report |-> "AutoRecovered"]]
    /\ UNCHANGED <<home, funds, pending, token, file, quote, minting, faults>>

(* Spent, of another mint, or no answer.                                   *)
ReceiveFails(t) ==
    /\ recovery[t].pc = "check"
    /\ IF token[t].mint = home /\ token[t].state = "unspent" THEN Fault ELSE UNCHANGED faults
    /\ recovery' = [recovery EXCEPT ![t].pc = "write"]
    /\ UNCHANGED <<home, funds, pending, token, file, quote, minting>>

(* write_recovery_entry: the line is appended as a whole.                  *)
AppendsEntry(t) ==
    /\ recovery[t].pc = "write"
    /\ file' = file \cup {t}
    /\ recovery' = [recovery EXCEPT ![t].pc = "flush"]
    /\ UNCHANGED <<home, funds, pending, token, quote, minting, faults>>

ReportsSaved(t) ==
    /\ recovery[t].pc = "flush"
    /\ recovery' = [recovery EXCEPT ![t] = [pc |-> "done", report |-> "SavedToFile"]]
    /\ UNCHANGED <<home, funds, pending, token, file, quote, minting, faults>>

(* The file cannot be opened, or a part of the line is written, or the     *)
(* flush fails: nothing is taken back.                                     *)
WriteFails(t) ==
    /\ recovery[t].pc \in {"write", "flush"} /\ Fault
    /\ recovery' = [recovery EXCEPT ![t] = [pc |-> "done", report |-> "Failed"]]
    /\ UNCHANGED <<home, funds, pending, token, file, quote, minting>>

Recovery(t) == ReceivesBack(t) \/ ReceiveFails(t) \/ AppendsEntry(t) \/ ReportsSaved(t) \/ WriteFails(t)

-----------------------------------------------------------------------------
(* The node restarts: the store of the wallet is empty again, calls under  *)
(* way are gone, the file stays.                                           *)
NodeRestarts ==
    /\ faults.restarts > 0
    /\ faults' = [faults EXCEPT !.restarts = @ - 1]
    /\ \E broken \in SUBSET {MintUrls[i] : i \in DOMAIN MintUrls} : home' = TryMints(broken)
    /\ home' # NoMint
    /\ funds' = 0 /\ pending' = 0
    /\ minting' = Idle
    /\ quote' = "none"
    /\ recovery' = [t \in Tokens |-> IF recovery[t].pc \in {"check", "write", "flush"}
                                     THEN [recovery[t] EXCEPT !.pc = "none"] ELSE recovery[t]]
    /\ UNCHANGED <<token, file>>

CdkNext ==
    \/ Minting \/ InvoiceIsPaid \/ Melts \/ NodeRestarts
    \/ \E t \in Tokens : CreatesToken(t) \/ Redeems(t) \/ PaymentSeemsLost(t) \/ Recovery(t)

CdkSpec == CdkInit /\ [][CdkNext]_cdkVars

-----------------------------------------------------------------------------
(* "Returns an error if the mint quote is not paid or minting fails after  *)
(* retries" (mint_test_tokens), as far as the code has it: when what the   *)
(* wallet had, or could recover from earlier calls, does not cover the     *)
(* amount, Ok means that the mint issued this quote, through every order   *)
(* of failed attempts, recovered sagas and payments out of the wallet.     *)
OkIsMinted == minting.pc = "ok" /\ minting.before < TestAmount => quote = "Issued"

=============================================================================
