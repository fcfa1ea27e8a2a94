---------------------------- MODULE FundedWallets ----------------------------
(***************************************************************************)
(* The nodes behind a gateway, as its services see them over RPC: one       *)
(* funding wallet on each network, the transactions of that wallet the      *)
(* chain has executed, and those its mempool holds.                         *)
(*                                                                          *)
(* A signed transfer is what it says: network, nonce and recipient.  The     *)
(* amount is fixed per network, so money is counted in grants.  The receipts *)
(* are in nonce order, so their number is the nonce of the account.          *)
(***************************************************************************)
EXTENDS Naturals, Sequences, FiniteSets

CONSTANTS
  Network,       \* "l1" and the app networks with a faucet key
  Recipient,     \* addresses of visitors
  Funds,         \* grants each wallet can pay
  MaxSpends,     \* transfers by another user of a wallet's key
  MaxRefusals,   \* transfers that are executed and fail
  MaxNodeStops   \* restarts of a node

Outside == "outside"

ASSUME NetworkAssumption == "l1" \in Network
ASSUME RecipientAssumption == Outside \notin Recipient

Transfer == [net : Network, nonce : Nat, to : Recipient \cup {Outside}]

VARIABLES
  receipts,  \* network -> executed transfers in order: [tx, success]
  pool,      \* network -> pending transfers
  spends, refusals, nodeStops

walletVars == <<receipts, pool, spends, refusals, nodeStops>>

Nonce(n)   == Len(receipts[n])
Executed(n) == {receipts[n][i] : i \in 1 .. Nonce(n)}
Succeeded(n) == {r \in Executed(n) : r.success}
Balance(n) == Funds - Cardinality(Succeeded(n))

(* get_tx: the receipt of a transaction, if it was executed. *)
Receipt(tx) == {r \in Executed(tx.net) : r.tx = tx}

(* submit_tx: what Mempool.addEncoded accepts.  Resubmitting is idempotent;  *)
(* a nonce that is passed, or pending for another transfer, is refused.      *)
Accepts(tx) ==
  /\ tx.nonce >= Nonce(tx.net)
  /\ \A p \in pool[tx.net] : p.nonce = tx.nonce => p = tx

(* A submission has three ends: accepted and answered, accepted but the      *)
(* answer is lost, and not accepted (refused, or it never arrived).          *)
Submit(tx) == Accepts(tx) /\ pool' = [pool EXCEPT ![tx.net] = @ \cup {tx}]

WalletInit ==
  /\ receipts = [n \in Network |-> <<>>]
  /\ pool = [n \in Network |-> {}]
  /\ spends = 0 /\ refusals = 0 /\ nodeStops = 0

(* A block executes the pending transfer of the next nonce.  It may fail:    *)
(* the recipient's balance would overflow, or the fee exceeds the maximum.   *)
ExecuteTransfer(n, success) ==
  \E tx \in pool[n] :
    /\ tx.nonce = Nonce(n)
    /\ success => Balance(n) > 0
    /\ ~success => refusals < MaxRefusals
    /\ refusals' = IF success THEN refusals ELSE refusals + 1
    /\ receipts' = [receipts EXCEPT ![n] = Append(@, [tx |-> tx, success |-> success])]
    /\ pool' = [pool EXCEPT ![n] = {p \in @ : p.nonce > tx.nonce}]
    /\ UNCHANGED <<spends, nodeStops>>

(* Somebody else uses a funding key, which "one service owns". *)
SpendOutside(n) ==
  LET tx == [net |-> n, nonce |-> Nonce(n), to |-> Outside] IN
  /\ spends < MaxSpends
  /\ spends' = spends + 1
  /\ Submit(tx)
  /\ UNCHANGED <<receipts, refusals, nodeStops>>

(* A node keeps its mempool in memory. *)
NodeStops(n) ==
  /\ nodeStops < MaxNodeStops /\ pool[n] # {}
  /\ nodeStops' = nodeStops + 1
  /\ pool' = [pool EXCEPT ![n] = {}]
  /\ UNCHANGED <<receipts, spends, refusals>>

WalletNext ==
  \E n \in Network :
    \/ \E success \in BOOLEAN : ExecuteTransfer(n, success)
    \/ SpendOutside(n)
    \/ NodeStops(n)
=============================================================================
