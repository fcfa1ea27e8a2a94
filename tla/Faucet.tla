-------------------------------- MODULE Faucet --------------------------------
(***************************************************************************)
(* The public faucet of one network (gateway/src/faucet.ts): one claim at a  *)
(* time, each with up to three awaits on the node, a transfer that stays     *)
(* pending until its nonce is passed, and limits in memory.  Time only       *)
(* matters as "the cool-down is over" and "an hour has passed", which may    *)
(* happen at any moment.                                                    *)
(***************************************************************************)
EXTENDS FundedWallets

CONSTANTS
  Ip,            \* sources of requests
  HourlyLimit,   \* 100 in the code
  MaxClaims,     \* claims that get past the limits
  MaxFaucetStops \* restarts of the gateway

NoTransfer == [net |-> "none"]

VARIABLES
  faucetNet,   \* the network this faucet serves
  claim,       \* the claim `busy` stands for: [at, to, ip, nonce]
  pendingTx,   \* `pending`
  cooling,     \* `addresses` and `ips` whose cool-down is not over
  hourly,      \* `claims.length`
  answered,    \* transfers a visitor was told are submitted
  forgotten,   \* the ones among them a restart took from memory
  claims, faucetStops

faucetVars == <<faucetNet, claim, pendingTx, cooling, hourly, answered, forgotten,
                claims, faucetStops>>

NotBusy == [at |-> "idle"]
At(step) == claim.at = step

FaucetInit ==
  /\ faucetNet \in Network
  /\ claim = NotBusy /\ pendingTx = NoTransfer
  /\ cooling = {} /\ hourly = 0
  /\ answered = {} /\ forgotten = {}
  /\ claims = 0 /\ faucetStops = 0

(* A claim within the limits takes the faucet and asks for its account. *)
StartClaim(to, ip) ==
  /\ claims < MaxClaims
  /\ {to, ip} \cap cooling = {}
  /\ hourly < HourlyLimit
  /\ At("idle")
  /\ claim' = [at |-> "account", to |-> to, ip |-> ip]
  /\ claims' = claims + 1
  /\ UNCHANGED <<faucetNet, pendingTx, cooling, hourly, answered, forgotten, faucetStops>>

\* (mutant: a transfer whose nonce is the next one counts as paid)
IsUnpaidStrictly(tx) == tx # NoTransfer /\ Nonce(faucetNet) < tx.nonce

(* While the pending transfer's nonce is not passed it is sent again,        *)
(* identical; otherwise the new claim may be signed.                         *)
IsUnpaid(tx) == tx # NoTransfer /\ Nonce(faucetNet) <= tx.nonce

ClaimAccountRead ==
  /\ At("account")
  /\ IF IsUnpaid(pendingTx)
     THEN claim' = [claim EXCEPT !.at = "resend"] /\ UNCHANGED pendingTx
     ELSE /\ pendingTx' = NoTransfer
          /\ claim' = IF Balance(faucetNet) = 0 THEN NotBusy
                      ELSE [at |-> "head", to |-> claim.to, ip |-> claim.ip,
                            nonce |-> Nonce(faucetNet)]
  /\ UNCHANGED <<faucetNet, cooling, hourly, answered, forgotten, claims, faucetStops>>

(* The head gives the chain id: the transfer is signed, remembered and       *)
(* counted against the limits before it is sent.                             *)
ClaimSigned ==
  /\ At("head")
  /\ pendingTx' = [net |-> faucetNet, nonce |-> claim.nonce, to |-> claim.to]
  /\ cooling' = cooling \cup {claim.to, claim.ip}
  /\ hourly' = hourly + 1
  /\ claim' = [claim EXCEPT !.at = "submit"]
  /\ UNCHANGED <<faucetNet, answered, forgotten, claims, faucetStops>>

(* The submission reaches the mempool; its answer may still be lost.  A      *)
(* resent transfer is the former visitor's: this one is told to wait.        *)
ClaimSubmitted(answerArrives) ==
  /\ At("submit") \/ At("resend")
  /\ Submit(pendingTx)
  /\ answered' = IF At("submit") /\ answerArrives THEN answered \cup {pendingTx}
                 ELSE answered
  /\ claim' = NotBusy
  /\ UNCHANGED <<receipts, spends, refusals, nodeStops>>
  /\ UNCHANGED <<faucetNet, pendingTx, cooling, hourly, forgotten, claims, faucetStops>>

(* A call to the node fails or is refused: `finally` frees the faucet. *)
ClaimFails ==
  /\ ~At("idle")
  /\ claim' = NotBusy
  /\ UNCHANGED <<faucetNet, pendingTx, cooling, hourly, answered, forgotten, claims,
                 faucetStops>>

CooldownOver(k) ==
  /\ k \in cooling
  /\ cooling' = cooling \ {k}
  /\ UNCHANGED <<faucetNet, claim, pendingTx, hourly, answered, forgotten, claims,
                 faucetStops>>

HourOver ==
  /\ hourly > 0
  /\ hourly' = hourly - 1
  /\ UNCHANGED <<faucetNet, claim, pendingTx, cooling, answered, forgotten, claims,
                 faucetStops>>

FaucetRestarts ==
  /\ faucetStops < MaxFaucetStops
  /\ faucetStops' = faucetStops + 1
  /\ claim' = NotBusy /\ pendingTx' = NoTransfer /\ cooling' = {} /\ hourly' = 0
  /\ forgotten' = forgotten \cup ({pendingTx} \cap answered)
  /\ UNCHANGED <<faucetNet, answered, claims>>

FaucetNext ==
  \/ \E to \in Recipient, ip \in Ip : StartClaim(to, ip) /\ UNCHANGED walletVars
  \/ ClaimAccountRead /\ UNCHANGED walletVars
  \/ ClaimSigned /\ UNCHANGED walletVars
  \/ \E answerArrives \in BOOLEAN : ClaimSubmitted(answerArrives)
  \/ ClaimFails /\ UNCHANGED walletVars
  \/ \E k \in cooling : CooldownOver(k) /\ UNCHANGED walletVars
  \/ HourOver /\ UNCHANGED walletVars
  \/ FaucetRestarts /\ UNCHANGED walletVars

(***************************************************************************)
(* The transfer of a visitor who was told "submitted" is executed, or the    *)
(* faucet still holds it and will send it again: whatever answers are lost   *)
(* and nodes stop, unless the gateway itself restarted (whose limits and     *)
(* pending transfer are in memory, faucet.ts:36-41) or somebody else used    *)
(* the key.  Executed is not always paid: a block may find that the transfer *)
(* fails, as its receipt, under the hash the visitor was given, then says.   *)
(***************************************************************************)
IsExecuted(tx) == \E r \in Executed(tx.net) : r.tx = tx

FaucetPromises ==
  \A tx \in answered :
    \/ IsExecuted(tx) \/ tx = pendingTx
    \/ tx \in forgotten \/ spends > 0
=============================================================================
