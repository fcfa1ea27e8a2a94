------------------------------ MODULE AppSessions ------------------------------
(***************************************************************************)
(* Applications that spend from one wallet: the sessions a wallet daemon keeps *)
(* for them (pear-integration/src/session.ts, daemon.ts), the remote signer    *)
(* they hold (remote-signer.ts) and the SDK's submit (sdk/src/sdk.ts) over the  *)
(* node's RPC.  An application is the name a call gives.  The `to` of a         *)
(* transaction stands for its payload and its fee limit: what they move is its *)
(* cost.  A fee limit is a number of the application's choice (daemon.ts:80),   *)
(* below zero too; what a transaction has no room for (wire.ts:63-66) makes    *)
(* the signature fail.                                                      *)
(***************************************************************************)
EXTENDS FundedWallets, Integers, Functions

CONSTANTS
  App, Granted,     \* applications, and those the daemon has a grant for
  Auth,             \* those that may have messages signed
  Payload,          \* payloads, each with a fee limit
  SpendLimit,       \* of every grant
  Cost(_),          \* payload -> amount or value, and maximum fee
  Signable(_),      \* payload -> whether a transaction has room for it
  Chains,           \* networks that applications use the SDK on
  Chosen,           \* transactions that they make up without it
  RequestSets,      \* the submissions of one behaviour: <<app, k>>
  MaxDaemonStops

ASSUME SessionAssumption ==
  /\ Auth \subseteq Granted /\ Granted \subseteq App /\ SpendLimit \in Nat
  /\ Chains \subseteq Network /\ Chosen \subseteq [net : Network, nonce : Nat, to : Payload]
  /\ \A payload \in Payload :
       Cost(payload) \in Int /\ Signable(payload) \in BOOLEAN
       /\ (Signable(payload) => Cost(payload) >= 0)

VARIABLES
  sessions,     \* app -> what remains of its allowance, for apps with a session
  asking,      \* request -> where its submit is
  signatures,   \* what the wallet signed: [app, tx, how]
  raised,       \* app -> what calls of a cost below zero added to its allowance
  daemonStops

sessionVars == <<sessions, asking, signatures, raised, daemonStops>>

NotAsked == [at |-> "fresh"]
Ended == [at |-> "ended"]

Request == DOMAIN asking

SessionInit ==
  /\ sessions = <<>> /\ \E requests \in RequestSets : asking = [r \in requests |-> NotAsked]
  /\ signatures = {} /\ raised = [app \in Granted |-> 0] /\ daemonStops = 0

Becomes(r, next) == asking' = [asking EXCEPT ![r] = next]

(* submit: the account's nonce.  Or the application asks the daemon itself,    *)
(* for a nonce and a chain of its choice.                                    *)
NonceAsked(r, n, payload) ==
  /\ asking[r] = NotAsked
  /\ Becomes(r, [at |-> "sign", tx |-> [net |-> n, nonce |-> Nonce(n), to |-> payload]])
  /\ UNCHANGED <<sessions, signatures, raised, daemonStops>>

ChoosesItself(r, tx) ==
  /\ asking[r] = NotAsked /\ Becomes(r, [at |-> "sign", tx |-> tx])
  /\ UNCHANGED <<sessions, signatures, raised, daemonStops>>

\* (mutant: every call has a session of its own)
RemainingOfNew(app) == SpendLimit

(* WalletDaemon.session: the first call of an app establishes it. *)
Remaining(app) == IF app \in DOMAIN sessions THEN sessions[app] ELSE SpendLimit

WithSession(app, remaining) ==
  sessions' = [a \in DOMAIN sessions \cup {app} |-> IF a = app THEN remaining ELSE sessions[a]]

Signs(app, tx, how) == signatures' = signatures \cup {[app |-> app, tx |-> tx, how |-> how]}

(* wallet.signTransaction, which throws on what it cannot encode. *)
SignTransaction(r, how) ==
  IF Signable(asking[r].tx.to)
  THEN Signs(r[1], asking[r].tx, how) /\ Becomes(r, [asking[r] EXCEPT !.at = "submit"])
  ELSE Becomes(r, Ended) /\ UNCHANGED signatures

(* WalletSession.signTransaction: within the allowance, from which the cost is *)
(* taken first, whether the wallet can sign or not ...                       *)
SignWithin(r) ==
  LET app == r[1]  cost == Cost(asking[r].tx.to) IN
  /\ asking[r].at = "sign" /\ app \in Granted /\ cost <= Remaining(app)
  /\ WithSession(app, Remaining(app) - cost)
  /\ raised' = IF cost < 0 THEN [raised EXCEPT ![app] = @ - cost] ELSE raised
  /\ SignTransaction(r, "allowance")
  /\ UNCHANGED daemonStops

(* ... or the user is asked, and the allowance is left as it will be.          *)
AskUser(r) ==
  LET app == r[1] IN
  /\ asking[r].at = "sign" /\ app \in Granted /\ Cost(asking[r].tx.to) > Remaining(app)
  /\ WithSession(app, Remaining(app)) /\ Becomes(r, [asking[r] EXCEPT !.at = "asked"])
  /\ UNCHANGED <<signatures, raised, daemonStops>>

UserAnswers(r, approved) ==
  /\ asking[r].at = "asked"
  /\ IF approved THEN SignTransaction(r, "approval")
     ELSE Becomes(r, Ended) /\ UNCHANGED signatures
  /\ UNCHANGED <<sessions, raised, daemonStops>>

(* sign_message, with the bytes of a transaction for a message: an application *)
(* that may prove who its user is gets them signed, and submits them.         *)
SignMessage(r, tx) ==
  LET app == r[1] IN
  /\ asking[r] = NotAsked /\ app \in Granted /\ Signable(tx.to)
  /\ WithSession(app, Remaining(app))
  /\ IF app \in Auth
     THEN Signs(app, tx, "message") /\ Becomes(r, [at |-> "submit", tx |-> tx])
     ELSE Becomes(r, Ended) /\ UNCHANGED signatures
  /\ UNCHANGED <<raised, daemonStops>>

(* No grant; or a call to the daemon or the node fails, or is refused.         *)
RequestFails(r) ==
  /\ asking[r].at \in {"sign", "asked", "submit", "wait"} /\ Becomes(r, Ended)
  /\ UNCHANGED <<sessions, signatures, raised, daemonStops>>

(* submitTx, then waitForTx: the receipt or thirty seconds. *)
SubmitSigned(r) ==
  /\ asking[r].at = "submit" /\ Submit(asking[r].tx)
  /\ Becomes(r, [asking[r] EXCEPT !.at = "wait"])
  /\ UNCHANGED <<receipts, spends, refusals, nodeStops>>
  /\ UNCHANGED <<sessions, signatures, raised, daemonStops>>

ReceiptCame(r) ==
  /\ asking[r].at = "wait" /\ Receipt(asking[r].tx) # {} /\ Becomes(r, Ended)
  /\ UNCHANGED <<sessions, signatures, raised, daemonStops>>

(* Sessions are in memory: a daemon that starts grants anew, and what waited   *)
(* for the user is gone.                                                    *)
DaemonStops ==
  /\ daemonStops < MaxDaemonStops /\ daemonStops' = daemonStops + 1
  /\ sessions' = <<>>
  /\ asking' = [r \in Request |-> IF asking[r].at \in {"sign", "asked"} THEN Ended
                                   ELSE asking[r]]
  /\ UNCHANGED <<signatures, raised>>

SessionNext ==
  \/ \E r \in Request : SubmitSigned(r)
  \/ UNCHANGED walletVars /\
     (DaemonStops \/
      \E r \in Request :
       \/ \E n \in Chains, payload \in Payload : NonceAsked(r, n, payload)
       \/ \E tx \in Chosen : ChoosesItself(r, tx) \/ SignMessage(r, tx)
       \/ SignWithin(r) \/ AskUser(r) \/ (\E approved \in BOOLEAN : UserAnswers(r, approved))
       \/ RequestFails(r) \/ ReceiptCame(r))

(* The wallet's account on each chain is nobody else's. *)
BlockForSessions ==
  /\ UNCHANGED sessionVars
  /\ \E n \in Network : NodeStops(n) \/ \E success \in BOOLEAN : ExecuteTransfer(n, success)

SessionSpec ==
  SessionInit /\ WalletInit /\ [][SessionNext \/ BlockForSessions]_<<sessionVars, walletVars>>

(***************************************************************************)
(* What an application spends of its allowance, on all chains together, stays  *)
(* within its grant, however its requests overlap, wait for the user, fail     *)
(* after the cost was taken, or share a nonce with another application's.      *)
(* Whatever is executed was signed for an application with a grant, and as a   *)
(* message only for one that may have messages signed.  The exceptions         *)
(* (README, section 6): a daemon that restarts grants once more; a call with  *)
(* a fee limit below zero adds to the allowance (`raised`); and what is signed *)
(* as a message counts against nothing.                                      *)
(***************************************************************************)
ExecutedAnywhere == UNION {Executed(n) : n \in Network}

Unasked(app) ==
  {s.tx : s \in {t \in signatures : t.app = app /\ t.how = "allowance"}}
    \cap {receipt.tx : receipt \in ExecutedAnywhere}

SpentWithinGrant ==
  /\ \A app \in Granted :
       SumFunction([tx \in Unasked(app) |-> Cost(tx.to)])
         <= SpendLimit * (1 + daemonStops) + raised[app]
  /\ \A receipt \in ExecutedAnywhere :
       receipt.tx.to \in Payload =>
         \E s \in signatures :
           s.tx = receipt.tx /\ s.app \in Granted /\ (s.how = "message" => s.app \in Auth)
=============================================================================
