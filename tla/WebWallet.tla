------------------------------- MODULE WebWallet -------------------------------
(***************************************************************************)
(* The wallet page of a gateway (gateway/web/wallet.js) and the transaction   *)
(* clients it holds (web/transactions.js), one for the chain and one for each  *)
(* demo network.  One account, loaded or not.                                *)
(*                                                                          *)
(* One activity of the page holds `working`: a review, a submission, a retry,  *)
(* a demo's transaction or a tip (a registration is to the others what a       *)
(* review is that fails).  The poll checks pending transactions beside it.    *)
(* Every await is a step.  Faults are requests that fail, answers that are     *)
(* lost and needless retries; a submission whose request was given up may      *)
(* still reach the node.                                                    *)
(***************************************************************************)
EXTENDS FundedWallets, SequencesExt

CONSTANTS
  MaxChecks,      \* 60: how often a demo's wait looks for the result
  MaxSends,       \* bound: transactions the page submits
  MaxWebFaults    \* bound: failed requests and lost answers

\* Somebody else's transfers are none of the page's.
VARIABLES
  wallet,     \* whether an account is loaded
  task,       \* what `working` stands for
  prepared,   \* the reviewed transaction, or none
  tipDraft,   \* a tip under review: its transaction
  client,     \* network -> [history, pending, busy]; pending: its last entry
  checker,    \* "poll", "confirm" -> where its checkPending is
  late,       \* submissions that may still reach the node
  webFaults

webVars == <<wallet, task, prepared, tipDraft, client, checker, late, webFaults>>

Off == [at |-> "off"]
NoTx == [net |-> "none"]
Working == task # Off
Sends == FoldSet(LAMBDA n, sum : Len(client[n].history) + sum, 0, Network)

WebInit ==
  /\ wallet = FALSE /\ task = Off /\ prepared = NoTx /\ tipDraft = NoTx
  /\ client = [n \in Network |-> [history |-> <<>>, pending |-> FALSE, busy |-> FALSE]]
  /\ checker = [c \in {"poll", "confirm"} |-> Off]
  /\ late = {} /\ webFaults = 0

WebFault == webFaults < MaxWebFaults /\ webFaults' = webFaults + 1
AnyPending == \E n \in Network : client[n].pending

(* Where the entry of the pending transaction is, and a client that knows      *)
(* more about it.                                                           *)
PendingTx(n) == Last(client[n].history).tx
SetStatus(c, i, status) == [c EXCEPT !.history[i].status = status]

-----------------------------------------------------------------------------
LoadAccount ==
  /\ ~Working /\ ~wallet /\ wallet' = TRUE /\ prepared' = NoTx
  /\ UNCHANGED <<task, tipDraft, client, checker, late, webFaults>>

CloseAccount ==
  /\ ~Working /\ wallet /\ wallet' = FALSE /\ tipDraft' = NoTx /\ prepared' = NoTx
  /\ UNCHANGED <<task, client, checker, late, webFaults>>

(* review, sendDemoTransaction, prepareMicroblogTip: nothing else is on its    *)
(* way.  A review and a tip use the chain's client, and send nothing yet.      *)
Free == ~Working /\ ~AnyPending /\ tipDraft = NoTx

StartPrepare(kind, n, to) ==
  /\ Free /\ wallet /\ Sends < MaxSends
  /\ kind # "demo" => n = "l1"
  /\ task' = [at |-> "prepare", kind |-> kind, net |-> n, to |-> to]
  /\ prepared' = NoTx
  /\ UNCHANGED <<wallet, tipDraft, client, checker, late, webFaults>>

(* preparePayload: the account's nonce goes into the transaction. *)
Prepared ==
  LET tx == [net |-> task.net, nonce |-> Nonce(task.net), to |-> task.to]
      covered == Balance(task.net) > 0 IN
  /\ task.at = "prepare"
  /\ prepared' = IF covered /\ task.kind = "review" THEN tx ELSE prepared
  /\ tipDraft' = IF covered /\ task.kind = "tip" THEN tx ELSE tipDraft
  /\ task' = IF covered /\ task.kind = "demo" THEN [at |-> "submit", kind |-> "demo", tx |-> tx]
             ELSE Off
  /\ UNCHANGED <<wallet, client, checker, late, webFaults>>

PrepareFails ==
  /\ task.at = "prepare" /\ WebFault /\ task' = Off
  /\ UNCHANGED <<wallet, prepared, tipDraft, client, checker, late>>

(* clearReview: the form changes, or the user cancels. *)
ClearReview ==
  /\ ~Working /\ prepared # NoTx /\ prepared' = NoTx
  /\ UNCHANGED <<wallet, task, tipDraft, client, checker, late, webFaults>>

CancelTip ==
  /\ ~Working /\ tipDraft # NoTx /\ tipDraft' = NoTx
  /\ UNCHANGED <<wallet, task, prepared, client, checker, late, webFaults>>

(* send, submitMicroblogTip. *)
Send ==
  /\ ~Working /\ tipDraft = NoTx /\ prepared # NoTx
  /\ task' = [at |-> "submit", kind |-> "send", tx |-> prepared]
  /\ UNCHANGED <<wallet, prepared, tipDraft, client, checker, late, webFaults>>

SubmitTip ==
  /\ tipDraft # NoTx /\ wallet /\ ~Working /\ ~AnyPending
  /\ task' = [at |-> "submit", kind |-> "tip", tx |-> tipDraft] /\ tipDraft' = NoTx
  /\ UNCHANGED <<wallet, prepared, client, checker, late, webFaults>>

Forgotten(tx) == Accepts(tx) /\ tx \notin pool[tx.net]

SendRetry(n) ==
  /\ ~Working /\ tipDraft = NoTx /\ client[n].pending /\ ~client[n].busy
  /\ IF Forgotten(PendingTx(n)) THEN UNCHANGED webFaults ELSE WebFault
  /\ task' = [at |-> "post", kind |-> "retry", tx |-> PendingTx(n)]
  /\ client' = [client EXCEPT ![n].busy = TRUE]
  /\ UNCHANGED <<wallet, prepared, tipDraft, checker, late>>

-----------------------------------------------------------------------------
(* TransactionClient.submit: busy, then head and account are read again.       *)
StartSubmit ==
  LET n == task.tx.net IN
  /\ task.at = "submit"
  /\ IF client[n].busy \/ client[n].pending
     THEN task' = Off /\ prepared' = NoTx /\ UNCHANGED client
     ELSE /\ client' = [client EXCEPT ![n].busy = TRUE]
          /\ task' = [task EXCEPT !.at = "check"] /\ UNCHANGED prepared
  /\ UNCHANGED <<wallet, tipDraft, checker, late, webFaults>>

AccountChecked ==
  LET n == task.tx.net IN
  /\ task.at = "check"
  /\ IF Nonce(n) = task.tx.nonce /\ Balance(n) > 0
     THEN /\ client' = [client EXCEPT ![n].pending = TRUE,
                          ![n].history = Append(@, [tx |-> task.tx, status |-> "submitted"])]
          /\ task' = [task EXCEPT !.at = "post"] /\ UNCHANGED prepared
     ELSE /\ client' = [client EXCEPT ![n].busy = FALSE]
          /\ task' = Off /\ prepared' = NoTx
  /\ UNCHANGED <<wallet, tipDraft, checker, late, webFaults>>

(* What an answer of the node makes of the client: `busy` is over.            *)
Answered(status, pending) ==
  LET n == task.tx.net IN
  client' = [client EXCEPT ![n].busy = FALSE, ![n].pending = pending,
                           ![n].history[Len(client[n].history)].status = status]

\* (mutant: a refusal is final for a retry, too)
RefusalOfAny(kind) == TRUE

(* A node that refuses the first submission did not take it before.           *)
RefusalIsFinal(kind) == kind # "retry"

(* broadcast: accepted; refused; no answer, with the submission taken, lost or *)
(* still on its way.  A demo and a tip then wait for the result.              *)
AfterPost(ok) ==
  /\ task' = IF ok /\ task.kind \in {"demo", "tip"} 
             THEN [at |-> "confirm", tx |-> task.tx, left |-> MaxChecks] ELSE Off
  /\ prepared' = NoTx
  /\ UNCHANGED <<wallet, tipDraft, checker>>

PostAccepted ==
  /\ task.at = "post" /\ Submit(task.tx)
  /\ Answered("submitted", TRUE) /\ AfterPost(TRUE)
  /\ UNCHANGED <<receipts, spends, refusals, nodeStops, late, webFaults>>

PostRefused ==
  /\ task.at = "post" /\ ~Accepts(task.tx)
  /\ IF RefusalIsFinal(task.kind) THEN Answered("rejected", FALSE)
     ELSE Answered("unconfirmed", TRUE)
  /\ AfterPost(FALSE)
  /\ UNCHANGED <<walletVars, late, webFaults>>

PostUncertain ==
  /\ task.at = "post" /\ WebFault
  /\ Answered("unconfirmed", TRUE) /\ AfterPost(FALSE)
  /\ late' \in {late, late \cup {task.tx}}
  /\ UNCHANGED walletVars

LateArrives(tx) ==
  /\ tx \in late /\ late' = late \ {tx}
  /\ IF Accepts(tx) THEN Submit(tx) ELSE UNCHANGED pool
  /\ UNCHANGED <<receipts, spends, refusals, nodeStops>>
  /\ UNCHANGED <<wallet, task, prepared, tipDraft, client, checker, webFaults>>

-----------------------------------------------------------------------------
(* checkPending by c, of what is pending on n. *)
CheckKeeps == UNCHANGED <<wallet, prepared, tipDraft, late>>

Checkable(n) == client[n].pending /\ ~client[n].busy

Checking(c, n) == checker' = [checker EXCEPT ![c] =
                    [at |-> "receipt", net |-> n, entry |-> Len(client[n].history)]]

(* After an await: the transaction is still the pending one, nothing is busy.  *)
Fresh(c) == Checkable(checker[c].net) /\ checker[c].entry = Len(client[checker[c].net].history)

(* The node's answer about the receipt: the last block's nonces are visible    *)
(* before its receipts.                                                     *)
FindsReceipt(tx) == Receipt(tx) # {}
MissesReceipt(tx) ==
  \/ Receipt(tx) = {}
  \/ Nonce(tx.net) > 0 /\ Last(receipts[tx.net]).tx = tx

CheckedTx(c) == client[checker[c].net].history[checker[c].entry].tx
StopsChecking(c) == checker' = [checker EXCEPT ![c] = Off]

Concludes(c, status) ==
  /\ client' = [client EXCEPT ![checker[c].net].pending = FALSE,
                  ![checker[c].net].history[checker[c].entry].status = status]
  /\ StopsChecking(c)

ReceiptRead(c) ==
  /\ checker[c].at \in {"receipt", "again"} /\ FindsReceipt(CheckedTx(c))
  /\ IF ~Fresh(c) THEN StopsChecking(c) /\ UNCHANGED client
     ELSE \E r \in Receipt(CheckedTx(c)) :
            Concludes(c, IF r.success THEN "confirmed" ELSE "failed")
  /\ CheckKeeps /\ UNCHANGED <<task, webFaults>>

ReceiptMissed(c) ==
  /\ checker[c].at = "receipt" /\ MissesReceipt(CheckedTx(c))
  /\ IF Fresh(c) THEN checker' = [checker EXCEPT ![c].at = "account"] ELSE StopsChecking(c)
  /\ CheckKeeps /\ UNCHANGED <<client, task, webFaults>>

\* (mutant: a nonce that is next counts as used)
NonceReached(tx) == Nonce(tx.net) >= tx.nonce

NonceUsed(tx) == Nonce(tx.net) > tx.nonce

NonceChecked(c) ==
  /\ checker[c].at = "account"
  /\ IF Fresh(c) /\ NonceUsed(CheckedTx(c)) THEN checker' = [checker EXCEPT ![c].at = "again"]
     ELSE StopsChecking(c)
  /\ CheckKeeps /\ UNCHANGED <<client, task, webFaults>>

ReceiptMissedAgain(c) ==
  /\ checker[c].at = "again" /\ MissesReceipt(CheckedTx(c))
  /\ IF Fresh(c) THEN Concludes(c, "nonce used") ELSE StopsChecking(c) /\ UNCHANGED client
  /\ CheckKeeps /\ UNCHANGED <<task, webFaults>>

(* A request fails: the poll goes on, and a demo's wait ends. *)
CheckFails(c) ==
  /\ checker[c] # Off /\ WebFault /\ StopsChecking(c)
  /\ task' = IF c = "confirm" THEN Off ELSE task
  /\ CheckKeeps /\ UNCHANGED <<client>>

CheckStep(c) == ReceiptRead(c) \/ ReceiptMissed(c) \/ NonceChecked(c) \/ ReceiptMissedAgain(c)

(* poll: once a second one client after the other; that nothing works is seen  *)
(* before the first only.                                                    *)
PollClient(n) ==
  /\ checker["poll"] = Off /\ Checkable(n) /\ Checking("poll", n)
  /\ CheckKeeps /\ UNCHANGED <<client, task, webFaults>>

(* confirmDemoTransaction: its loop. *)
Confirming == task.at = "confirm" /\ checker["confirm"] = Off

ConfirmCheck ==
  /\ Confirming /\ task.left > 0 /\ Checkable(task.tx.net)
  /\ task' = [task EXCEPT !.left = @ - 1] /\ Checking("confirm", task.tx.net)
  /\ CheckKeeps /\ UNCHANGED <<client, webFaults>>

ConfirmEnds ==
  /\ Confirming /\ (task.left = 0 \/ ~client[task.tx.net].pending) /\ task' = Off
  /\ CheckKeeps /\ UNCHANGED <<client, checker, webFaults>>

PollStep ==
  /\ (\E n \in Network : PollClient(n)) \/ CheckStep("poll")
  /\ UNCHANGED walletVars

TaskStep ==
  \/ PostAccepted \/ PostRefused
  \/ (Prepared \/ StartSubmit \/ AccountChecked \/ ConfirmCheck \/ ConfirmEnds
      \/ CheckStep("confirm"))
     /\ UNCHANGED walletVars

UserStep ==
  \/ LoadAccount \/ CloseAccount \/ ClearReview \/ CancelTip \/ Send \/ SubmitTip
  \/ \E kind \in {"review", "demo", "tip"}, n \in Network, to \in Recipient :
       StartPrepare(kind, n, to)
  \/ \E n \in Network : SendRetry(n)

WebNext ==
  \/ PollStep \/ TaskStep \/ PostUncertain \/ \E tx \in late : LateArrives(tx)
  \/ (UserStep \/ PrepareFails \/ \E c \in {"poll", "confirm"} : CheckFails(c))
     /\ UNCHANGED walletVars

(* Both networks of the page. *)
BlockForPage == WalletNext /\ UNCHANGED webVars

WebSpec == WebInit /\ WalletInit /\ [][WebNext \/ BlockForPage]_<<webVars, walletVars>>

(***************************************************************************)
(* What the page says of a transaction is so: confirmed and failed are its    *)
(* receipt, a rejected one is not on the chain and cannot get there unless it  *)
(* was sent anew, and where the nonce was used it cannot be executed any more. *)
(* And whatever requests fail, answers are lost, or submissions come late: of  *)
(* all the page has sent, only what it still shows as pending can be executed. *)
(***************************************************************************)
CanExecute(tx) == tx.nonce >= Nonce(tx.net) /\ tx \in pool[tx.net] \cup late

SaysTruth(n, i) ==
  LET entry == client[n].history[i]
      isPending == client[n].pending /\ i = Len(client[n].history)
      again == \E j \in DOMAIN client[n].history : j > i /\ client[n].history[j].tx = entry.tx
  IN
  /\ entry.status = "confirmed"  => [tx |-> entry.tx, success |-> TRUE] \in Executed(n)
  /\ entry.status = "failed"     => [tx |-> entry.tx, success |-> FALSE] \in Executed(n)
  /\ entry.status = "rejected"   => again \/ Receipt(entry.tx) = {}
  /\ entry.status = "nonce used" => Nonce(n) > entry.tx.nonce
  /\ CanExecute(entry.tx) => isPending \/ again

PageSaysTruth ==
  /\ \A n \in Network, i \in 1 .. MaxSends :
       i \in DOMAIN client[n].history => SaysTruth(n, i)
  /\ Cardinality({n \in Network : client[n].pending}) <= 1

(* A transaction is pending, or the page is busy. *)
WebWaits == AnyPending \/ Working
=============================================================================
