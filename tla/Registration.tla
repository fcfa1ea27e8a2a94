----------------------------- MODULE Registration -----------------------------
(***************************************************************************)
(* Account registration (gateway/src/accounts.ts): a new account gets one    *)
(* transfer on every network.  The signed transfers are journalled in a file *)
(* before the first is sent, and a registration goes on where it stopped,    *)
(* after lost answers, time-outs and restarts.                              *)
(*                                                                          *)
(* A registration is one call at a time (`busy`).  Each await on a node is a *)
(* step; the journal is written without an await, and may fail.              *)
(***************************************************************************)
EXTENDS FundedWallets, SequencesExt

CONSTANTS
  Networks,         \* the networks in the order they are funded, "l1" first
  Source,           \* sources of requests
  MaxFaults,        \* journal writes and calls to a node that fail
  MaxRestarts

ASSUME NetworksAssumption ==
  /\ Len(Networks) \in Nat \ {0} /\ DOMAIN Networks = 1 .. Len(Networks)
  /\ Networks[1] = "l1" /\ Range(Networks) = Network
  /\ \A i, j \in DOMAIN Networks : Networks[i] = Networks[j] => i = j

VARIABLES
  state,          \* the journal in memory: [pending, ips, records]
  journal,        \* the file
  journalFailed,
  call,           \* the call `busy` stands for
  faults, restarts

registrationVars == <<state, journal, journalFailed, call, faults, restarts>>

Nobody == "nobody"

ASSUME NobodyAssumption == Nobody \notin Recipient

NoRecord == [status |-> "none"]
NoCall == [at |-> "idle"]

EmptyJournal == [pending |-> Nobody, ips |-> {},
                 records |-> [a \in Recipient |-> NoRecord]]

RegistrationInit ==
  /\ state = EmptyJournal /\ journal = EmptyJournal
  /\ journalFailed = FALSE /\ call = NoCall
  /\ faults = 0 /\ restarts = 0

Status(a) == state.records[a].status

Fault == faults < MaxFaults /\ faults' = faults + 1

\* (mutant: a failed write goes unnoticed)
SaveUnnoticed(new) ==
  /\ state' = new /\ UNCHANGED journalFailed
  /\ \/ journal' = new /\ UNCHANGED faults
     \/ Fault /\ UNCHANGED journal

(* save(): memory has the new state already; the file has it unless the      *)
(* write fails, and then no registration is accepted until a restart.  The   *)
(* process may stop; that the system does, which may undo the rename since   *)
(* the directory is never synced (accounts.ts:80-96), is left out.           *)
Save(new) ==
  /\ state' = new
  /\ \/ journal' = new /\ UNCHANGED <<journalFailed, faults>>
     \/ Fault /\ journalFailed' = TRUE /\ UNCHANGED journal

KeepJournal == UNCHANGED <<state, journal, journalFailed, restarts>>

-----------------------------------------------------------------------------
\* (mutant: a new account does not wait for the pending one)
FinishNothing(a, new, source) ==
  IF new = Nobody
  THEN [at |-> "receipt", finishing |-> a, grant |-> 1, new |-> new, source |-> source]
  ELSE [at |-> "existing", new |-> new, source |-> source]

(* finish(a) starts at its first grant; `new` is the account to register     *)
(* afterwards, when it is another one's registration that must end first.    *)
Finish(a, new, source) ==
  [at |-> "receipt", finishing |-> a, grant |-> 1, new |-> new, source |-> source]

Begin(a, source) == [at |-> "existing", new |-> a, source |-> source]

(* register(): a known account goes on with its registration, if that has    *)
(* not ended; a new one waits for its source's cool-down and lets the        *)
(* pending one end first.                                                   *)
Register(a, source) ==
  /\ ~journalFailed
  /\ call = NoCall
  /\ \/ Status(a) = "pending" /\ call' = Finish(a, Nobody, source)
     \/ /\ Status(a) = "none" /\ source \notin state.ips
        /\ call' = IF state.pending = Nobody THEN Begin(a, source)
                   ELSE Finish(state.pending, a, source)
  /\ KeepJournal /\ UNCHANGED faults

(* Only an account without funds on the first network is new. *)
ExistingRead ==
  /\ call.at = "existing"
  /\ call' = IF \E r \in Succeeded("l1") : r.tx.to = call.new THEN NoCall
             ELSE [at |-> "fund", new |-> call.new, source |-> call.source, grants |-> <<>>]
  /\ KeepJournal /\ UNCHANGED faults

(* Each wallet must cover its grant; the transfer is signed with the nonce   *)
(* of its account.  With the last one the record is journalled as pending,   *)
(* and the finish begins, unless the journal fails.                          *)
Funded ==
  /\ call.at = "fund"
  /\ LET n      == Networks[Len(call.grants) + 1]
         grants == Append(call.grants, [net |-> n, nonce |-> Nonce(n), to |-> call.new])
         a      == call.new
     IN \/ Balance(n) = 0 /\ call' = NoCall /\ KeepJournal /\ UNCHANGED faults
        \/ /\ Balance(n) > 0 /\ Len(grants) < Len(Networks)
           /\ call' = [call EXCEPT !.grants = grants]
           /\ KeepJournal /\ UNCHANGED faults
        \/ /\ Balance(n) > 0 /\ Len(grants) = Len(Networks)
           /\ Save([pending |-> a, ips |-> state.ips \cup {call.source},
                    records |-> [state.records EXCEPT
                                  ![a] = [status |-> "pending", grants |-> grants]]])
           /\ call' = IF journalFailed' THEN NoCall ELSE Finish(a, Nobody, call.source)
           /\ UNCHANGED restarts

-----------------------------------------------------------------------------
(* finish(), grant by grant. *)
Grant == state.records[call.finishing].grants[call.grant]

EndOfFinish(status) ==
  LET a == call.finishing IN
  /\ Save([state EXCEPT !.pending = Nobody, !.records[a].status = status])
  /\ call' = IF status = "confirmed" /\ ~journalFailed' /\ call.new # Nobody
             THEN Begin(call.new, call.source)
             ELSE NoCall
  /\ UNCHANGED restarts

(* A receipt is there: on to the next grant, or to the end. *)
GrantExecuted(receipt) ==
  CASE ~receipt.success -> EndOfFinish("failed")
    [] receipt.success /\ call.grant = Len(Networks) -> EndOfFinish("confirmed")
    [] OTHER -> /\ call' = [call EXCEPT !.at = "receipt", !.grant = @ + 1]
                /\ KeepJournal /\ UNCHANGED faults

(* getTx, before the submission and, for ten seconds, after it. *)
ReceiptFound ==
  /\ call.at \in {"receipt", "wait"}
  /\ \E receipt \in Receipt(Grant) : GrantExecuted(receipt)

ReceiptMissing ==
  /\ call.at = "receipt" /\ Receipt(Grant) = {}
  /\ call' = [call EXCEPT !.at = "nonce"]
  /\ KeepJournal /\ UNCHANGED faults

(* A nonce beyond the transfer's without a receipt ends the call. *)
NonceRead ==
  /\ call.at = "nonce"
  /\ call' = IF Nonce(Grant.net) > Grant.nonce THEN NoCall ELSE [call EXCEPT !.at = "submit"]
  /\ KeepJournal /\ UNCHANGED faults

(* The grant is accepted by the mempool; the answer may be lost. *)
GrantSubmitted(answerArrives) ==
  /\ call.at = "submit"
  /\ Submit(Grant)
  /\ IF answerArrives THEN call' = [call EXCEPT !.at = "wait"] /\ UNCHANGED faults
     ELSE call' = NoCall /\ Fault
  /\ KeepJournal
  /\ UNCHANGED <<receipts, spends, refusals, nodeStops>>

(* The nonce was passed, or taken, since it was read. *)
GrantRefused ==
  /\ call.at = "submit" /\ ~Accepts(Grant)
  /\ call' = NoCall
  /\ KeepJournal /\ UNCHANGED faults

(* Ten seconds without a receipt end the call, not the registration. *)
WaitTimesOut ==
  /\ call.at = "wait"
  /\ call' = NoCall
  /\ KeepJournal /\ UNCHANGED faults

(* A call to a node fails. *)
CallFails ==
  /\ call # NoCall
  /\ call' = NoCall
  /\ Fault /\ KeepJournal

CooldownEnds(source) ==
  /\ source \in state.ips
  /\ state' = [state EXCEPT !.ips = @ \ {source}]
  /\ journal' = [journal EXCEPT !.ips = @ \ {source}]
  /\ UNCHANGED <<journalFailed, call, faults, restarts>>

(* The gateway stops between two steps and reads the journal again. *)
Reopen == /\ state' = journal /\ journalFailed' = FALSE /\ call' = NoCall
          /\ UNCHANGED <<journal, faults>>

GatewayRestarts == restarts < MaxRestarts /\ restarts' = restarts + 1 /\ Reopen

(* The operator restarts a gateway whose journal could not be written. *)
JournalRepaired == journalFailed /\ Reopen /\ UNCHANGED restarts

(* A call goes on, or ends, by itself. *)
CallStep ==
  \/ ExistingRead \/ Funded \/ ReceiptFound \/ ReceiptMissing \/ NonceRead
  \/ GrantSubmitted(TRUE) \/ GrantRefused \/ WaitTimesOut \/ JournalRepaired

RegistrationNext ==
  \/ \E a \in Recipient, s \in Source : Register(a, s) /\ UNCHANGED walletVars
  \/ ExistingRead /\ UNCHANGED walletVars
  \/ Funded /\ UNCHANGED walletVars
  \/ ReceiptFound /\ UNCHANGED walletVars
  \/ ReceiptMissing /\ UNCHANGED walletVars
  \/ NonceRead /\ UNCHANGED walletVars
  \/ \E answerArrives \in BOOLEAN : GrantSubmitted(answerArrives)
  \/ GrantRefused /\ UNCHANGED walletVars
  \/ WaitTimesOut /\ UNCHANGED walletVars
  \/ CallFails /\ UNCHANGED walletVars
  \/ \E s \in Source : CooldownEnds(s) /\ UNCHANGED walletVars
  \/ GatewayRestarts /\ UNCHANGED walletVars
  \/ JournalRepaired /\ UNCHANGED walletVars

(***************************************************************************)
(* An account gets at most one grant of a network, and a registration shown  *)
(* as confirmed has been paid everywhere, however often it is retried, its   *)
(* answers are lost, the journal cannot be written or the gateway restarts.  *)
(***************************************************************************)
GrantedOnce ==
  \A a \in Recipient :
    /\ \A n \in Network : Cardinality({r \in Executed(n) : r.tx.to = a}) <= 1
    /\ Status(a) = "confirmed" =>
         \A n \in Network : \E r \in Succeeded(n) : r.tx.to = a

(***************************************************************************)
(* A pending registration can always be finished: each of its signed         *)
(* transfers was executed or has a nonce the account has not passed, unless   *)
(* somebody else used the funding key (accounts.ts:37).                      *)
(***************************************************************************)
PendingIsPayable ==
  \A a \in Recipient : Status(a) = "pending" =>
    \A i \in 1 .. Len(Networks) :
      LET grant == state.records[a].grants[i] IN
      \/ Receipt(grant) # {} \/ Accepts(grant)
      \/ spends > 0
=============================================================================
