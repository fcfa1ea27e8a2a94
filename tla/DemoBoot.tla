-------------------------------- MODULE DemoBoot --------------------------------
(***************************************************************************)
(* The start of the node demos (scripts/hex-demo.mjs, scripts/lib): the         *)
(* contracts are deployed and initialised one transaction after another, all    *)
(* by one key of a network.  Each is signed and journalled in a file of its     *)
(* own before it is sent, so that a start that was interrupted goes on with      *)
(* the same transaction.  The nodes run in the same process: they end with it,   *)
(* and start again with it.                                                  *)
(***************************************************************************)
EXTENDS FundedWallets, SequencesExt

CONSTANTS
  Steps,          \* the steps in order: [name, net]
  MaxCrashes,     \* ends of the process that nothing in it asked for
  MaxTimeOuts     \* waits that end although the transaction is still pending

NoFile   == [net |-> "no file"]
TornFile == [net |-> "torn"]       \* created, and not written
KeyFile  == [net |-> "keys"]       \* identity.json, written

ASSUME StepsAssumption ==
  /\ Len(Steps) \in Nat \ {0} /\ DOMAIN Steps = 1 .. Len(Steps)
  /\ \A s \in DOMAIN Steps :
       Steps[s].net \in Network /\ Steps[s].name \notin Recipient \cup {Outside}
  /\ \A s, t \in DOMAIN Steps :
       Steps[s].net = Steps[t].net /\ Steps[s].name = Steps[t].name => s = t
  /\ {NoFile.net, TornFile.net} \cap Network = {}

VARIABLES
  identity,  \* identity.json: the keys
  signed,    \* step -> its file: the transaction, or that there is none
  boot,      \* where the start stands: [at, step]
  crashes, timeOuts

bootVars == <<identity, signed, boot, crashes, timeOuts>>

Down == [at |-> "down", step |-> 0]
Step == Steps[boot.step]
StepTx == signed[boot.step]
IsSigned(s) == signed[s].net \in Network

BootInit ==
  /\ identity = NoFile
  /\ signed = [s \in DOMAIN Steps |-> NoFile]
  /\ boot = Down
  /\ crashes = 0 /\ timeOuts = 0

BootAt(place) == boot.at = place /\ boot.at # "down"
Goto(place) == boot' = [boot EXCEPT !.at = place] /\ UNCHANGED <<identity, signed, crashes, timeOuts>>

(* The process ends.  What a mempool held is gone, or was decided by the other   *)
(* validators and arrives when its node is back.                             *)
ProcessEnds ==
  /\ boot' = Down
  /\ \E kept \in SUBSET Network :
       pool' = [n \in Network |-> IF n \in kept THEN pool[n] ELSE {}]
  /\ UNCHANGED <<receipts, spends, refusals, nodeStops>>

(* A step that cannot go on throws, and the script with it. *)
Throws == ProcessEnds /\ UNCHANGED <<identity, signed, crashes, timeOuts>>

(* loadDemoIdentity(): the keys are made once; a file that was only created     *)
(* stops every later start.                                                  *)
StartBoot ==
  /\ boot = Down /\ identity # TornFile
  /\ identity' = KeyFile
  /\ boot' = [at |-> "journal", step |-> 1]
  /\ UNCHANGED <<signed, crashes, timeOuts>>

(* bootstrapTransaction(): the file of the step, if there is one. *)
OpenJournal ==
  /\ BootAt("journal")
  /\ \/ StepTx = NoFile /\ Goto("account") /\ UNCHANGED walletVars
     \/ IsSigned(boot.step) /\ Goto("receipt") /\ UNCHANGED walletVars
     \/ StepTx = TornFile /\ Throws

(* Otherwise the nonce of the account is read, and what is signed for it is      *)
(* written before anything is sent.                                          *)
SignStep ==
  /\ BootAt("account")
  /\ signed' = [signed EXCEPT ![boot.step] =
                  [net |-> Step.net, nonce |-> Nonce(Step.net), to |-> Step.name]]
  /\ boot' = [boot EXCEPT !.at = "receipt"]
  /\ UNCHANGED <<identity, crashes, timeOuts, walletVars>>

(* A receipt ends the step, well or not. *)
Receipted ==
  /\ Receipt(StepTx) # {}
  /\ IF \E r \in Receipt(StepTx) : r.success
     THEN /\ boot' = IF boot.step = Len(Steps) THEN [boot EXCEPT !.at = "up"]
                     ELSE [at |-> "journal", step |-> boot.step + 1]
          /\ UNCHANGED <<identity, signed, crashes, timeOuts, walletVars>>
     ELSE Throws

ReadReceipt ==
  /\ BootAt("receipt")
  /\ \/ Receipted
     \/ Receipt(StepTx) = {} /\ Goto("nonce") /\ UNCHANGED walletVars

\* (mutant: a transaction whose nonce is passed is signed again)
ReadNonceAnew ==
  /\ BootAt("nonce")
  /\ Goto(IF Nonce(Step.net) > StepTx.nonce THEN "account" ELSE "submit")
  /\ UNCHANGED walletVars

(* Without one, a nonce that is passed says that the transaction was executed    *)
(* and its receipt is not there, or never will be executed.                   *)
ReadNonce ==
  /\ BootAt("nonce")
  /\ IF Nonce(Step.net) > StepTx.nonce THEN Throws ELSE Goto("submit") /\ UNCHANGED walletVars

SubmitStep ==
  /\ BootAt("submit")
  /\ IF Accepts(StepTx)
     THEN /\ Submit(StepTx) /\ Goto("wait")
          /\ UNCHANGED <<receipts, spends, refusals, nodeStops>>
     ELSE Throws

ReadWaited == BootAt("wait") /\ Receipted

(* waitForTx gives up, because the transaction is lost or because it takes long. *)
BootTimesOut ==
  /\ BootAt("wait") /\ Receipt(StepTx) = {}
  /\ IF StepTx \in pool[Step.net]
     THEN timeOuts < MaxTimeOuts /\ timeOuts' = timeOuts + 1
     ELSE UNCHANGED timeOuts
  /\ ProcessEnds /\ UNCHANGED <<identity, signed, crashes>>

(* The process is stopped, or dies, also between creating a file and writing it. *)
Crash ==
  /\ boot # Down /\ crashes < MaxCrashes
  /\ crashes' = crashes + 1
  /\ ProcessEnds
  /\ \/ UNCHANGED signed
     \/ BootAt("account") /\ signed' = [signed EXCEPT ![boot.step] = TornFile]
  /\ UNCHANGED <<identity, timeOuts>>

CrashInIdentity ==
  /\ boot = Down /\ identity = NoFile /\ crashes < MaxCrashes
  /\ crashes' = crashes + 1 /\ identity' = TornFile
  /\ UNCHANGED <<signed, boot, timeOuts, walletVars>>

BootStep ==
  \/ StartBoot /\ UNCHANGED walletVars
  \/ OpenJournal \/ SignStep \/ ReadReceipt \/ ReadNonce \/ SubmitStep \/ ReadWaited
  \/ BootTimesOut

BootNext == BootStep \/ Crash \/ CrashInIdentity

-----------------------------------------------------------------------------
(***************************************************************************)
(* An interrupted start cannot deploy twice (demo-state.mjs:55): no step is     *)
(* executed a second time, none is signed before those it builds on have       *)
(* succeeded, and the demo is up when all have.                              *)
(***************************************************************************)
Runs(s, r) == r.tx.to = Steps[s].name
Done(s) == \E r \in Succeeded(Steps[s].net) : Runs(s, r)

DeploysOnce ==
  /\ \A s \in DOMAIN Steps :
       /\ Cardinality({r \in Executed(Steps[s].net) : Runs(s, r)}) <= 1
       /\ signed[s] # NoFile => \A earlier \in 1 .. s - 1 : Done(earlier)
  /\ boot.at = "up" => \A s \in DOMAIN Steps : Done(s)

(* What a restart cannot mend: a file that was created and not written, a step   *)
(* that was executed and failed.                                            *)
BootStuck ==
  \/ TornFile \in Range(signed) \cup {identity}
  \/ \E s \in DOMAIN Steps, n \in Network :
       \E r \in Executed(n) : Runs(s, r) /\ ~r.success

BootSettled == boot.at = "up" \/ BootStuck
=============================================================================
