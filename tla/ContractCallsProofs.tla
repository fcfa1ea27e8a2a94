--------------------------- MODULE ContractCallsProofs ---------------------------
(***************************************************************************)
(* Contracts may do anything their host lets them, call each other and     *)
(* fail at any depth; for any accounts, contracts, apps and transactions,  *)
(* money is conserved, a failed transaction leaves its fee only, a sender  *)
(* loses no more than the value it attaches and the fee, and an epoch has  *)
(* no more than one outcome.                                               *)
(*                                                                         *)
(* What makes it so is what every view of a running contract keeps of the  *)
(* state that the transaction began with: its anchors, the sum of its      *)
(* balances less the reserve, and the sender's balance less reserve and    *)
(* value.  Each host function keeps these, whichever frame it writes to,   *)
(* and a frame that returns hands its own to its caller.                   *)
(***************************************************************************)
EXTENDS ContractCalls, AccountsProofs, SequenceTheorems, TLAPS

-----------------------------------------------------------------------------
(* States.                                                                 *)

Accts == UNION {[D -> [balance : Nat, nonce : Nat]] : D \in SUBSET Addr}

Apps == [owner : Addr, validators : SUBSET Addr]

States ==
  [accounts : Accts, storage : [Contract -> Nat], code : SUBSET Contract,
   apps : [App -> Apps \cup {NoApp}], anchors : [App -> [epoch : Nat, height : Nat]]]

Frames == [contract : Contract, mark : Nat, view : States]

LEMMA AcctsAre ==
  ASSUME NEW accounts \in Accts
  PROVE  /\ Solvent(accounts) /\ AccountsOk(accounts)
<1>1. PICK D \in SUBSET Addr : accounts \in [D -> [balance : Nat, nonce : Nat]]
  BY DEF Accts
<1>2. IsFiniteSet(D)
  BY ContractAssumption, FS_Subset
<1> QED BY <1>1, <1>2 DEF Solvent, AccountsOk

LEMMA SetInAccts ==
  ASSUME NEW accounts \in Accts, NEW a \in Addr, NEW account \in [balance : Nat, nonce : Nat]
  PROVE  SetAccount(accounts, a, account) \in Accts
<1>1. PICK D \in SUBSET Addr : accounts \in [D -> [balance : Nat, nonce : Nat]]
  BY DEF Accts
<1>2. SetAccount(accounts, a, account) \in [D \cup {a} -> [balance : Nat, nonce : Nat]]
  BY <1>1 DEF SetAccount
<1>3. D \cup {a} \in SUBSET Addr
  BY <1>1
<1> QED BY <1>2, <1>3 DEF Accts

LEMMA CreditInAccts ==
  ASSUME NEW accounts \in Accts, NEW a \in Addr, NEW amount \in Int,
         Account(accounts, a).balance + amount >= 0
  PROVE  /\ Credit(accounts, a, amount) \in Accts
         /\ SumOf(Credit(accounts, a, amount)) = SumOf(accounts) + amount
         /\ Account(Credit(accounts, a, amount), a).balance = Account(accounts, a).balance + amount
         /\ \A b : b # a => Account(Credit(accounts, a, amount), b) = Account(accounts, b)
<1>1. Solvent(accounts)
  BY AcctsAre
<1>2. Account(accounts, a) \in [balance : Nat, nonce : Nat]
  BY <1>1, AccountOf
<1>3. [Account(accounts, a) EXCEPT !.balance = @ + amount] \in [balance : Nat, nonce : Nat]
  BY <1>2
<1>4. Credit(accounts, a, amount) \in Accts
  BY <1>3, SetInAccts DEF Credit
<1> QED BY <1>1, <1>4, CreditAdds

LEMMA ChargeInAccts ==
  ASSUME NEW accounts \in Accts, NEW a \in Addr, NEW amount \in Nat,
         Account(accounts, a).balance >= amount
  PROVE  /\ Charge(accounts, a, amount) \in Accts
         /\ SumOf(Charge(accounts, a, amount)) = SumOf(accounts) - amount
         /\ Account(Charge(accounts, a, amount), a).balance = Account(accounts, a).balance - amount
         /\ \A b : b # a => Account(Charge(accounts, a, amount), b) = Account(accounts, b)
<1>1. Solvent(accounts)
  BY AcctsAre
<1>2. Account(accounts, a) \in [balance : Nat, nonce : Nat]
  BY <1>1, AccountOf
<1>3. [balance |-> Account(accounts, a).balance - amount, nonce |-> Account(accounts, a).nonce + 1]
        \in [balance : Nat, nonce : Nat]
  BY <1>2
<1>4. Charge(accounts, a, amount) \in Accts
  BY <1>3, SetInAccts DEF Charge
<1> QED BY <1>1, <1>4, ChargeTakes

LEMMA BalanceIsNat ==
  ASSUME NEW v \in States, NEW a
  PROVE  BalanceOf(v, a) \in Nat
<1>1. v.accounts \in Accts
  BY DEF States
<1> QED BY <1>1, AcctsAre, AccountOf DEF BalanceOf

\* Writing the accounts of a state writes nothing else of it.
LEMMA WithAccounts ==
  ASSUME NEW v \in States, NEW accounts \in Accts
  PROVE  LET w == [v EXCEPT !.accounts = accounts] IN
         /\ w \in States
         /\ w.accounts = accounts /\ w.storage = v.storage /\ w.code = v.code
         /\ w.apps = v.apps /\ w.anchors = v.anchors
BY DEF States

\* A move of money that is there: the sum stays, and only the payer has less.
LEMMA MoveKeeps ==
  ASSUME NEW v \in States, NEW from \in Addr, NEW to \in Addr, NEW amount \in Nat,
         BalanceOf(v, from) >= amount
  PROVE  /\ Move(v, from, to, amount) \in States
         /\ Move(v, from, to, amount).anchors = v.anchors
         /\ SumOf(Move(v, from, to, amount).accounts) = SumOf(v.accounts)
         /\ \A a : BalanceOf(Move(v, from, to, amount), a) >=
                     BalanceOf(v, a) - (IF a = from THEN amount ELSE 0)
<1> DEFINE paid == Credit(v.accounts, from, -amount)
           got  == Credit(paid, to, amount)
<1>1. v.accounts \in Accts /\ Solvent(v.accounts)
  BY AcctsAre DEF States
<1>2. BalanceOf(v, from) \in Nat /\ -amount \in Int /\ BalanceOf(v, from) + (-amount) >= 0
  BY BalanceIsNat
<1>3. /\ paid \in Accts
      /\ SumOf(paid) = SumOf(v.accounts) + (-amount)
      /\ Account(paid, from).balance = Account(v.accounts, from).balance + (-amount)
      /\ \A b : b # from => Account(paid, b) = Account(v.accounts, b)
  BY <1>1, <1>2, CreditInAccts DEF BalanceOf
<1> HIDE DEF paid
<1>4. Account(paid, to).balance \in Nat /\ Account(paid, to).balance + amount >= 0 /\ amount \in Int
  <2>1. Account(paid, to).balance \in Nat
    BY <1>3, AcctsAre, AccountOf
  <2> QED BY <2>1
<1>5. /\ got \in Accts
      /\ SumOf(got) = SumOf(paid) + amount
      /\ Account(got, to).balance = Account(paid, to).balance + amount
      /\ \A b : b # to => Account(got, b) = Account(paid, b)
  BY <1>3, <1>4, CreditInAccts
<1> HIDE DEF got
<1>6. Move(v, from, to, amount) = [v EXCEPT !.accounts = got]
  BY DEF Move, got, paid
<1>7. /\ Move(v, from, to, amount) \in States
      /\ Move(v, from, to, amount).accounts = got
      /\ Move(v, from, to, amount).anchors = v.anchors
  BY <1>5, <1>6, WithAccounts
<1>8. SumOf(got) = SumOf(v.accounts)
  <2>1. (SumOf(v.accounts) + (-amount)) + amount = SumOf(v.accounts)
    BY <1>1, SumOfBalances
  <2> QED BY <1>3, <1>5, <2>1
<1>9. ASSUME NEW a
      PROVE  Account(got, a).balance >=
               Account(v.accounts, a).balance - (IF a = from THEN amount ELSE 0)
  <2>1. Account(v.accounts, a).balance \in Nat /\ Account(paid, a).balance \in Nat
    BY <1>1, <1>3, AcctsAre, AccountOf
  <2>2. Account(paid, a).balance >= Account(v.accounts, a).balance - (IF a = from THEN amount ELSE 0)
    <3>1. CASE a = from
      BY <1>3, <2>1, <3>1
    <3>2. CASE a # from
      BY <1>3, <2>1, <3>2
    <3> QED BY <3>1, <3>2
  <2>3. Account(got, a).balance >= Account(paid, a).balance
    <3>1. CASE a = to
      BY <1>5, <2>1, <3>1
    <3>2. CASE a # to
      BY <1>5, <2>1, <3>2
    <3> QED BY <3>1, <3>2
  <2>4. Account(got, a).balance \in Nat
    BY <1>5, AcctsAre, AccountOf
  <2> QED BY <2>1, <2>2, <2>3, <2>4
<1> QED BY <1>7, <1>8, <1>9 DEF BalanceOf

\* The view that a call begins with.
LEMMA FrameKeeps ==
  ASSUME NEW v \in States, NEW contract \in Contract, NEW caller \in Addr, NEW value \in Nat,
         NEW mark \in Nat, Runs(v, contract, caller, value)
  PROVE  LET f == Frame(v, contract, caller, value, mark) IN
         /\ f \in Frames
         /\ f.view.anchors = v.anchors
         /\ SumOf(f.view.accounts) = SumOf(v.accounts)
         /\ \A a : BalanceOf(f.view, a) >= BalanceOf(v, a) - (IF a = caller THEN value ELSE 0)
<1> DEFINE w == IF value > 0 THEN Move(v, caller, contract, value) ELSE v
<1>1. contract \in Addr
  BY ContractAssumption
<1>2. /\ w \in States /\ w.anchors = v.anchors /\ SumOf(w.accounts) = SumOf(v.accounts)
      /\ \A a : BalanceOf(w, a) >= BalanceOf(v, a) - (IF a = caller THEN value ELSE 0)
  <2>1. CASE value > 0
    BY <1>1, <2>1, MoveKeeps DEF Runs
  <2>2. CASE ~(value > 0)
    <3>1. value = 0
      BY <2>2
    <3>2. \A a : BalanceOf(v, a) >= BalanceOf(v, a) - (IF a = caller THEN value ELSE 0)
      BY <3>1, BalanceIsNat
    <3> QED BY <2>2, <3>2
  <2> QED BY <2>1, <2>2
<1> HIDE DEF w
<1>3. Frame(v, contract, caller, value, mark) = [contract |-> contract, mark |-> mark, view |-> w]
  BY DEF Frame, w
<1> QED BY <1>2, <1>3 DEF Frames

-----------------------------------------------------------------------------
(* Payloads without a call.                                                *)

LEMMA PlainKeeps ==
  ASSUME NEW v \in States, NEW tx \in Tx, tx.kind # "execute", PlainOk(v, tx)
  PROVE  /\ Plain(v, tx) \in States
         /\ Plain(v, tx).accounts = v.accounts
         /\ \A a \in App : Plain(v, tx).anchors[a].epoch >= v.anchors[a].epoch
<1>1. /\ tx.kind \in {"deploy", "register", "update", "anchor"}
      /\ tx.sender \in Addr /\ tx.contract \in Contract /\ tx.app \in App
      /\ tx.validators \in SUBSET Addr /\ tx.epoch \in Nat /\ tx.height \in Nat
  BY TxAssumption
<1>2. \A a \in App : v.anchors[a].epoch >= v.anchors[a].epoch
  BY DEF States
<1>3. CASE tx.kind = "deploy"
  <2>1. Plain(v, tx) = [v EXCEPT !.code = v.code \cup {tx.contract}]
    BY <1>3 DEF Plain
  <2>2. v.code \cup {tx.contract} \in SUBSET Contract
    BY <1>1 DEF States
  <2> QED BY <1>2, <2>1, <2>2 DEF States
<1>4. CASE tx.kind \in {"register", "update"}
  <2> DEFINE apps == [v.apps EXCEPT ![tx.app] = [owner |-> tx.sender, validators |-> tx.validators]]
  <2>1. Plain(v, tx) = Registered(v, tx, tx.sender)
    BY <1>4 DEF Plain
  <2>2. Registered(v, tx, tx.sender) = [v EXCEPT !.apps = apps]
    BY DEF Registered
  <2>3. apps \in [App -> Apps \cup {NoApp}]
    BY <1>1 DEF States, Apps
  <2> HIDE DEF apps
  <2> QED BY <1>2, <2>1, <2>2, <2>3 DEF States
<1>5. CASE tx.kind = "anchor"
  <2> DEFINE anchors == [v.anchors EXCEPT ![tx.app] = [epoch |-> tx.epoch, height |-> tx.height]]
  <2>1. Plain(v, tx) = Anchored(v, tx)
    BY <1>5 DEF Plain
  <2>2. Anchored(v, tx) = [v EXCEPT !.anchors = anchors]
    BY DEF Anchored
  <2>3. tx.epoch > v.anchors[tx.app].epoch
    BY <1>5 DEF PlainOk, Anchorable
  <2>4. v.anchors \in [App -> [epoch : Nat, height : Nat]]
    BY DEF States
  <2>5. /\ anchors \in [App -> [epoch : Nat, height : Nat]]
        /\ \A a \in App : anchors[a].epoch >= v.anchors[a].epoch
    <3>1. anchors \in [App -> [epoch : Nat, height : Nat]]
      BY <1>1, <2>4
    <3>2. ASSUME NEW a \in App PROVE anchors[a].epoch >= v.anchors[a].epoch
      <4>1. CASE a = tx.app
        <5>1. anchors[a].epoch = tx.epoch
          BY <2>4, <4>1
        <5> QED BY <1>1, <2>3, <2>4, <4>1, <5>1
      <4>2. CASE a # tx.app
        <5>1. anchors[a] = v.anchors[a]
          BY <2>4, <4>2
        <5> QED BY <1>2, <5>1
      <4> QED BY <4>1, <4>2
    <3> QED BY <3>1, <3>2
  <2> HIDE DEF anchors
  <2> QED BY <2>1, <2>2, <2>5 DEF States
<1> QED BY <1>1, <1>3, <1>4, <1>5

\* An epoch that is anchored is a later one, and the anchor is all that is written.
LEMMA AnchoredKeeps ==
  ASSUME NEW v \in States, NEW tx \in Tx
  PROVE  /\ Anchored(v, tx) \in States
         /\ Anchored(v, tx).accounts = v.accounts
         /\ Anchored(v, tx).anchors[tx.app].epoch = tx.epoch
         /\ \A a \in App : a # tx.app => Anchored(v, tx).anchors[a] = v.anchors[a]
<1> DEFINE anchors == [v.anchors EXCEPT ![tx.app] = [epoch |-> tx.epoch, height |-> tx.height]]
<1>1. tx.app \in App /\ tx.epoch \in Nat /\ tx.height \in Nat
  BY TxAssumption
<1>2. v.anchors \in [App -> [epoch : Nat, height : Nat]]
  BY DEF States
<1>3. Anchored(v, tx) = [v EXCEPT !.anchors = anchors]
  BY DEF Anchored
<1>4. /\ anchors \in [App -> [epoch : Nat, height : Nat]]
      /\ anchors[tx.app].epoch = tx.epoch
      /\ \A a \in App : a # tx.app => anchors[a] = v.anchors[a]
  BY <1>1, <1>2
<1> HIDE DEF anchors
<1> QED BY <1>3, <1>4 DEF States

-----------------------------------------------------------------------------
(* The beginning and the end of a transaction.                             *)

LEMMA SupplyIsNat == Supply \in Nat
<1>1. IsFiniteSet(DOMAIN Balance)
  BY ContractAssumption, FS_Subset
<1> QED BY <1>1, ContractAssumption, SumIsNat DEF Supply, SumFunction

\* The state b, less the reserve for tx.
BaseOf(b, tx) == [b EXCEPT !.accounts = Charge(@, tx.sender, MaxFee)]

\* b can include tx.
Starts(b, tx) ==
  /\ b \in States /\ SumOf(b.accounts) = Supply
  /\ tx \in Tx /\ Includable(b.accounts, tx)

\* What a view keeps of b while tx runs.
Keeps(v, b, tx) ==
  /\ v \in States
  /\ SumOf(v.accounts) = Supply - MaxFee
  /\ BalanceOf(v, tx.sender) >= BalanceOf(b, tx.sender) - MaxFee - tx.amount

LEMMA BaseKeeps ==
  ASSUME NEW b, NEW tx, Starts(b, tx)
  PROVE  /\ BaseOf(b, tx) = [b EXCEPT !.accounts = Charge(b.accounts, tx.sender, MaxFee)]
         /\ BaseOf(b, tx) \in States
         /\ BaseOf(b, tx).accounts = Charge(b.accounts, tx.sender, MaxFee)
         /\ BaseOf(b, tx).anchors = b.anchors
         /\ SumOf(BaseOf(b, tx).accounts) = Supply - MaxFee
         /\ BalanceOf(BaseOf(b, tx), tx.sender) = BalanceOf(b, tx.sender) - MaxFee
         /\ BalanceOf(b, tx.sender) >= MaxFee + tx.amount
         /\ Keeps(BaseOf(b, tx), b, tx)
<1> DEFINE charged == Charge(b.accounts, tx.sender, MaxFee)
<1>1. /\ b \in States /\ b.accounts \in Accts /\ tx.sender \in Addr /\ tx.amount \in Nat
      /\ tx.kind # "transfer" /\ MaxFee \in Nat
  BY TxAssumption, FeeAssumption DEF Starts, States
<1>2. /\ BalanceOf(b, tx.sender) \in Nat
      /\ BalanceOf(b, tx.sender) >= MaxFee + tx.amount
  BY <1>1, BalanceIsNat DEF Starts, Includable, Required, BalanceOf
<1>3. /\ charged \in Accts
      /\ SumOf(charged) = SumOf(b.accounts) - MaxFee
      /\ Account(charged, tx.sender).balance = Account(b.accounts, tx.sender).balance - MaxFee
  <2>1. Account(b.accounts, tx.sender).balance >= MaxFee
    BY <1>1, <1>2 DEF BalanceOf
  <2> QED BY <1>1, <2>1, ChargeInAccts
<1> HIDE DEF charged
<1>4. BaseOf(b, tx) = [b EXCEPT !.accounts = charged]
  BY DEF BaseOf, charged
<1>5. BaseOf(b, tx) \in States /\ BaseOf(b, tx).accounts = charged /\ BaseOf(b, tx).anchors = b.anchors
  BY <1>1, <1>3, <1>4, WithAccounts
<1>6. BalanceOf(BaseOf(b, tx), tx.sender) = BalanceOf(b, tx.sender) - MaxFee
  BY <1>3, <1>5 DEF BalanceOf
<1>7. BalanceOf(b, tx.sender) - MaxFee >= BalanceOf(b, tx.sender) - MaxFee - tx.amount
  BY <1>1, <1>2
<1>8. SumOf(BaseOf(b, tx).accounts) = Supply - MaxFee
  BY <1>3, <1>5 DEF Starts
<1> QED BY <1>2, <1>4, <1>5, <1>6, <1>7, <1>8 DEF Keeps, charged

\* A reserve that is given back, less the fee, is the fee that is taken.
LEMMA RefundLeavesTheFee ==
  ASSUME NEW accounts \in Accts, NEW a, NEW fee \in Nat, fee <= MaxFee
  PROVE  Credit(Charge(accounts, a, MaxFee), a, MaxFee - fee) = Charge(accounts, a, fee)
<1> DEFINE old     == Account(accounts, a)
           charged == [balance |-> old.balance - MaxFee, nonce |-> old.nonce + 1]
           left    == [balance |-> old.balance - fee, nonce |-> old.nonce + 1]
<1>1. old.balance \in Nat /\ old.nonce \in Nat /\ MaxFee \in Nat
  BY AcctsAre, AccountOf, FeeAssumption
<1>2. Account(Charge(accounts, a, MaxFee), a) = charged
  BY AccountAfter DEF Charge
<1> HIDE DEF old
<1>3. (old.balance - MaxFee) + (MaxFee - fee) = old.balance - fee
  BY <1>1
<1>4. [charged EXCEPT !.balance = charged.balance + (MaxFee - fee)] = left
  BY <1>3
<1>5. Credit(Charge(accounts, a, MaxFee), a, MaxFee - fee)
        = SetAccount(SetAccount(accounts, a, charged), a, left)
  <2>1. Credit(Charge(accounts, a, MaxFee), a, MaxFee - fee) =
          SetAccount(Charge(accounts, a, MaxFee), a,
            [charged EXCEPT !.balance = charged.balance + (MaxFee - fee)])
    BY <1>2 DEF Credit
  <2>2. Charge(accounts, a, MaxFee) = SetAccount(accounts, a, charged)
    BY DEF Charge, old
  <2> QED BY <1>4, <2>1, <2>2
<1>6. SetAccount(SetAccount(accounts, a, charged), a, left) = SetAccount(accounts, a, left)
  <2> HIDE DEF charged, left
  <2> QED BY DEF SetAccount
<1>7. Charge(accounts, a, fee) = SetAccount(accounts, a, left)
  BY DEF Charge, old
<1> QED BY <1>5, <1>6, <1>7

\* How a transaction ends, whatever has run.
LEMMA SettleEnds ==
  ASSUME NEW b, NEW tx, Starts(b, tx), NEW proposer \in Proposer, NEW succeeds \in BOOLEAN,
         NEW view, Keeps(view, b, tx), NEW told,
         Settle(BaseOf(b, tx), view, told, tx, proposer, succeeds), before' = b
  PROVE  /\ state' \in States /\ SumOf(state'.accounts) = Supply
         /\ state'.anchors = (IF succeeds THEN view ELSE b).anchors
         /\ current' = NoTx /\ frames' = <<>> /\ events' = <<>>
         /\ FailureLeavesTheFee' /\ LossIsBounded'
<1> DEFINE base   == BaseOf(b, tx)
           result == Result(base, view, succeeds)
<1>1. PICK fee \in Fee .. MaxFee :
        /\ state' = [result EXCEPT !.accounts =
                       Credit(Credit(result.accounts, tx.sender, MaxFee - fee), proposer, fee)]
        /\ receipt' = [tx |-> tx, proposer |-> proposer, succeeds |-> succeeds, fee |-> fee,
                       events |-> IF succeeds THEN told ELSE <<>>]
        /\ current' = NoTx /\ frames' = <<>> /\ events' = <<>>
  BY DEF Settle
<1>2. /\ fee \in Nat /\ fee <= MaxFee /\ MaxFee \in Nat /\ MaxFee - fee \in Nat
      /\ tx.sender \in Addr /\ tx.amount \in Nat /\ proposer \in Addr
      /\ b \in States /\ Supply \in Nat
  BY FeeAssumption, TxAssumption, ContractAssumption, SupplyIsNat DEF Starts
<1>3. /\ base \in States /\ base.accounts = Charge(b.accounts, tx.sender, MaxFee)
      /\ base.anchors = b.anchors /\ Keeps(base, b, tx)
      /\ base = [b EXCEPT !.accounts = Charge(b.accounts, tx.sender, MaxFee)]
  BY BaseKeeps
<1> HIDE DEF base
<1>4. result = IF succeeds THEN view ELSE base
  BY DEF Result
<1>5. Keeps(result, b, tx)
  BY <1>3, <1>4
<1> HIDE DEF result
<1> DEFINE refunded == Credit(result.accounts, tx.sender, MaxFee - fee)
           last     == Credit(refunded, proposer, fee)
<1>6. /\ result \in States /\ result.accounts \in Accts
      /\ Account(result.accounts, tx.sender).balance \in Nat
      /\ BalanceOf(b, tx.sender) \in Nat
  BY <1>2, <1>5, BalanceIsNat DEF Keeps, States, BalanceOf
<1>7. /\ refunded \in Accts
      /\ SumOf(refunded) = SumOf(result.accounts) + (MaxFee - fee)
      /\ Account(refunded, tx.sender).balance = Account(result.accounts, tx.sender).balance + (MaxFee - fee)
  <2>1. MaxFee - fee \in Int /\ Account(result.accounts, tx.sender).balance + (MaxFee - fee) >= 0
    BY <1>2, <1>6
  <2> QED BY <1>2, <1>6, <2>1, CreditInAccts
<1> HIDE DEF refunded
<1>8. /\ last \in Accts
      /\ SumOf(last) = SumOf(refunded) + fee
      /\ Account(last, proposer).balance = Account(refunded, proposer).balance + fee
      /\ \A a : a # proposer => Account(last, a) = Account(refunded, a)
  <2>1. Account(refunded, proposer).balance \in Nat
    BY <1>7, AcctsAre, AccountOf
  <2>2. Account(refunded, proposer).balance + fee >= 0 /\ fee \in Int
    BY <1>2, <2>1
  <2> QED BY <1>2, <1>7, <2>2, CreditInAccts
<1> HIDE DEF last
<1>9. state' = [result EXCEPT !.accounts = last]
  BY <1>1 DEF last, refunded
<1>10. state' \in States /\ state'.accounts = last /\ state'.anchors = result.anchors
  BY <1>6, <1>8, <1>9, WithAccounts
<1>11. SumOf(state'.accounts) = Supply
  <2>1. SumOf(result.accounts) = Supply - MaxFee
    BY <1>5 DEF Keeps
  <2>2. ((Supply - MaxFee) + (MaxFee - fee)) + fee = Supply
    BY <1>2
  <2> QED BY <1>7, <1>8, <1>10, <2>1, <2>2
<1>12. Account(last, tx.sender).balance >= BalanceOf(b, tx.sender) - fee - tx.amount
  <2>1. Account(refunded, tx.sender).balance \in Nat
    BY <1>7, AcctsAre, AccountOf
  <2>2. Account(last, tx.sender).balance >= Account(refunded, tx.sender).balance
    <3>1. CASE tx.sender = proposer
      BY <1>2, <1>8, <2>1, <3>1
    <3>2. CASE tx.sender # proposer
      BY <1>8, <2>1, <3>2
    <3> QED BY <3>1, <3>2
  <2>3. Account(result.accounts, tx.sender).balance >= BalanceOf(b, tx.sender) - MaxFee - tx.amount
    BY <1>5 DEF Keeps, BalanceOf
  <2>4. Account(refunded, tx.sender).balance >= BalanceOf(b, tx.sender) - fee - tx.amount
    BY <1>2, <1>6, <1>7, <2>3
  <2>5. Account(last, tx.sender).balance \in Nat
    BY <1>8, AcctsAre, AccountOf
  <2> QED BY <1>2, <1>6, <2>1, <2>2, <2>4, <2>5
<1>13. LossIsBounded'
  BY <1>1, <1>10, <1>12 DEF LossIsBounded, BalanceOf
<1>14. FailureLeavesTheFee'
  <2> SUFFICES ASSUME ~succeeds
               PROVE  state' = [b EXCEPT !.accounts =
                                  Credit(Charge(b.accounts, tx.sender, fee), proposer, fee)]
    BY <1>1 DEF FailureLeavesTheFee
  <2>1. result = base
    BY <1>4
  <2>2. refunded = Charge(b.accounts, tx.sender, fee)
    <3>1. b.accounts \in Accts
      BY <1>2 DEF States
    <3> QED BY <1>2, <1>3, <2>1, <3>1, RefundLeavesTheFee DEF refunded
  <2>3. last = Credit(Charge(b.accounts, tx.sender, fee), proposer, fee)
    BY <2>2 DEF last
  <2>4. [base EXCEPT !.accounts = last] = [b EXCEPT !.accounts = last]
    BY <1>2, <1>3 DEF States
  <2> QED BY <1>9, <2>1, <2>3, <2>4
<1> QED BY <1>1, <1>3, <1>4, <1>10, <1>11, <1>13, <1>14

-----------------------------------------------------------------------------
(* The invariant.                                                          *)

Typed ==
  /\ state \in States /\ before \in States
  /\ frames \in Seq(Frames) /\ Len(frames) <= MaxCallDepth + 1
  /\ current = NoTx \/ current \in [kind : {"tx"}, tx : Tx, proposer : Proposer]
  /\ frames # <<>> <=> current # NoTx
  /\ events \in Seq(BOOLEAN) /\ Len(events) <= MaxEvents
  /\ settled \in [App -> Nat]

\* What runs began with a state that could include it, and every view keeps of
\* it what Keeps says, and the anchors.
RunsOn(b, tx) ==
  /\ Starts(b, tx)
  /\ state = BaseOf(b, tx)
  /\ \A i \in DOMAIN frames : Keeps(frames[i].view, b, tx) /\ frames[i].view.anchors = b.anchors
  /\ tx.kind = "anchor" => tx.epoch > b.anchors[tx.app].epoch

RunsOnBefore ==
  IF current = NoTx THEN SumOf(state.accounts) = Supply ELSE RunsOn(before, current.tx)

IInv == Typed /\ RunsOnBefore /\ FailureLeavesTheFee /\ LossIsBounded /\ OutcomeOncePerEpoch

LEMMA TypesAndSums == Typed /\ RunsOnBefore => Conserved
<1> SUFFICES ASSUME Typed, RunsOnBefore PROVE Conserved
  OBVIOUS
<1>1. state \in States /\ \A i \in DOMAIN frames : frames[i].view \in States /\ frames[i] \in Frames
  <2>1. state \in States /\ \A i \in DOMAIN frames : frames[i] \in Frames
    BY DEF Typed
  <2> QED BY <2>1 DEF Frames
<1>2. TypeOK
  <2>1. \A v \in States : AccountsOk(v.accounts) /\ v.code \subseteq Contract
    BY AcctsAre DEF States
  <2>2. Depth <= MaxCallDepth
    BY ContractAssumption DEF Typed, Depth
  <2> QED BY <1>1, <2>1, <2>2 DEF TypeOK, Typed
<1>3. CASE current = NoTx
  <2>1. frames = <<>> /\ SumOf(state.accounts) = Supply
    BY <1>3 DEF Typed, RunsOnBefore
  <2>2. Supply - 0 = Supply /\ DOMAIN frames = {}
    BY <2>1, SupplyIsNat
  <2> QED BY <1>2, <1>3, <2>1, <2>2 DEF Conserved
<1>4. CASE current # NoTx
  <2>1. RunsOn(before, current.tx)
    BY <1>4 DEF RunsOnBefore
  <2>2. SumOf(state.accounts) = Supply - MaxFee
    BY <2>1, BaseKeeps DEF RunsOn
  <2>3. \A i \in DOMAIN frames : SumOf(frames[i].view.accounts) = Supply - MaxFee
    BY <2>1 DEF RunsOn, Keeps
  <2> QED BY <1>2, <1>4, <2>2, <2>3 DEF Conserved
<1> QED BY <1>3, <1>4

LEMMA InitHolds == Init => IInv
<1> SUFFICES ASSUME Init PROVE IInv
  OBVIOUS
<1> DEFINE accounts == [a \in DOMAIN Balance |-> [balance |-> Balance[a], nonce |-> 0]]
<1>1. accounts \in Accts
  <2>1. accounts \in [DOMAIN Balance -> [balance : Nat, nonce : Nat]] /\ DOMAIN Balance \in SUBSET Addr
    BY ContractAssumption
  <2> QED BY <2>1 DEF Accts
<1>2. SumOf(accounts) = Supply
  <2>1. IsFiniteSet(DOMAIN Balance)
    BY ContractAssumption, FS_Subset
  <2>2. /\ DOMAIN BalancesOf(accounts) = DOMAIN Balance
        /\ \A a \in DOMAIN Balance : BalancesOf(accounts)[a] = Balance[a]
    BY DEF BalancesOf
  <2> QED BY <2>1, <2>2, SumsAgree DEF SumOf, Supply, SumFunction
<1> HIDE DEF accounts
<1>3. /\ state = [accounts |-> accounts, storage |-> [c \in Contract |-> 0], code |-> {},
                  apps |-> [a \in App |-> NoApp],
                  anchors |-> [a \in App |-> [epoch |-> 0, height |-> 0]]]
      /\ frames = <<>> /\ current = NoTx /\ events = <<>> /\ before = state /\ receipt = NoTx
      /\ settled = [a \in App |-> 0]
  BY DEF Init, accounts
<1>4. state \in States
  BY <1>1, <1>3 DEF States
<1>5. Typed
  <2>1. Len(frames) = 0 /\ Len(events) = 0 /\ frames \in Seq(Frames) /\ events \in Seq(BOOLEAN)
    BY <1>3
  <2>2. settled \in [App -> Nat]
    BY <1>3
  <2> QED BY <1>3, <1>4, <2>1, <2>2, ContractAssumption DEF Typed
<1>6. RunsOnBefore
  BY <1>2, <1>3 DEF RunsOnBefore
<1>7. FailureLeavesTheFee /\ LossIsBounded
  BY <1>3 DEF FailureLeavesTheFee, LossIsBounded, Done
<1>8. OutcomeOncePerEpoch
  BY <1>3 DEF OutcomeOncePerEpoch
<1> QED BY <1>5, <1>6, <1>7, <1>8 DEF IInv

\* The end of a transaction, and the state that is ready for the next one.
LEMMA EndHolds ==
  ASSUME IInv, NEW b, NEW tx, Starts(b, tx), NEW proposer \in Proposer, NEW succeeds \in BOOLEAN,
         NEW view, Keeps(view, b, tx), NEW told,
         Settle(BaseOf(b, tx), view, told, tx, proposer, succeeds), before' = b,
         settled' \in [App -> Nat],
         \A a \in App : settled'[a] <= (IF succeeds THEN view ELSE b).anchors[a].epoch
  PROVE  IInv'
<1>1. /\ state' \in States /\ SumOf(state'.accounts) = Supply
      /\ state'.anchors = (IF succeeds THEN view ELSE b).anchors
      /\ current' = NoTx /\ frames' = <<>> /\ events' = <<>>
      /\ FailureLeavesTheFee' /\ LossIsBounded'
  BY SettleEnds
<1>2. Typed'
  <2>1. Len(frames') = 0 /\ Len(events') = 0 /\ frames' \in Seq(Frames) /\ events' \in Seq(BOOLEAN)
    BY <1>1
  <2>2. before' \in States
    BY DEF Starts
  <2> QED BY <1>1, <2>1, <2>2, ContractAssumption DEF Typed
<1>3. RunsOnBefore'
  BY <1>1 DEF RunsOnBefore
<1>4. OutcomeOncePerEpoch'
  BY <1>1 DEF OutcomeOncePerEpoch
<1> QED BY <1>1, <1>2, <1>3, <1>4 DEF IInv

\* A state between transactions can start one that it includes.
LEMMA MayStart ==
  ASSUME IInv, NEW tx \in Tx, MayInclude(tx)
  PROVE  /\ Starts(state, tx) /\ Reserved(tx) = BaseOf(state, tx)
         /\ current = NoTx /\ frames = <<>>
BY DEF IInv, Typed, RunsOnBefore, MayInclude, Starts, Reserved, BaseOf

LEMMA IncludePlainHolds ==
  ASSUME IInv, NEW tx \in Tx, NEW proposer \in Proposer, IncludePlain(tx, proposer)
  PROVE  IInv'
<1> DEFINE base     == BaseOf(state, tx)
           succeeds == PlainOk(base, tx)
           view     == IF succeeds THEN Plain(base, tx) ELSE base
<1>1. /\ Starts(state, tx) /\ Reserved(tx) = base /\ tx.kind # "execute"
      /\ before' = state /\ settled' = settled
      /\ Settle(base, view, WithOwn(<<>>, tx), tx, proposer, succeeds)
  BY MayStart DEF IncludePlain
<1>2. /\ base \in States /\ base.anchors = state.anchors /\ Keeps(base, state, tx)
  BY <1>1, BaseKeeps
<1>3. succeeds \in BOOLEAN
  <2>1. tx.kind \in {"deploy", "register", "update", "anchor"}
    BY <1>1, TxAssumption
  <2>2. CASE tx.kind = "deploy"
    BY <2>2, Zenon DEF PlainOk
  <2>3. CASE tx.kind = "register"
    <3>1. tx.kind # "deploy"
      BY <2>3
    <3> QED BY <2>3, <3>1, Zenon DEF PlainOk
  <2>4. CASE tx.kind = "update"
    <3>1. tx.kind # "deploy" /\ tx.kind # "register"
      BY <2>4
    <3> QED BY <2>4, <3>1, Zenon DEF PlainOk
  <2>5. CASE tx.kind = "anchor"
    <3>1. tx.kind # "deploy" /\ tx.kind # "register" /\ tx.kind # "update"
      BY <2>5
    <3> QED BY <2>5, <3>1, Zenon DEF PlainOk, Anchorable
  <2> QED BY <2>1, <2>2, <2>3, <2>4, <2>5
<1>4. /\ Keeps(view, state, tx)
      /\ \A a \in App : view.anchors[a].epoch >= state.anchors[a].epoch
  <2>1. CASE succeeds
    <3>1. /\ Plain(base, tx) \in States /\ Plain(base, tx).accounts = base.accounts
          /\ \A a \in App : Plain(base, tx).anchors[a].epoch >= base.anchors[a].epoch
      <4> HIDE DEF base
      <4> QED BY <1>1, <1>2, <2>1, PlainKeeps
    <3> HIDE DEF base, succeeds
    <3> QED BY <1>2, <2>1, <3>1 DEF Keeps, BalanceOf
  <2>2. CASE ~succeeds
    <3>1. \A a \in App : state.anchors[a].epoch >= state.anchors[a].epoch
      BY DEF IInv, Typed, States
    <3> HIDE DEF base, succeeds
    <3> QED BY <1>2, <2>2, <3>1
  <2> QED BY <1>3, <2>1, <2>2
<1>5. \A a \in App : settled[a] <= state.anchors[a].epoch /\ settled[a] \in Nat
                     /\ state.anchors[a].epoch \in Nat
  BY DEF IInv, OutcomeOncePerEpoch, Typed, States
<1>6. \A a \in App : view.anchors[a].epoch \in Nat
  BY <1>4 DEF Keeps, States
<1> HIDE DEF view, succeeds
<1>7. \A a \in App : settled'[a] <= (IF succeeds THEN view ELSE state).anchors[a].epoch
  <2> SUFFICES ASSUME NEW a \in App
               PROVE  settled[a] <= (IF succeeds THEN view ELSE state).anchors[a].epoch
    BY <1>1
  <2>1. settled[a] <= view.anchors[a].epoch
    BY <1>4, <1>5, <1>6
  <2> QED BY <1>5, <2>1
<1>8. settled' \in [App -> Nat]
  BY <1>1 DEF IInv, Typed
<1> QED BY <1>1, <1>3, <1>4, <1>7, <1>8, EndHolds

\* The first call of a transaction; or it fails before it runs.
LEMMA IncludeCallHolds ==
  ASSUME IInv, NEW tx \in Tx, NEW proposer \in Proposer, IncludeCall(tx, proposer)
  PROVE  IInv'
<1> DEFINE base == BaseOf(state, tx)
           started == /\ tx.kind = "anchor" => Anchorable(base, tx)
                      /\ Runs(base, tx.contract, Caller(tx), tx.amount)
           f == Frame(base, tx.contract, Caller(tx), tx.amount, 0)
<1>1. /\ Starts(state, tx) /\ Reserved(tx) = base /\ before' = state /\ settled' = settled
  BY MayStart DEF IncludeCall
<1>2. /\ base \in States /\ base.anchors = state.anchors /\ Keeps(base, state, tx)
      /\ SumOf(base.accounts) = Supply - MaxFee
      /\ BalanceOf(base, tx.sender) = BalanceOf(state, tx.sender) - MaxFee
  BY <1>1, BaseKeeps
<1>3. CASE started
  <2>1. /\ state' = base /\ frames' = <<f>>
        /\ current' = [kind |-> "tx", tx |-> tx, proposer |-> proposer]
        /\ UNCHANGED <<events, receipt>>
    BY <1>1, <1>3 DEF IncludeCall
  <2>2. /\ tx.contract \in Contract /\ tx.amount \in Nat /\ Caller(tx) \in Addr
        /\ Runs(base, tx.contract, Caller(tx), tx.amount)
    BY <1>3, TxAssumption, ContractAssumption DEF Caller
  <2>3. tx.kind = "anchor" => tx.epoch > state.anchors[tx.app].epoch
    BY <1>2, <1>3 DEF Anchorable
  <2> HIDE DEF base, f, started
  <2>4. /\ f \in Frames /\ f.view.anchors = base.anchors
        /\ SumOf(f.view.accounts) = SumOf(base.accounts)
        /\ \A a : BalanceOf(f.view, a) >=
                    BalanceOf(base, a) - (IF a = Caller(tx) THEN tx.amount ELSE 0)
    BY <1>2, <2>2, FrameKeeps DEF f
  <2>5. Keeps(f.view, state, tx)
    <3>1. f.view \in States
      BY <2>4 DEF Frames
    <3>2. /\ BalanceOf(f.view, tx.sender) \in Nat /\ BalanceOf(base, tx.sender) \in Nat
          /\ BalanceOf(state, tx.sender) \in Nat /\ MaxFee \in Nat
      BY <1>2, <3>1, BalanceIsNat, FeeAssumption DEF IInv, Typed
    <3>3. BalanceOf(f.view, tx.sender) >= BalanceOf(base, tx.sender) - tx.amount
      <4>1. CASE tx.sender = Caller(tx)
        BY <2>4, <4>1
      <4>2. CASE tx.sender # Caller(tx)
        <5>1. BalanceOf(f.view, tx.sender) >= BalanceOf(base, tx.sender) - 0
          BY <2>4, <4>2
        <5> QED BY <2>2, <3>2, <5>1
      <4> QED BY <4>1, <4>2
    <3> QED BY <1>2, <2>2, <2>4, <3>1, <3>2, <3>3 DEF Keeps
  <2>6. current' \in [kind : {"tx"}, tx : Tx, proposer : Proposer] /\ current' # NoTx
    BY <2>1 DEF NoTx
  <2>7. /\ frames' \in Seq(Frames) /\ Len(frames') = 1 /\ frames' # <<>>
        /\ DOMAIN frames' = {1} /\ frames'[1] = f
    BY <2>1, <2>4
  <2>8. Typed'
    BY <1>1, <1>2, <2>1, <2>6, <2>7, ContractAssumption DEF IInv, Typed
  <2>9. RunsOnBefore'
    <3>1. state' = BaseOf(before', current'.tx) /\ Starts(before', current'.tx)
          /\ current'.tx = tx /\ before' = state
      BY <1>1, <2>1 DEF base
    <3>2. \A i \in DOMAIN frames' : /\ Keeps(frames'[i].view, before', current'.tx)
                                    /\ frames'[i].view.anchors = before'.anchors
      BY <1>2, <2>4, <2>5, <2>7, <3>1
    <3>3. RunsOn(before, current.tx)'
      BY <2>3, <3>1, <3>2 DEF RunsOn
    <3> QED BY <2>6, <3>3 DEF RunsOnBefore
  <2>10. FailureLeavesTheFee' /\ LossIsBounded'
    BY <2>6 DEF FailureLeavesTheFee, LossIsBounded, Done
  <2>11. OutcomeOncePerEpoch'
    BY <1>1, <1>2, <2>1 DEF IInv, OutcomeOncePerEpoch
  <2> QED BY <2>8, <2>9, <2>10, <2>11 DEF IInv
<1>4. CASE ~started
  <2>1. Settle(base, base, <<>>, tx, proposer, FALSE)
    BY <1>1, <1>4 DEF IncludeCall
  <2>2. settled' \in [App -> Nat] /\ \A a \in App : settled'[a] <= state.anchors[a].epoch
    BY <1>1 DEF IInv, Typed, OutcomeOncePerEpoch
  <2> HIDE DEF started
  <2> QED BY <1>1, <1>2, <2>1, <2>2, EndHolds
<1> QED BY <1>3, <1>4

-----------------------------------------------------------------------------
(* The host.                                                               *)

\* The frames of a transaction that runs.
LEMMA RunningFrames ==
  ASSUME IInv, current # NoTx
  PROVE  /\ RunsOn(before, current.tx)
         /\ current.tx \in Tx /\ current.proposer \in Proposer
         /\ Len(frames) \in Nat /\ Len(frames) >= 1 /\ Depth = Len(frames) - 1
         /\ DOMAIN frames = 1 .. Len(frames)
         /\ \A i \in 1 .. Len(frames) : frames[i] \in Frames
         /\ Top \in Frames /\ View \in States /\ Top.contract \in Contract
         /\ Keeps(View, before, current.tx) /\ View.anchors = before.anchors
         /\ Outer \in Seq(Frames) /\ Len(Outer) = Depth
         /\ \A i \in 1 .. Depth : Outer[i] = frames[i]
<1>1. RunsOn(before, current.tx) /\ current.tx \in Tx /\ current.proposer \in Proposer
  BY DEF IInv, Typed, RunsOnBefore
<1>2. frames \in Seq(Frames) /\ frames # <<>>
  BY DEF IInv, Typed
<1>3. /\ Len(frames) \in Nat /\ Len(frames) >= 1 /\ DOMAIN frames = 1 .. Len(frames)
      /\ \A i \in 1 .. Len(frames) : frames[i] \in Frames
      /\ Len(frames) \in 1 .. Len(frames)
  BY <1>2
<1>4. Top \in Frames
  BY <1>3 DEF Top
<1>5. Top.contract \in Contract /\ View \in States
  BY <1>4 DEF Frames, View
<1>6. Keeps(View, before, current.tx) /\ View.anchors = before.anchors
  BY <1>1, <1>3 DEF RunsOn, View, Top
<1>7. Outer \in Seq(Frames) /\ Len(Outer) = Depth /\ \A i \in 1 .. Depth : Outer[i] = frames[i]
  BY <1>2, <1>3 DEF Outer, Depth
<1> QED BY <1>1, <1>3, <1>4, <1>5, <1>6, <1>7 DEF Depth

\* Only the frames change, and they keep what they must.
LEMMA FramesHold ==
  ASSUME IInv, current # NoTx, UNCHANGED <<state, current, before, receipt, settled>>,
         frames' \in Seq(Frames), frames' # <<>>, Len(frames') <= MaxCallDepth + 1,
         \A i \in 1 .. Len(frames') :
           Keeps(frames'[i].view, before, current.tx) /\ frames'[i].view.anchors = before.anchors,
         events' \in Seq(BOOLEAN), Len(events') <= MaxEvents
  PROVE  IInv'
<1>1. Typed'
  BY DEF IInv, Typed
<1>2. RunsOn(before, current.tx)
  BY RunningFrames
<1>3. DOMAIN frames' = 1 .. Len(frames')
  OBVIOUS
<1>4. RunsOn(before, current.tx)'
  BY <1>2, <1>3 DEF RunsOn, Keeps
<1>5. RunsOnBefore'
  BY <1>4 DEF RunsOnBefore
<1>6. FailureLeavesTheFee' /\ LossIsBounded'
  BY DEF FailureLeavesTheFee, LossIsBounded, Done
<1>7. OutcomeOncePerEpoch'
  BY DEF IInv, OutcomeOncePerEpoch
<1> QED BY <1>1, <1>5, <1>6, <1>7 DEF IInv

\* A write to the innermost view that keeps what the view has kept.
LEMMA WriteHolds ==
  ASSUME IInv, current # NoTx, NEW v \in States, v.anchors = View.anchors,
         SumOf(v.accounts) = SumOf(View.accounts),
         BalanceOf(v, current.tx.sender) >= BalanceOf(View, current.tx.sender),
         WriteView(v), UNCHANGED <<state, current, events, before, receipt, settled>>
  PROVE  IInv'
<1> DEFINE top == [Top EXCEPT !.view = v]
           tx  == current.tx
<1>1. /\ RunsOn(before, tx) /\ tx \in Tx /\ Len(frames) \in Nat /\ Len(frames) >= 1
      /\ Depth = Len(frames) - 1 /\ DOMAIN frames = 1 .. Len(frames)
      /\ Top \in Frames /\ View \in States /\ Keeps(View, before, tx)
      /\ View.anchors = before.anchors
      /\ Outer \in Seq(Frames) /\ Len(Outer) = Depth
      /\ \A i \in 1 .. Depth : Outer[i] = frames[i]
  BY RunningFrames
<1>2. top \in Frames /\ top.view = v
  BY <1>1 DEF Frames
<1>3. frames' = Append(Outer, top)
  BY DEF WriteView
<1> HIDE DEF top
<1>4. /\ frames' \in Seq(Frames) /\ frames' # <<>> /\ Len(frames') = Len(frames)
      /\ frames'[Len(frames)] = top
      /\ \A i \in 1 .. Depth : frames'[i] = frames[i]
  BY <1>1, <1>2, <1>3
<1>5. Keeps(v, before, tx)
  <2>1. /\ tx.amount \in Nat /\ MaxFee \in Nat /\ before \in States
    BY <1>1, TxAssumption, FeeAssumption DEF IInv, Typed
  <2>2. /\ BalanceOf(v, tx.sender) \in Nat /\ BalanceOf(View, tx.sender) \in Nat
        /\ BalanceOf(before, tx.sender) \in Nat
    BY <1>1, <2>1, BalanceIsNat
  <2>3. SumOf(v.accounts) = Supply - MaxFee
    BY <1>1 DEF Keeps
  <2>4. BalanceOf(View, tx.sender) >= BalanceOf(before, tx.sender) - MaxFee - tx.amount
    BY <1>1 DEF Keeps
  <2>5. BalanceOf(v, tx.sender) >= BalanceOf(before, tx.sender) - MaxFee - tx.amount
    BY <2>1, <2>2, <2>4
  <2> QED BY <2>3, <2>5 DEF Keeps
<1>6. ASSUME NEW i \in 1 .. Len(frames')
      PROVE  Keeps(frames'[i].view, before, tx) /\ frames'[i].view.anchors = before.anchors
  <2>1. CASE i = Len(frames)
    BY <1>1, <1>2, <1>4, <1>5, <2>1
  <2>2. CASE i \in 1 .. Depth
    <3>1. i \in DOMAIN frames
      BY <1>1, <2>2
    <3> QED BY <1>1, <1>4, <2>2, <3>1 DEF RunsOn
  <2>3. i = Len(frames) \/ i \in 1 .. Depth
    BY <1>1, <1>4
  <2> QED BY <2>1, <2>2, <2>3
<1> QED BY <1>4, <1>6, FramesHold DEF IInv, Typed

LEMMA StorageSetHolds ==
  ASSUME IInv, NEW value \in {0, 1}, StorageSet(value)
  PROVE  IInv'
<1> DEFINE v == [View EXCEPT !.storage[Top.contract] = value]
           w == [View.storage EXCEPT ![Top.contract] = value]
<1>1. /\ current # NoTx /\ WriteView(v)
      /\ UNCHANGED <<state, current, events, before, receipt, settled>>
  BY DEF StorageSet, Running
<1>2. View \in States /\ Top.contract \in Contract
  BY <1>1, RunningFrames
<1>3. v = [View EXCEPT !.storage = w]
  OBVIOUS
<1>4. w \in [Contract -> Nat]
  BY <1>2 DEF States
<1> HIDE DEF w
<1>5. v \in States /\ v.anchors = View.anchors /\ v.accounts = View.accounts
  BY <1>2, <1>3, <1>4 DEF States
<1>6. BalanceOf(v, current.tx.sender) >= BalanceOf(View, current.tx.sender)
  BY <1>2, <1>5, BalanceIsNat DEF BalanceOf
<1> HIDE DEF v
<1> QED BY <1>1, <1>5, <1>6, WriteHolds

LEMMA TransferHolds ==
  ASSUME IInv, NEW to \in Addr, NEW amount \in Amount, Transfer(to, amount)
  PROVE  IInv'
<1> DEFINE v == Move(View, Top.contract, to, amount)
<1>1. /\ current # NoTx /\ WriteView(v) /\ BalanceOf(View, Top.contract) >= amount
      /\ UNCHANGED <<state, current, events, before, receipt, settled>>
  BY DEF Transfer, Running, CanPay
<1>2. /\ View \in States /\ Top.contract \in Contract /\ Top.contract \in Addr
      /\ amount \in Nat /\ current.tx.sender \notin Contract
  BY <1>1, RunningFrames, ContractAssumption, TxAssumption
<1>3. /\ v \in States /\ v.anchors = View.anchors
      /\ SumOf(v.accounts) = SumOf(View.accounts)
      /\ \A a : BalanceOf(v, a) >= BalanceOf(View, a) - (IF a = Top.contract THEN amount ELSE 0)
  BY <1>1, <1>2, MoveKeeps
<1> HIDE DEF v
<1>4. BalanceOf(v, current.tx.sender) >= BalanceOf(View, current.tx.sender)
  <2>1. BalanceOf(v, current.tx.sender) >= BalanceOf(View, current.tx.sender) - 0
    BY <1>2, <1>3
  <2> QED BY <1>2, <2>1, BalanceIsNat
<1> QED BY <1>1, <1>3, <1>4, WriteHolds

LEMMA CallHolds ==
  ASSUME IInv, NEW contract \in Contract, NEW value \in Amount, Call(contract, value)
  PROVE  IInv'
<1> DEFINE f  == Frame(View, contract, Top.contract, value, Len(events))
           tx == current.tx
<1>1. /\ current # NoTx /\ Depth < MaxCallDepth /\ frames' = Append(frames, f)
      /\ Runs(View, contract, Top.contract, value)
      /\ UNCHANGED <<state, current, events, before, receipt, settled>>
  BY DEF Call, Running
<1>2. /\ RunsOn(before, tx) /\ tx \in Tx /\ Len(frames) \in Nat /\ Len(frames) >= 1
      /\ Depth = Len(frames) - 1 /\ DOMAIN frames = 1 .. Len(frames)
      /\ View \in States /\ Top.contract \in Contract /\ Keeps(View, before, tx)
      /\ View.anchors = before.anchors
  BY <1>1, RunningFrames
<1>3. /\ Top.contract \in Addr /\ value \in Nat /\ tx.sender \notin Contract
      /\ Len(events) \in Nat /\ MaxCallDepth \in Nat
      /\ frames \in Seq(Frames) /\ events \in Seq(BOOLEAN) /\ Len(events) <= MaxEvents
  BY <1>2, ContractAssumption, TxAssumption DEF IInv, Typed
<1>4. /\ f \in Frames /\ f.view.anchors = View.anchors
      /\ SumOf(f.view.accounts) = SumOf(View.accounts)
      /\ \A a : BalanceOf(f.view, a) >=
                  BalanceOf(View, a) - (IF a = Top.contract THEN value ELSE 0)
  BY <1>1, <1>2, <1>3, FrameKeeps
<1> HIDE DEF f
<1>5. Keeps(f.view, before, tx)
  <2>1. /\ tx.amount \in Nat /\ MaxFee \in Nat /\ before \in States /\ f.view \in States
    BY <1>2, <1>4, TxAssumption, FeeAssumption DEF IInv, Typed, Frames
  <2>2. /\ BalanceOf(f.view, tx.sender) \in Nat /\ BalanceOf(View, tx.sender) \in Nat
        /\ BalanceOf(before, tx.sender) \in Nat
    BY <1>2, <2>1, BalanceIsNat
  <2>3. BalanceOf(f.view, tx.sender) >= BalanceOf(View, tx.sender) - 0
    BY <1>2, <1>3, <1>4
  <2>4. BalanceOf(View, tx.sender) >= BalanceOf(before, tx.sender) - MaxFee - tx.amount
    BY <1>2 DEF Keeps
  <2>5. BalanceOf(f.view, tx.sender) >= BalanceOf(before, tx.sender) - MaxFee - tx.amount
    BY <2>1, <2>2, <2>3, <2>4
  <2>6. SumOf(f.view.accounts) = Supply - MaxFee
    BY <1>2, <1>4 DEF Keeps
  <2> QED BY <2>1, <2>5, <2>6 DEF Keeps
<1>6. /\ frames' \in Seq(Frames) /\ frames' # <<>> /\ Len(frames') = Len(frames) + 1
      /\ frames'[Len(frames) + 1] = f
      /\ \A i \in 1 .. Len(frames) : frames'[i] = frames[i]
  BY <1>1, <1>3, <1>4
<1>7. Len(frames') <= MaxCallDepth + 1
  BY <1>1, <1>2, <1>3, <1>6
<1>8. ASSUME NEW i \in 1 .. Len(frames')
      PROVE  Keeps(frames'[i].view, before, tx) /\ frames'[i].view.anchors = before.anchors
  <2>1. CASE i = Len(frames) + 1
    BY <1>2, <1>4, <1>5, <1>6, <2>1
  <2>2. CASE i \in 1 .. Len(frames)
    BY <1>2, <1>6, <2>2 DEF RunsOn
  <2>3. i = Len(frames) + 1 \/ i \in 1 .. Len(frames)
    BY <1>2, <1>6
  <2> QED BY <2>1, <2>2, <2>3
<1> QED BY <1>1, <1>3, <1>6, <1>7, <1>8, FramesHold

LEMMA EmitHolds ==
  ASSUME IInv, Emit
  PROVE  IInv'
<1>1. /\ current # NoTx /\ Len(events) < MaxEvents /\ events' = Append(events, FALSE)
      /\ UNCHANGED <<state, frames, current, before, receipt, settled>>
  BY DEF Emit, Running
<1>2. events' \in Seq(BOOLEAN) /\ Len(events') <= MaxEvents
  BY <1>1, ContractAssumption DEF IInv, Typed
<1>3. frames \in Seq(Frames) /\ frames # <<>> /\ Len(frames) <= MaxCallDepth + 1
  BY <1>1 DEF IInv, Typed
<1>4. \A i \in 1 .. Len(frames) :
         Keeps(frames[i].view, before, current.tx) /\ frames[i].view.anchors = before.anchors
  BY <1>1, RunningFrames DEF RunsOn
<1> QED BY <1>1, <1>2, <1>3, <1>4, FramesHold

-----------------------------------------------------------------------------
(* The end of a contract's run.                                            *)

\* The outermost call is over.
LEMMA EndCallHolds ==
  ASSUME IInv, current # NoTx, NEW succeeds \in BOOLEAN, EndCall(succeeds), before' = before
  PROVE  IInv'
<1> DEFINE tx == current.tx
<1>1. /\ RunsOn(before, tx) /\ tx \in Tx /\ current.proposer \in Proposer
      /\ View \in States /\ Keeps(View, before, tx) /\ View.anchors = before.anchors
  BY RunningFrames
<1>2. Starts(before, tx) /\ state = BaseOf(before, tx)
  BY <1>1 DEF RunsOn
<1>3. /\ settled \in [App -> Nat] /\ before \in States
      /\ state.anchors = before.anchors
      /\ \A a \in App : settled[a] <= before.anchors[a].epoch
  BY <1>2, BaseKeeps DEF IInv, Typed, OutcomeOncePerEpoch
<1>4. CASE tx.kind = "anchor" /\ succeeds
  <2> DEFINE view == Anchored(View, tx)
  <2>1. /\ Settle(state, view, WithOwn(events, tx), tx, current.proposer, TRUE)
        /\ settled' = [settled EXCEPT ![tx.app] = settled[tx.app] + 1]
    BY <1>4 DEF EndCall
  <2>2. /\ tx.epoch > before.anchors[tx.app].epoch /\ tx.app \in App /\ tx.epoch \in Nat
    BY <1>1, <1>4, TxAssumption DEF RunsOn
  <2>3. /\ view \in States /\ view.accounts = View.accounts
        /\ view.anchors[tx.app].epoch = tx.epoch
        /\ \A a \in App : a # tx.app => view.anchors[a] = View.anchors[a]
    BY <1>1, AnchoredKeeps
  <2> HIDE DEF view
  <2>4. Keeps(view, before, tx)
    BY <1>1, <2>3 DEF Keeps, BalanceOf
  <2>5. ASSUME NEW a \in App PROVE settled'[a] <= view.anchors[a].epoch
    <3>1. settled[a] \in Nat /\ before.anchors[a].epoch \in Nat
      BY <1>3 DEF States
    <3>2. CASE a = tx.app
      <4>1. settled'[a] = settled[a] + 1
        BY <1>3, <2>1, <3>2
      <4> QED BY <1>3, <2>2, <2>3, <3>1, <3>2, <4>1
    <3>3. CASE a # tx.app
      <4>1. settled'[a] = settled[a] /\ view.anchors[a] = before.anchors[a]
        BY <1>1, <1>3, <2>1, <2>3, <3>3
      <4> QED BY <1>3, <4>1
    <3> QED BY <3>2, <3>3
  <2>6. settled' \in [App -> Nat]
    BY <1>3, <2>1, <2>2
  <2>7. Settle(BaseOf(before, tx), view, WithOwn(events, tx), tx, current.proposer, TRUE)
    BY <1>2, <2>1
  <2> HIDE DEF tx
  <2> QED BY <1>1, <1>2, <2>4, <2>5, <2>6, <2>7, EndHolds
<1>5. CASE ~(tx.kind = "anchor" /\ succeeds)
  <2>1. Settle(BaseOf(before, tx), View, events, tx, current.proposer, succeeds) /\ settled' = settled
    BY <1>2, <1>5 DEF EndCall
  <2>2. \A a \in App : settled'[a] <= (IF succeeds THEN View ELSE before).anchors[a].epoch
    BY <1>1, <1>3, <2>1
  <2>3. settled' \in [App -> Nat]
    BY <1>3, <2>1
  <2> HIDE DEF tx
  <2> QED BY <1>1, <1>2, <2>1, <2>2, <2>3, EndHolds
<1> QED BY <1>4, <1>5

\* A sequence with one element replaced.
LEMMA SequenceWith ==
  ASSUME NEW S, NEW s \in Seq(S), NEW n \in 1 .. Len(s), NEW x \in S,
         NEW t, t = [s EXCEPT ![n] = x]
  PROVE  /\ t \in Seq(S) /\ Len(t) = Len(s) /\ t[n] = x
         /\ \A i \in 1 .. Len(s) : i # n => t[i] = s[i]
<1>1. Len(s) \in Nat /\ DOMAIN s = 1 .. Len(s) /\ \A i \in 1 .. Len(s) : s[i] \in S
  OBVIOUS
<1>2. t \in [1 .. Len(s) -> S] /\ t[n] = x /\ \A i \in 1 .. Len(s) : i # n => t[i] = s[i]
  <2>1. s \in [1 .. Len(s) -> S]
    BY <1>1
  <2> QED BY <2>1
<1>3. t \in Seq(S)
  BY <1>1, <1>2
<1>4. Len(t) = Len(s)
  BY <1>1, <1>2, <1>3
<1> QED BY <1>2, <1>3, <1>4

\* An inner call returns: its caller's view is its own.
LEMMA ReturnHolds ==
  ASSUME IInv, Return
  PROVE  IInv'
<1>1. current # NoTx /\ before' = before
  BY DEF Return
<1>2. CASE Depth = 0
  BY <1>1, <1>2, EndCallHolds DEF Return
<1>3. CASE Depth # 0
  <2> DEFINE f  == [Outer[Depth] EXCEPT !.view = View]
             tx == current.tx
  <2>1. /\ frames' = [Outer EXCEPT ![Depth].view = View]
        /\ UNCHANGED <<state, current, events, receipt, settled>>
    BY <1>3 DEF Return
  <2>2. /\ RunsOn(before, tx) /\ Len(frames) \in Nat /\ Len(frames) >= 1
        /\ Depth = Len(frames) - 1 /\ DOMAIN frames = 1 .. Len(frames)
        /\ \A i \in 1 .. Len(frames) : frames[i] \in Frames
        /\ View \in States /\ Keeps(View, before, tx) /\ View.anchors = before.anchors
        /\ Outer \in Seq(Frames) /\ Len(Outer) = Depth
        /\ \A i \in 1 .. Depth : Outer[i] = frames[i]
    BY <1>1, RunningFrames
  <2>3. Depth \in 1 .. Depth /\ Depth \in Nat
    BY <1>3, <2>2
  <2>4. frames' = [Outer EXCEPT ![Depth] = f]
    BY <2>1
  <2>5. f \in Frames /\ f.view = View
    <3>1. Outer[Depth] \in Frames
      BY <2>2, <2>3
    <3> QED BY <2>2, <3>1 DEF Frames
  <2> HIDE DEF f
  <2>6. /\ frames' \in Seq(Frames) /\ Len(frames') = Depth
        /\ frames'[Depth] = f
        /\ \A i \in 1 .. Depth : i # Depth => frames'[i] = frames[i]
    BY <2>2, <2>3, <2>4, <2>5, SequenceWith
  <2>7. frames' # <<>> /\ Len(frames') <= MaxCallDepth + 1
    <3>1. Len(frames) <= MaxCallDepth + 1 /\ MaxCallDepth \in Nat
      BY ContractAssumption DEF IInv, Typed
    <3>2. Len(frames') <= MaxCallDepth + 1
      BY <2>2, <2>6, <3>1
    <3>3. frames' # <<>>
      BY <1>3, <2>6
    <3> QED BY <3>2, <3>3
  <2>8. ASSUME NEW i \in 1 .. Len(frames')
        PROVE  Keeps(frames'[i].view, before, tx) /\ frames'[i].view.anchors = before.anchors
    <3>1. CASE i = Depth
      BY <2>2, <2>5, <2>6, <3>1
    <3>2. CASE i # Depth
      <4>1. i \in 1 .. Depth
        BY <2>6
      <4>2. frames'[i] = frames[i]
        BY <2>6, <3>2, <4>1
      <4>3. i \in DOMAIN frames
        BY <2>2, <4>1
      <4> QED BY <2>2, <4>2, <4>3 DEF RunsOn
    <3> QED BY <3>1, <3>2
  <2>9. events' \in Seq(BOOLEAN) /\ Len(events') <= MaxEvents
    BY <2>1 DEF IInv, Typed
  <2> QED BY <1>1, <2>1, <2>6, <2>7, <2>8, <2>9, FramesHold
<1> QED BY <1>2, <1>3

LEMMA FailHolds ==
  ASSUME IInv, NEW meter \in BOOLEAN, Fail(meter)
  PROVE  IInv'
<1>1. current # NoTx /\ before' = before
  BY DEF Fail
<1>2. CASE Depth = 0
  BY <1>1, <1>2, EndCallHolds DEF Fail
<1>3. CASE Depth # 0
  <2>1. /\ frames' = Outer
        /\ events' = [i \in DOMAIN events |-> events[i] \/ i > Top.mark]
        /\ UNCHANGED <<state, current, receipt, settled>>
    BY <1>3 DEF Fail
  <2>2. /\ RunsOn(before, current.tx) /\ Len(frames) \in Nat /\ Len(frames) >= 1
        /\ Depth = Len(frames) - 1 /\ DOMAIN frames = 1 .. Len(frames)
        /\ Outer \in Seq(Frames) /\ Len(Outer) = Depth
        /\ \A i \in 1 .. Depth : Outer[i] = frames[i]
    BY <1>1, RunningFrames
  <2>3. frames' # <<>> /\ Len(frames') <= MaxCallDepth + 1
    <3>1. Len(frames) <= MaxCallDepth + 1 /\ MaxCallDepth \in Nat
      BY ContractAssumption DEF IInv, Typed
    <3>2. Len(frames') <= MaxCallDepth + 1
      BY <2>1, <2>2, <3>1
    <3>3. frames' # <<>>
      BY <1>3, <2>1, <2>2
    <3> QED BY <3>2, <3>3
  <2>4. ASSUME NEW i \in 1 .. Len(frames')
        PROVE  /\ Keeps(frames'[i].view, before, current.tx)
               /\ frames'[i].view.anchors = before.anchors
    <3>1. i \in DOMAIN frames /\ frames'[i] = frames[i]
      BY <2>1, <2>2
    <3> QED BY <2>2, <3>1 DEF RunsOn
  <2>5. events' \in Seq(BOOLEAN) /\ Len(events') <= MaxEvents
    <3>1. events \in Seq(BOOLEAN) /\ Len(events) <= MaxEvents
      BY DEF IInv, Typed
    <3>2. events' \in [1 .. Len(events) -> BOOLEAN]
      <4>1. DOMAIN events = 1 .. Len(events)
        BY <3>1
      <4>2. \A i \in DOMAIN events : (events[i] \/ i > Top.mark) \in BOOLEAN
        BY Zenon
      <4> QED BY <2>1, <4>1, <4>2
    <3>3. Len(events) \in Nat
      BY <3>1
    <3> QED BY <3>1, <3>2, <3>3
  <2>6. frames' \in Seq(Frames)
    BY <2>1, <2>2
  <2> QED BY <1>1, <2>1, <2>3, <2>4, <2>5, <2>6, FramesHold
<1> QED BY <1>2, <1>3

LEMMA UnchangedHolds ==
  ASSUME IInv, UNCHANGED vars
  PROVE  IInv'
<1> USE DEF vars
<1>1. Typed' /\ RunsOnBefore'
  BY DEF IInv, Typed, RunsOnBefore, RunsOn
<1>2. FailureLeavesTheFee' /\ LossIsBounded' /\ OutcomeOncePerEpoch'
  BY DEF IInv, FailureLeavesTheFee, LossIsBounded, OutcomeOncePerEpoch, Done
<1> QED BY <1>1, <1>2 DEF IInv

LEMMA StepHolds == IInv /\ [Next]_vars => IInv'
<1> SUFFICES ASSUME IInv, [Next]_vars PROVE IInv'
  OBVIOUS
<1>1. CASE \E tx \in Tx, proposer \in Proposer :
             IncludePlain(tx, proposer) \/ IncludeCall(tx, proposer)
  BY <1>1, IncludePlainHolds, IncludeCallHolds
<1>2. CASE \E value \in {0, 1} : StorageSet(value)
  BY <1>2, StorageSetHolds
<1>3. CASE \E to \in Addr, amount \in Amount : Transfer(to, amount)
  BY <1>3, TransferHolds
<1>4. CASE Emit
  BY <1>4, EmitHolds
<1>5. CASE \E contract \in Contract, value \in Amount : Call(contract, value)
  BY <1>5, CallHolds
<1>6. CASE Return
  BY <1>6, ReturnHolds
<1>7. CASE \E meter \in BOOLEAN : Fail(meter)
  BY <1>7, FailHolds
<1>8. CASE UNCHANGED vars
  BY <1>8, UnchangedHolds
<1> QED BY <1>1, <1>2, <1>3, <1>4, <1>5, <1>6, <1>7, <1>8 DEF Next

-----------------------------------------------------------------------------
(* The theorems.                                                           *)

\* Whatever contracts run, pay, call and fail, at any depth: the balances of the
\* block's state and of every view add up to the genesis, less the reserve while a
\* transaction runs, and no balance is negative in any of them.
THEOREM ContractsConserve == Spec => []Conserved
<1>1. IInv => Conserved
  BY TypesAndSums DEF IInv
<1> QED BY <1>1, InitHolds, StepHolds, PTL DEF Spec

\* Whatever a transaction that fails has run before, all that is left of it is the
\* fee, which its sender has paid to the proposer, and the nonce that it used up.
THEOREM FailuresLeaveTheFee == Spec => []FailureLeavesTheFee
<1>1. IInv => FailureLeavesTheFee
  BY DEF IInv
<1> QED BY <1>1, InitHolds, StepHolds, PTL DEF Spec

\* A sender loses no more than the fee and the value that it attached, whatever the
\* contracts that its transaction runs do: they pay out of their own accounts.
THEOREM LossesAreBounded == Spec => []LossIsBounded
<1>1. IInv => LossIsBounded
  BY DEF IInv
<1> QED BY <1>1, InitHolds, StepHolds, PTL DEF Spec

\* No more outcome calls of an app have taken effect than its epoch has advanced:
\* an anchor's epoch is checked before its outcome call and written after it, and
\* nothing that runs in between changes it.
THEOREM OutcomesOncePerEpoch == Spec => []OutcomeOncePerEpoch
<1>1. IInv => OutcomeOncePerEpoch
  BY DEF IInv
<1> QED BY <1>1, InitHolds, StepHolds, PTL DEF Spec
=============================================================================
