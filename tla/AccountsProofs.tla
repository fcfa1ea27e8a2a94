----------------------------- MODULE AccountsProofs -----------------------------
(***************************************************************************)
(* What every transaction does to the sum of the balances: nothing.  First *)
(* what crediting and charging an account add to the sum, then             *)
(* applyTransaction.                                                       *)
(***************************************************************************)
EXTENDS Accounts, FoldProofs, FiniteSetTheorems, TLAPS

-----------------------------------------------------------------------------
(* Accounts.                                                               *)

\* Finitely many accounts, none of them overdrawn.
Solvent(accounts) ==
  /\ IsFiniteSet(DOMAIN accounts)
  /\ \A a \in DOMAIN accounts : accounts[a] \in [balance : Nat, nonce : Nat]

\* The account of anyone is an account, and setting one sets no other.
LEMMA AccountOf ==
  ASSUME NEW accounts, Solvent(accounts), NEW a
  PROVE  Account(accounts, a) \in [balance : Nat, nonce : Nat]
BY DEF Solvent, Account, EmptyAccount

LEMMA AccountAfter ==
  ASSUME NEW accounts, NEW a, NEW account, NEW b
  PROVE  Account(SetAccount(accounts, a, account), b) =
           IF b = a THEN account ELSE Account(accounts, b)
BY DEF SetAccount, Account

LEMMA SumOfBalances ==
  ASSUME NEW accounts, Solvent(accounts)
  PROVE  SumOf(accounts) \in Nat
<1>1. \A a \in DOMAIN accounts : BalancesOf(accounts)[a] \in Nat
  BY DEF BalancesOf, Solvent
<1>2. IsFiniteSet(DOMAIN BalancesOf(accounts)) /\ DOMAIN BalancesOf(accounts) = DOMAIN accounts
  BY DEF BalancesOf, Solvent
<1> QED BY <1>1, <1>2, SumIsNat DEF SumOf, SumFunction

\* Setting an account changes the sum by what it changes the account.
LEMMA SumAfterSet ==
  ASSUME NEW accounts, Solvent(accounts), NEW a,
         NEW account \in [balance : Nat, nonce : Nat]
  PROVE  /\ Solvent(SetAccount(accounts, a, account))
         /\ SumOf(SetAccount(accounts, a, account)) =
              SumOf(accounts) + account.balance - Account(accounts, a).balance
<1> DEFINE after == SetAccount(accounts, a, account)
           f     == BalancesOf(accounts)
           g     == BalancesOf(after)
           D     == DOMAIN accounts
           rest  == SumFunctionOnSet(f, D \ {a})
<1>1. DOMAIN after = D \cup {a} /\ \A x \in D \cup {a} : after[x] = IF x = a THEN account ELSE accounts[x]
  BY DEF SetAccount
<1>2. Solvent(after)
  <2>1. IsFiniteSet(D \cup {a})
    BY FS_AddElement DEF Solvent
  <2> QED BY <1>1, <2>1 DEF Solvent
<1>3. /\ DOMAIN f = D /\ DOMAIN g = D \cup {a}
      /\ \A x \in D : f[x] \in Nat /\ f[x] = accounts[x].balance
      /\ \A x \in D \cup {a} : g[x] \in Nat
      /\ g[a] = account.balance
      /\ \A x \in D \ {a} : g[x] = f[x]
  BY <1>1, <1>2 DEF BalancesOf, Solvent
<1>4. IsFiniteSet(D) /\ IsFiniteSet(D \cup {a}) /\ IsFiniteSet(D \ {a})
  BY FS_AddElement, FS_Subset DEF Solvent
<1> HIDE DEF after, f, g, D
<1>5. SumFunction(g) = account.balance + rest
  <2>1. SumFunctionOnSet(g, D \cup {a}) = g[a] + SumFunctionOnSet(g, (D \cup {a}) \ {a})
    BY <1>3, <1>4, SumLess
  <2>2. (D \cup {a}) \ {a} = D \ {a}
    OBVIOUS
  <2>3. SumFunctionOnSet(g, D \ {a}) = SumFunctionOnSet(f, D \ {a})
    BY <1>3, <1>4, SumsAgree
  <2> QED BY <1>3, <2>1, <2>2, <2>3 DEF SumFunction
<1>6. rest \in Nat
  BY <1>3, <1>4, SumIsNat
<1>7. SumFunction(f) = Account(accounts, a).balance + rest
  <2>1. CASE a \in D
    <3>1. SumFunctionOnSet(f, D) = f[a] + SumFunctionOnSet(f, D \ {a})
      BY <1>3, <1>4, <2>1, SumLess
    <3>2. Account(accounts, a).balance = f[a]
      BY <1>3, <2>1 DEF Account, D
    <3> QED BY <1>3, <3>1, <3>2 DEF SumFunction
  <2>2. CASE a \notin D
    <3>1. D \ {a} = D /\ Account(accounts, a).balance = 0
      BY <2>2 DEF Account, EmptyAccount, D
    <3> QED BY <1>3, <1>6, <3>1 DEF SumFunction
  <2> QED BY <2>1, <2>2
<1>8. account.balance \in Nat /\ Account(accounts, a).balance \in Nat
  BY AccountOf
<1>9. SumOf(accounts) = SumFunction(f) /\ SumOf(after) = SumFunction(g)
  BY DEF SumOf, f, g
<1>10. SumOf(after) = SumOf(accounts) + account.balance - Account(accounts, a).balance
  <2> HIDE DEF rest
  <2>1. account.balance + rest = (Account(accounts, a).balance + rest) + account.balance - Account(accounts, a).balance
    BY <1>6, <1>8
  <2> QED BY <1>5, <1>7, <1>9, <2>1
<1> QED BY <1>2, <1>10 DEF after

\* Crediting adds the amount, and charging takes it, as long as the account has it.
LEMMA CreditAdds ==
  ASSUME NEW accounts, Solvent(accounts), NEW a, NEW amount \in Int,
         Account(accounts, a).balance + amount >= 0
  PROVE  /\ Solvent(Credit(accounts, a, amount))
         /\ SumOf(Credit(accounts, a, amount)) = SumOf(accounts) + amount
         /\ Account(Credit(accounts, a, amount), a).balance = Account(accounts, a).balance + amount
         /\ Account(Credit(accounts, a, amount), a).nonce = Account(accounts, a).nonce
         /\ \A b : b # a => Account(Credit(accounts, a, amount), b) = Account(accounts, b)
<1> DEFINE old == Account(accounts, a)
           new == [old EXCEPT !.balance = @ + amount]
<1>1. old \in [balance : Nat, nonce : Nat]
  BY AccountOf
<1>2. new \in [balance : Nat, nonce : Nat] /\ new.balance = old.balance + amount /\ new.nonce = old.nonce
  BY <1>1
<1>3. Credit(accounts, a, amount) = SetAccount(accounts, a, new)
  BY DEF Credit
<1>4. old.balance \in Nat /\ SumOf(accounts) \in Nat
  BY <1>1, SumOfBalances
<1> HIDE DEF old, new
<1>5. /\ Solvent(SetAccount(accounts, a, new))
      /\ SumOf(SetAccount(accounts, a, new)) = SumOf(accounts) + new.balance - old.balance
  BY <1>2, SumAfterSet DEF old
<1>6. SumOf(accounts) + (old.balance + amount) - old.balance = SumOf(accounts) + amount
  BY <1>4
<1>7. Account(SetAccount(accounts, a, new), a) = new
  BY AccountAfter
<1>8. \A b : b # a => Account(SetAccount(accounts, a, new), b) = Account(accounts, b)
  BY AccountAfter
<1> QED BY <1>2, <1>3, <1>5, <1>6, <1>7, <1>8 DEF old

LEMMA ChargeTakes ==
  ASSUME NEW accounts, Solvent(accounts), NEW a, NEW amount \in Nat,
         Account(accounts, a).balance >= amount
  PROVE  /\ Solvent(Charge(accounts, a, amount))
         /\ SumOf(Charge(accounts, a, amount)) = SumOf(accounts) - amount
         /\ Account(Charge(accounts, a, amount), a).balance = Account(accounts, a).balance - amount
         /\ Account(Charge(accounts, a, amount), a).nonce = Account(accounts, a).nonce + 1
         /\ \A b : b # a => Account(Charge(accounts, a, amount), b) = Account(accounts, b)
<1> DEFINE old == Account(accounts, a)
           new == [balance |-> old.balance - amount, nonce |-> old.nonce + 1]
<1>1. old \in [balance : Nat, nonce : Nat]
  BY AccountOf
<1>2. new \in [balance : Nat, nonce : Nat] /\ new.balance = old.balance - amount /\ new.nonce = old.nonce + 1
  BY <1>1
<1>3. Charge(accounts, a, amount) = SetAccount(accounts, a, new)
  BY DEF Charge
<1>4. old.balance \in Nat /\ SumOf(accounts) \in Nat
  BY <1>1, SumOfBalances
<1> HIDE DEF old, new
<1>5. /\ Solvent(SetAccount(accounts, a, new))
      /\ SumOf(SetAccount(accounts, a, new)) = SumOf(accounts) + new.balance - old.balance
  BY <1>2, SumAfterSet DEF old
<1>6. SumOf(accounts) + (old.balance - amount) - old.balance = SumOf(accounts) - amount
  BY <1>4
<1>7. Account(SetAccount(accounts, a, new), a) = new
  BY AccountAfter
<1>8. \A b : b # a => Account(SetAccount(accounts, a, new), b) = Account(accounts, b)
  BY AccountAfter
<1> QED BY <1>2, <1>3, <1>5, <1>6, <1>7, <1>8 DEF old

-----------------------------------------------------------------------------
(* Transactions.                                                           *)

\* What an includable transaction must not do: make or lose money, overdraw an
\* account, or use up a nonce that is not its sender's next one.
Fair(accounts, after, sender) ==
  /\ Solvent(after) /\ SumOf(after) = SumOf(accounts)
  /\ \A a : Account(after, a).nonce =
              IF a = sender THEN Account(accounts, a).nonce + 1 ELSE Account(accounts, a).nonce

\* Money that is there may move, whoever pays and is paid.
LEMMA MoveIsFair ==
  ASSUME NEW accounts, Solvent(accounts), NEW from, NEW to, NEW amount \in Nat,
         Account(accounts, from).balance >= amount
  PROVE  LET after == Credit(Credit(accounts, from, -amount), to, amount) IN
         /\ Solvent(after) /\ SumOf(after) = SumOf(accounts)
         /\ \A a : Account(after, a).nonce = Account(accounts, a).nonce
<1> DEFINE paid == Credit(accounts, from, -amount)
<1>1. -amount \in Int /\ Account(accounts, from).balance + (-amount) >= 0
  <2>1. Account(accounts, from).balance \in Nat
    BY AccountOf
  <2> QED BY <2>1
<1>2. /\ Solvent(paid) /\ SumOf(paid) = SumOf(accounts) + (-amount)
      /\ \A a : Account(paid, a).nonce = Account(accounts, a).nonce
  <2>1. /\ Solvent(paid) /\ SumOf(paid) = SumOf(accounts) + (-amount)
        /\ Account(paid, from).nonce = Account(accounts, from).nonce
        /\ \A a : a # from => Account(paid, a) = Account(accounts, a)
    BY <1>1, CreditAdds
  <2> QED BY <2>1
<1> HIDE DEF paid
<1>3. Account(paid, to).balance + amount >= 0 /\ amount \in Int
  <2>1. Account(paid, to).balance \in Nat
    BY <1>2, AccountOf
  <2> QED BY <2>1
<1>4. /\ Solvent(Credit(paid, to, amount))
      /\ SumOf(Credit(paid, to, amount)) = SumOf(paid) + amount
      /\ Account(Credit(paid, to, amount), to).nonce = Account(paid, to).nonce
      /\ \A a : a # to => Account(Credit(paid, to, amount), a) = Account(paid, a)
  BY <1>2, <1>3, CreditAdds
<1>5. (SumOf(accounts) + (-amount)) + amount = SumOf(accounts)
  BY SumOfBalances
<1> QED BY <1>2, <1>4, <1>5 DEF paid

\* What the recipients get, the sender being charged for it.
LEMMA PaymentIsFair ==
  ASSUME NEW accounts, Solvent(accounts), NEW from, NEW to, NEW amount \in Nat,
         NEW proposer, NEW fee \in Nat,
         Account(accounts, from).balance >= fee + amount
  PROVE  Fair(accounts,
              Credit(Credit(Charge(accounts, from, fee + amount), to, amount), proposer, fee), from)
<1> DEFINE paid == Charge(accounts, from, fee + amount)
           got  == Credit(paid, to, amount)
           last == Credit(got, proposer, fee)
<1>1. /\ Solvent(paid) /\ SumOf(paid) = SumOf(accounts) - (fee + amount)
      /\ Account(paid, from).nonce = Account(accounts, from).nonce + 1
      /\ \A a : a # from => Account(paid, a) = Account(accounts, a)
  <2>1. fee + amount \in Nat
    OBVIOUS
  <2> QED BY <2>1, ChargeTakes
<1> HIDE DEF paid
<1>2. /\ Solvent(got) /\ SumOf(got) = SumOf(paid) + amount
      /\ \A a : Account(got, a).nonce = Account(paid, a).nonce
  <2>1. Account(paid, to).balance + amount >= 0 /\ amount \in Int
    <3>1. Account(paid, to).balance \in Nat
      BY <1>1, AccountOf
    <3> QED BY <3>1
  <2>2. /\ Solvent(got) /\ SumOf(got) = SumOf(paid) + amount
        /\ Account(got, to).nonce = Account(paid, to).nonce
        /\ \A a : a # to => Account(got, a) = Account(paid, a)
    BY <1>1, <2>1, CreditAdds
  <2> QED BY <2>2
<1> HIDE DEF got
<1>3. /\ Solvent(last) /\ SumOf(last) = SumOf(got) + fee
      /\ \A a : Account(last, a).nonce = Account(got, a).nonce
  <2>1. Account(got, proposer).balance + fee >= 0 /\ fee \in Int
    <3>1. Account(got, proposer).balance \in Nat
      BY <1>2, AccountOf
    <3> QED BY <3>1
  <2>2. /\ Solvent(last) /\ SumOf(last) = SumOf(got) + fee
        /\ Account(last, proposer).nonce = Account(got, proposer).nonce
        /\ \A a : a # proposer => Account(last, a) = Account(got, a)
    BY <1>2, <2>1, CreditAdds
  <2> QED BY <2>2
<1> HIDE DEF last
<1>4. SumOf(last) = SumOf(accounts)
  <2>1. ((SumOf(accounts) - (fee + amount)) + amount) + fee = SumOf(accounts)
    BY SumOfBalances
  <2> QED BY <1>1, <1>2, <1>3, <2>1
<1>5. \A a : Account(last, a).nonce =
               IF a = from THEN Account(accounts, a).nonce + 1 ELSE Account(accounts, a).nonce
  BY <1>1, <1>2, <1>3
<1>6. Fair(accounts, last, from)
  BY <1>3, <1>4, <1>5 DEF Fair
<1> QED BY <1>6 DEF last, got, paid

\* A transfer that cannot pay its amount pays its fee, and that is all.
LEMMA TransferIsFair ==
  ASSUME NEW accounts, Solvent(accounts), NEW tx, tx.amount \in Nat, tx.kind = "transfer",
         Includable(accounts, tx), NEW proposer
  PROVE  Fair(accounts, ApplyTransfer(accounts, tx, proposer), tx.sender)
<1>1. Fee \in Nat /\ Account(accounts, tx.sender).balance \in Nat
  BY FeeAssumption, AccountOf
<1>2. CASE Succeeds(accounts, tx)
  <2>1. Account(accounts, tx.sender).balance >= Fee + tx.amount
    BY <1>1, <1>2 DEF Succeeds
  <2>2. ApplyTransfer(accounts, tx, proposer) =
          Credit(Credit(Charge(accounts, tx.sender, Fee + tx.amount), tx.to, tx.amount), proposer, Fee)
    BY <1>2 DEF ApplyTransfer
  <2> QED BY <1>1, <2>1, <2>2, PaymentIsFair
<1>3. CASE ~Succeeds(accounts, tx)
  <2> DEFINE paid == Charge(accounts, tx.sender, Fee)
             last == Credit(paid, proposer, Fee)
  <2>1. Account(accounts, tx.sender).balance >= Fee
    BY DEF Includable, Required
  <2>2. /\ Solvent(paid) /\ SumOf(paid) = SumOf(accounts) - Fee
        /\ Account(paid, tx.sender).nonce = Account(accounts, tx.sender).nonce + 1
        /\ \A a : a # tx.sender => Account(paid, a) = Account(accounts, a)
    BY <1>1, <2>1, ChargeTakes
  <2> HIDE DEF paid
  <2>3. Account(paid, proposer).balance + Fee >= 0 /\ Fee \in Int
    <3>1. Account(paid, proposer).balance \in Nat
      BY <2>2, AccountOf
    <3> QED BY <1>1, <3>1
  <2>4. /\ Solvent(last) /\ SumOf(last) = SumOf(paid) + Fee
        /\ Account(last, proposer).nonce = Account(paid, proposer).nonce
        /\ \A a : a # proposer => Account(last, a) = Account(paid, a)
    BY <2>2, <2>3, CreditAdds
  <2> HIDE DEF last
  <2>5. (SumOf(accounts) - Fee) + Fee = SumOf(accounts)
    BY <1>1, SumOfBalances
  <2>6. Fair(accounts, last, tx.sender)
    BY <2>2, <2>4, <2>5 DEF Fair
  <2>7. ApplyTransfer(accounts, tx, proposer) = last
    BY <1>3 DEF ApplyTransfer, last, paid
  <2> QED BY <2>6, <2>7
<1> QED BY <1>2, <1>3

\* The end of a transaction that reserved the maximal fee: the refund, the fee.
LEMMA SettlingGivesBack ==
  ASSUME NEW accounts, Solvent(accounts), NEW a, NEW proposer, NEW fee \in Nat, fee <= MaxFee
  PROVE  LET after == Credit(Credit(accounts, a, MaxFee - fee), proposer, fee) IN
         /\ Solvent(after) /\ SumOf(after) = SumOf(accounts) + MaxFee
         /\ \A b : Account(after, b).nonce = Account(accounts, b).nonce
<1> DEFINE refunded == Credit(accounts, a, MaxFee - fee)
           last     == Credit(refunded, proposer, fee)
<1>1. MaxFee \in Nat /\ MaxFee - fee \in Nat
  BY FeeAssumption
<1>2. /\ Solvent(refunded) /\ SumOf(refunded) = SumOf(accounts) + (MaxFee - fee)
      /\ \A b : Account(refunded, b).nonce = Account(accounts, b).nonce
  <2>1. Account(accounts, a).balance + (MaxFee - fee) >= 0 /\ MaxFee - fee \in Int
    <3>1. Account(accounts, a).balance \in Nat
      BY AccountOf
    <3> QED BY <1>1, <3>1
  <2>2. /\ Solvent(refunded) /\ SumOf(refunded) = SumOf(accounts) + (MaxFee - fee)
        /\ Account(refunded, a).nonce = Account(accounts, a).nonce
        /\ \A b : b # a => Account(refunded, b) = Account(accounts, b)
    BY <2>1, CreditAdds
  <2> QED BY <2>2
<1> HIDE DEF refunded
<1>3. /\ Solvent(last) /\ SumOf(last) = SumOf(refunded) + fee
      /\ \A b : Account(last, b).nonce = Account(refunded, b).nonce
  <2>1. Account(refunded, proposer).balance + fee >= 0 /\ fee \in Int
    <3>1. Account(refunded, proposer).balance \in Nat
      BY <1>2, AccountOf
    <3> QED BY <3>1
  <2>2. /\ Solvent(last) /\ SumOf(last) = SumOf(refunded) + fee
        /\ Account(last, proposer).nonce = Account(refunded, proposer).nonce
        /\ \A b : b # proposer => Account(last, b) = Account(refunded, b)
    BY <1>2, <2>1, CreditAdds
  <2> QED BY <2>2
<1>4. (SumOf(accounts) + (MaxFee - fee)) + fee = SumOf(accounts) + MaxFee
  BY <1>1, SumOfBalances
<1> QED BY <1>2, <1>3, <1>4 DEF refunded, last

LEMMA CallIsFair ==
  ASSUME NEW accounts, Solvent(accounts), NEW tx, tx.amount \in Nat, tx.fuel \in Nat,
         tx.kind # "transfer", Includable(accounts, tx), NEW proposer
  PROVE  Fair(accounts, ApplyCall(accounts, tx, proposer), tx.sender)
<1> DEFINE reserved == Charge(accounts, tx.sender, MaxFee)
           executed == IF tx.succeeds THEN Attach(reserved, tx) ELSE reserved
           fee      == IF Fee + tx.fuel <= MaxFee THEN Fee + tx.fuel ELSE MaxFee
           last     == Credit(Credit(executed, tx.sender, MaxFee - fee), proposer, fee)
<1>1. /\ Fee \in Nat /\ MaxFee \in Nat
      /\ Account(accounts, tx.sender).balance \in Nat
      /\ Account(accounts, tx.sender).balance >= MaxFee + tx.amount
  BY FeeAssumption, AccountOf DEF Includable, Required
<1>2. /\ Solvent(reserved) /\ SumOf(reserved) = SumOf(accounts) - MaxFee
      /\ Account(reserved, tx.sender).balance = Account(accounts, tx.sender).balance - MaxFee
      /\ Account(reserved, tx.sender).nonce = Account(accounts, tx.sender).nonce + 1
      /\ \A a : a # tx.sender => Account(reserved, a) = Account(accounts, a)
  <2>1. Account(accounts, tx.sender).balance >= MaxFee
    BY <1>1
  <2> QED BY <1>1, <2>1, ChargeTakes
<1>3. Account(reserved, tx.sender).balance >= tx.amount
  BY <1>1, <1>2
<1> HIDE DEF reserved
<1>4. /\ Solvent(executed) /\ SumOf(executed) = SumOf(reserved)
      /\ \A a : Account(executed, a).nonce = Account(reserved, a).nonce
  <2>1. /\ Solvent(Attach(reserved, tx)) /\ SumOf(Attach(reserved, tx)) = SumOf(reserved)
        /\ \A a : Account(Attach(reserved, tx), a).nonce = Account(reserved, a).nonce
    <3>1. CASE tx.amount = 0
      BY <1>2, <3>1 DEF Attach
    <3>2. CASE tx.amount # 0
      BY <1>2, <1>3, <3>2, MoveIsFair DEF Attach
    <3> QED BY <3>1, <3>2
  <2> QED BY <1>2, <2>1
<1> HIDE DEF executed
<1>5. fee \in Nat /\ fee <= MaxFee
  BY <1>1
<1> HIDE DEF fee
<1>6. /\ Solvent(last) /\ SumOf(last) = SumOf(executed) + MaxFee
      /\ \A a : Account(last, a).nonce = Account(executed, a).nonce
  BY <1>4, <1>5, SettlingGivesBack
<1> HIDE DEF last
<1>7. SumOf(last) = SumOf(accounts)
  <2>1. (SumOf(accounts) - MaxFee) + MaxFee = SumOf(accounts)
    BY <1>1, SumOfBalances
  <2> QED BY <1>2, <1>4, <1>6, <2>1
<1>8. Fair(accounts, last, tx.sender)
  BY <1>2, <1>4, <1>6, <1>7 DEF Fair
<1>9. ApplyCall(accounts, tx, proposer) = last
  BY DEF ApplyCall, last, fee, executed, reserved
<1> QED BY <1>8, <1>9

\* Whoever sender, recipient and proposer are, and whether the payload succeeds or
\* not: an includable transaction makes and loses no money, overdraws no account,
\* and uses up its sender's nonce.
THEOREM ApplyIsFair ==
  ASSUME NEW accounts, Solvent(accounts), NEW tx, tx.amount \in Nat, tx.fuel \in Nat,
         Includable(accounts, tx), NEW proposer
  PROVE  Fair(accounts, Apply(accounts, tx, proposer), tx.sender)
BY TransferIsFair, CallIsFair DEF Apply
=============================================================================
