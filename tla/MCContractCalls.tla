--------------------------- MODULE MCContractCalls ----------------------------
(* Values for model checking ContractCalls. *)
EXTENDS ContractCalls

\* 1 a user, 2 a validator, 3 and 4 contracts, 5 the app's address.
FiveAddrs    == 1 .. 5
TwoContracts == {3, 4}
OneValidator == {2}
OneApp       == {"app"}
AppIsFive    == [a \in OneApp |-> 5]
Genesis      == [a \in {1} |-> 6]

TxOf(kind, nonce) ==
  [kind |-> kind, sender |-> 1, nonce |-> nonce, amount |-> 0, contract |-> 3,
   app |-> "app", validators |-> {1}, epoch |-> 1, height |-> 1, signers |-> {1},
   calls |-> FALSE]

\* Deploy two contracts, then call of the first one with value.
Execute(nonce) == [TxOf("execute", nonce) EXCEPT !.amount = 1]
Deploy(c, nonce) == [TxOf("deploy", nonce) EXCEPT !.contract = c]
NestedCalls == {Deploy(3, 0), Deploy(4, 1), Execute(2)}

\* Register an app, deploy its contract, anchor and again, the same epoch or the next, and
\* change the validators in between.
Anchor(nonce, epoch, calls) ==
  [TxOf("anchor", nonce) EXCEPT !.epoch = epoch, !.height = epoch, !.calls = calls]
Anchors ==
  {TxOf("register", 0), Deploy(3, 1), [TxOf("update", 3) EXCEPT !.validators = {1, 2}]} \cup
  {Anchor(nonce, epoch, calls) : nonce \in 2 .. 4, epoch \in {1, 2}, calls \in BOOLEAN}

NestedAndAnchors == NestedCalls \cup Anchors

\* Nested calls are those of execute; an outcome call runs its contract and one more.
ShortOutcomes == current # NoTx /\ current.tx.kind = "anchor" => Len(frames) <= 2
=============================================================================
