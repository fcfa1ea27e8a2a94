------------------------------- MODULE MCMempool ------------------------------
(* Values for model checking Mempool. *)
EXTENDS Mempool, TLC

CONSTANTS a1, a2, x, y

TwoSenders == {1, 2}
TwoIds     == {x, y}
TwoAdds    == {a1, a2}

\* Slots and identities are alike.
Alike == Permutations(Admission) \cup Permutations(Id)

\* Of the second sender only the first transaction comes in: it is there to
\* compete for the room in a block.
SecondSendsOnce ==
  /\ nonce[2] <= 1
  /\ \A t \in pool : t.sender = 2 => t.nonce = 0
  /\ \A a \in Admission : adds[a] # NoAdd => (adds[a].tx.sender = 2 => adds[a].tx.nonce = 0)
=============================================================================
