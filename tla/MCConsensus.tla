----------------------------- MODULE MCConsensus -----------------------------
(* Values for model checking Consensus. *)
EXTENDS Consensus, TLC

CONSTANTS v0, v1, v2, v3, p1, p2

TwoValidators  == {v0, v1}
FourValidators  == {v0, v1, v2, v3}
GenesisOrder   == (v0 :> 0 @@ v1 :> 1 @@ v2 :> 2 @@ v3 :> 3)
GenesisIndex   == [v \in Validator |-> GenesisOrder[v]]
NoNodes        == {}
FirstProposer  == {v1}
OnePayload     == {p1}
TwoPayloads    == {p1, p2}

\* With one height and one round only v1 proposes: the others are alike.
Bystanders ==
  {f @@ g : f \in Permutations({v0, v2, v3}), g \in Permutations({p1, p2})}

\* With one height and two rounds v1 and v2 propose.
Idlers == Permutations({v0, v3})

\* No node is left believing in blocks that nobody has.
NoneMisled == \A n \in Correct : \E m \in Correct : bestRemoteHeight[n] <= Height(m)

\* The mesh loses every hello: nodes finalise by votes alone.
HelloLost == \A n \in Correct : bestRemoteHeight[n] = 0
=============================================================================
