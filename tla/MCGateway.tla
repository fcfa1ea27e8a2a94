------------------------------ MODULE MCGateway -------------------------------
(* Values for model checking Gateway. *)
EXTENDS Gateway, TLC

CONSTANTS alice, bob, home, creator, opponent, stranger, author, p1, p2, t1, t2

ChainAndApp == <<"l1", "app">>
ThreePeers  == <<"mounted", "validator 1", "validator 2">>

Says(wallet, actions) == {[actor |-> wallet, action |-> a] : a \in actions}
Moves == Says(creator, {"create", "move", "draw-offer"})
         \cup Says(opponent, {"join", "move", "mate", "draw-accept"})
         \cup Says(stranger, {"join", "resign"})

\* What the operator does to one payment's tips is in the first.
TwoPostsOrTwoTips == {[posts |-> {p1, p2}, payments |-> {t1}, moderations |-> 1],
                      [posts |-> {p1}, payments |-> {t1, t2}, moderations |-> 0]}

On(net, name) == [net |-> net, name |-> name]
ThreeSteps == <<On("l1", "deploy"), On("l1", "init"), On("app", "deploy app")>>

Sent(method, path) == [method |-> method, path |-> path]
AllRequests ==
  {Sent("POST", <<"api", "accounts">>), Sent("POST", <<"api", "faucet">>),
   Sent("POST", <<"api", "demos", "app", "api", "faucet">>),
   Sent("GET", <<"api", "app", "id", "chain", "head">>),
   Sent("GET", <<"api", "app", "chain", "block", "7">>),
   Sent("POST", <<"api", "demos", "chess", "rooms", "1">>),
   Sent("POST", <<"api", "demos", "microblog", "posts">>)}
=============================================================================
