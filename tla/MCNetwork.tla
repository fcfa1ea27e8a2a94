------------------------------ MODULE MCNetwork -------------------------------
(* Values for model checking Network. *)
EXTENDS Network, TLC

CONSTANTS v1, v2, farmer, alice, small, large, negative

(* Runs of one daemon that overlap, and daemons of two validators. *)
OverlapOrTwo == {{<<v1, 1>>, <<v1, 2>>}, {<<v1, 1>>, <<v2, 1>>}}
OneOrder == 0 .. 0

Bytes(tx) == IF tx = 1 THEN 3 ELSE 1

FourBatches == {<<1, 2, 3>>, <<3, 4, 1>>, <<2>>, <<4, 2, 3>>}

(* The first fee limit is within the grant, the second needs the user or a      *)
(* raised allowance, the third is below zero, which no transaction can carry.   *)
Price(payload) == CASE payload = small -> 1 [] payload = large -> 2 [] OTHER -> 0 - 1
IsAmount(payload) == Price(payload) >= 0
MadeUp == {[net |-> "app", nonce |-> 0, to |-> large]}
CallSets == {{<<"x", 1>>, <<"x", 2>>, <<"z", 1>>}, {<<"x", 1>>, <<"y", 1>>, <<"z", 1>>}}

-----------------------------------------------------------------------------
(* The settlement alone, with one daemon and farmers who deliver what was      *)
(* ordered.                                                                  *)
OneRun == {{<<v1, 1>>}}

DeliversOrders == \A o \in Order : deliveries'[o] = deliveries[o] \/ IsOpen(o)

SettlementAlone ==
  /\ Init /\ part = "settlement"
  /\ [][SettlementOnly /\ SettlementNext /\ DeliversOrders]_networkVars
  /\ Fairness

IsDelivered(o) ==
  IsOpen(o) /\ deliveries[o] # NoDelivery /\ deliveries[o].terms = orders[o].terms

(***************************************************************************)
(* "Delivering the exact buyer, good and amount lets the next signed anchor   *)
(* settle payment": an order that is delivered is settled in the end, unless   *)
(* its buyer cancels.                                                       *)
(***************************************************************************)
DeliverySettles == \A o \in Order : IsDelivered(o) ~> ~IsOpen(o)

-----------------------------------------------------------------------------
(* Small limits and messages for the formats: every kind of payload and of      *)
(* gossip, texts with a byte-order mark, and lists and blobs at their limit.    *)
Limits == [chainId |-> 2, appId |-> 2, version |-> 1, action |-> 1, args |-> 1, code |-> 2,
           validators |-> 2, tx |-> 24, txs |-> 2, block |-> 32, vote |-> 8, votes |-> 2,
           blocks |-> 2, repairs |-> 2, error |-> 2, events |-> 2, event |-> 2, returned |-> 2]

OneCall  == <<<<4, <<1>>, <<3>>>>>>   \* a contract, an action, its arguments
Listing  == <<<<2>>, 4, <<1>>, 0, 5, <<6, 7>>>>
Payloads ==
  <<[tag |-> 1, body |-> <<4, 5>>],
    [tag |-> 2, body |-> <<3, 2>>],
    [tag |-> 3, body |-> <<4, 0, <<2>>, <<>>>>],
    [tag |-> 4, body |-> Listing],
    [tag |-> 5, body |-> Listing],
    [tag |-> 6, body |-> <<<<<<1>>, 1, 7, 9, <<>>>>, <<>>>>],
    [tag |-> 6, body |-> <<<<<<1, 2>>, 1, 7, 9, OneCall>>, <<<<6, 8>>, <<7, 8>>>>>>]>>

Tx(chain, payload) == <<<<chain, 0, 6, 1, payload>>, 9>>
Transactions == [i \in DOMAIN Payloads |-> Tx(<<1>>, Payloads[i])] \o <<Tx(<<2, 1>>, Payloads[1])>>

Header(chain) == <<1, chain, 7, 8, 9, 6, 5, 4>>
Block(txs) == <<Header(<<2>>), txs, 9>>
Vote(round) == <<<<<<1, 2>>, 7, round, 8, 6>>, 9>>

Gossip ==
  <<[tag |-> 1, body |-> 7], [tag |-> 2, body |-> <<2, 3>>],
    [tag |-> 3, body |-> <<0, <<3>>>>], [tag |-> 4, body |-> Vote(1)],
    [tag |-> 5, body |-> <<7, 2>>], [tag |-> 6, body |-> <<<<<<1>>, <<Vote(0)>>>>, <<<<3>>, <<>>>>>>],
    [tag |-> 7, body |-> <<7, 8>>], [tag |-> 8, body |-> <<1, <<3>>>>],
    [tag |-> 9, body |-> <<<<3>>, <<2, 2>>>>], [tag |-> 10, body |-> <<<<6, 0>>, <<6, 1>>>>],
    [tag |-> 11, body |-> <<<<3>>>>]>>

Samples(format) ==
  CASE format = "payload"     -> Payloads
    [] format = "tx"          -> Transactions
    [] format = "block"       -> <<Block(<<>>), Block(<<Transactions[1], Transactions[3]>>)>>
    [] format = "gossip"      -> Gossip
    [] format = "certificate" -> <<<<>>, <<Vote(0), Vote(1)>>>>
    [] format = "record"      -> <<<<7, 0, TRUE, <<>>, 1, <<<<3, 2>>, <<>>>>, <<3>>>>,
                                   <<7, 1, FALSE, <<2, 1>>, 1, <<>>, <<>>>>>>
=============================================================================
