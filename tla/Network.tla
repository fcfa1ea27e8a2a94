-------------------------------- MODULE Network --------------------------------
(***************************************************************************)
(* What runs around the nodes of a network: the settlement of an app chain,    *)
(* transaction gossip, signature checks, the wallet page, the applications of  *)
(* a wallet daemon, the benchmarks, and the format of what they send.         *)
(*                                                                          *)
(* They meet in the nodes only, which each sees as the RPC shows them, and     *)
(* have no state in common: a behaviour follows one of them (`part`).         *)
(***************************************************************************)
EXTENDS Settlement, TxGossip, SignaturePool, WebWallet, AppSessions, DevnetBench,
        ProtocolFormats

Part == {"settlement", "gossip", "signatures", "page", "sessions", "bench", "wire"}

VARIABLE part

networkVars == <<part, settlementVars, gossipVars, signatureVars, webVars, sessionVars,
                 walletVars, benchVars, packet>>

Init ==
  /\ part \in Part
  /\ SettlementInit /\ GossipInit /\ SignatureInit /\ WebInit /\ SessionInit /\ WalletInit
  /\ BenchInit
  /\ part # "settlement" => runs = CHOOSE rs \in RunSets : TRUE
  /\ part # "sessions" => Request = CHOOSE requests \in RequestSets : TRUE
  /\ part # "bench" => mode = "cluster"
  /\ IF part = "wire" THEN WireInit ELSE packet = NoPacket

(* A step of one part leaves the others alone. *)
SettlementOnly ==
  /\ part = "settlement"
  /\ UNCHANGED <<part, gossipVars, signatureVars, webVars, sessionVars, walletVars, benchVars, packet>>

GossipOnly ==
  /\ part = "gossip"
  /\ UNCHANGED <<part, settlementVars, signatureVars, webVars, sessionVars, walletVars, benchVars, packet>>

SignaturesOnly ==
  /\ part = "signatures"
  /\ UNCHANGED <<part, settlementVars, gossipVars, webVars, sessionVars, walletVars, benchVars, packet>>

PageOnly ==
  /\ part = "page"
  /\ UNCHANGED <<part, settlementVars, gossipVars, signatureVars, sessionVars, benchVars, packet>>

SessionsOnly ==
  /\ part = "sessions"
  /\ UNCHANGED <<part, settlementVars, gossipVars, signatureVars, webVars, benchVars, packet>>

BenchOnly ==
  /\ part = "bench"
  /\ UNCHANGED <<part, settlementVars, gossipVars, signatureVars, webVars, sessionVars, walletVars,
                 packet>>

WireOnly ==
  /\ part = "wire"
  /\ UNCHANGED <<part, settlementVars, gossipVars, signatureVars, webVars, sessionVars, walletVars,
                 benchVars>>

Next ==
  \/ SettlementOnly /\ SettlementNext
  \/ GossipOnly /\ GossipNext
  \/ SignaturesOnly /\ SignatureNext
  \/ PageOnly /\ (WebNext \/ BlockForPage)
  \/ SessionsOnly /\ (SessionNext \/ BlockForSessions)
  \/ BenchOnly /\ BenchNext
  \/ WireOnly /\ WireNext

(* Blocks are made and reach every validator, each run of a daemon gets on,     *)
(* frames are delivered and timers recur, workers answer, the page's poll and   *)
(* its awaits end, and a user retries what no node knows.  Faults are finitely  *)
(* many: weak fairness is enough.                                            *)
GossipStep ==
  \/ \E l \in Links : Receive(l) \/ AnswerRequest(l)
  \/ \E p \in Peer :
       \/ FlushTimer(p) \/ (\E a \in admitting[p] : Admitted(p, a))
       \/ Propose(p) \/ RequestMissing(p) \/ RequestTimeOut(p) \/ CloseChain(p)

PageVars == <<webVars, walletVars>>
PageBlock ==
  UNCHANGED webVars /\ \E n \in Network, success \in BOOLEAN : ExecuteTransfer(n, success)
RetryForgotten ==
  UNCHANGED walletVars
  /\ \E n \in Network : client[n].pending /\ Forgotten(PendingTx(n)) /\ SendRetry(n)

Fairness ==
  /\ \A v \in Validator :
       /\ WF_settlementVars(part = "settlement" /\ (WriteState(v) \/ MoveHead(v)))
       /\ WF_settlementVars(part = "settlement" /\ SettlementBlock(v))
  /\ \A r \in UNION RunSets :
       WF_settlementVars(part = "settlement" /\ r \in runs /\ AnchorStep(r))
  /\ WF_gossipVars(part = "gossip" /\ GossipStep)
  /\ WF_signatureVars(part = "signatures" /\ SignatureStep)
  /\ WF_PageVars(part = "page" /\ PollStep)
  /\ WF_PageVars(part = "page" /\ TaskStep)
  /\ WF_PageVars(part = "page" /\ PageBlock)
  /\ WF_PageVars(part = "page" /\ RetryForgotten)

Spec == Init /\ [][Next]_networkVars /\ Fairness

-----------------------------------------------------------------------------
(***************************************************************************)
(* Nothing waits for ever: again and again every daemon has anchored its head, *)
(* what was submitted is executed unless it got lost with a connection, the    *)
(* signature workers are free, and the page has no transaction pending.       *)
(***************************************************************************)
Rest ==
  CASE part = "settlement" -> HeadsAnchored
    [] part = "gossip"     -> ~GossipWaits
    [] part = "signatures" -> ~SignatureWaits
    [] part = "page"       -> ~WebWaits
    [] OTHER               -> TRUE

Rests == []<>Rest
=============================================================================
