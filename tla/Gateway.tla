-------------------------------- MODULE Gateway --------------------------------
(***************************************************************************)
(* The gateway: which service answers a request (gateway.ts), and the         *)
(* services composed.  With an accounts directory the funding keys belong to  *)
(* Registration, and no path may reach a Faucet, which would sign with the    *)
(* same keys; without one there are only faucets.                            *)
(*                                                                          *)
(* Reads, rooms and feed share no state with the rest: a behaviour follows    *)
(* one service (`service`), except that accounts and faucets go together.     *)
(* A path is the sequence of its segments.                                   *)
(***************************************************************************)
EXTENDS Faucet, Registration, AppReads, ChessRooms, Microblog, DemoBoot

CONSTANTS
  Requests   \* the requests clients send: [method, path]

Service == {"accounts", "faucet", "reads", "rooms", "feed", "demos"}

VARIABLES
  accounts,  \* whether the accounts directory is configured
  reached,   \* the handlers that requests reach, under this configuration
  service

serviceVars == <<accounts, reached, service>>
gatewayVars == <<serviceVars, walletVars, faucetVars, registrationVars, readVars, roomVars,
                 feedVars, bootVars>>

-----------------------------------------------------------------------------
(* Which handler a request reaches, and the network it is for. *)
To(handler, net) == [handler |-> handler, net |-> net]
NotFound == To("404", "none")

Under(prefix, path) == IsPrefix(prefix, path)

AccountsRoute(method, path) ==
  CASE ~accounts -> To("accounts disabled", "l1")
    [] accounts /\ Len(path) = 2 /\ method = "GET"  -> To("account info", "l1")
    [] accounts /\ Len(path) = 2 /\ method = "POST" -> To("register", "l1")
    [] accounts /\ Len(path) = 3 /\ method = "GET"  -> To("account status", "l1")
    [] OTHER -> NotFound

(* handleExplorer, by the shape of the path: an app read counts against the  *)
(* capacity, the others do not.                                             *)
ExplorerRoute(method, path, net) ==
  LET rest == IF path[2] = "app" /\ Len(path) > 2
              THEN SubSeq(path, IF path[3] = "chain" THEN 3 ELSE 4, Len(path))
              ELSE <<>>
  IN CASE method # "GET" -> NotFound
       [] method = "GET" /\ path = <<"api", "apps">> -> To("apps", net)
       [] method = "GET" /\ path = <<"api", "app">>  -> To("app details", net)
       [] method = "GET" /\ path[2] = "block" /\ Len(path) = 3 -> To("block", net)
       [] method = "GET" /\ rest = <<"chain", "head">> -> To("app read", net)
       [] method = "GET" /\ Len(rest) = 3 /\ Head(rest) = "chain"
                         /\ rest[2] \in {"block", "tx"} -> To("app read", net)
       [] OTHER -> NotFound

IsExplorer(path) ==
  \/ Len(path) >= 2 /\ path[2] \in {"apps", "block"}
  \/ path = <<"api", "app">>
  \/ Len(path) >= 4 /\ path[2] = "app"

\* (mutant: the accounts configuration closes the faucet of the chain only)
FaucetRouteOfChain(method, net) ==
  CASE accounts /\ net # "l1" /\ method = "POST" -> To("claim", net)
    [] OTHER -> To("faucet disabled", net)

FaucetRoute(method, net) ==
  CASE accounts            -> To("faucet disabled", net)
    [] ~accounts /\ method = "GET"  -> To("faucet info", net)
    [] ~accounts /\ method = "POST" ->
         To(IF net \in Network THEN "claim" ELSE "no faucet", net)
    [] OTHER               -> NotFound

(* handleApi, for the chain itself and for the app networks mounted on it. *)
ApiRoute(method, path, net) ==
  CASE IsExplorer(path) -> ExplorerRoute(method, path, net)
    [] path = <<"api", "faucet">> -> FaucetRoute(method, net)
    [] method = "GET" /\ Len(path) = 2 /\ path[2] \in {"connect", "config", "head"} ->
         To(path[2], net)
    [] method = "GET" /\ Len(path) = 3 /\ path[2] \in {"account", "tx"} -> To(path[2], net)
    [] method = "GET" /\ Len(path) = 3 /\ path[2] = "app" -> To("app details", net)
    [] method = "POST" /\ path = <<"api", "tx">> -> To("submit", net)
    [] method = "GET" /\ Len(path) = 4 /\ path[2] = "contract" /\ path[4] = "state" ->
         To("contract state", net)
    [] OTHER -> NotFound

(* handle(): accounts, then the demo services, then mounted networks. *)
Route(request) ==
  LET method == request.method  path == request.path IN
  CASE method = "OPTIONS" -> To("preflight", "none")
    [] method # "OPTIONS" /\ Under(<<"api", "accounts">>, path) -> AccountsRoute(method, path)
    [] method # "OPTIONS" /\ Under(<<"api", "demos", "chess", "rooms">>, path) ->
         To("rooms", "none")
    [] method # "OPTIONS" /\ Under(<<"api", "demos", "microblog">>, path) -> To("feed", "none")
    [] method # "OPTIONS" /\ Under(<<"api", "demos">>, path) /\ Len(path) > 4
                          /\ path[4] = "api" ->
         IF path[3] \in Network THEN ApiRoute(method, SubSeq(path, 4, Len(path)), path[3])
         ELSE NotFound
    [] method # "OPTIONS" /\ Under(<<"api">>, path) -> ApiRoute(method, path, "l1")
    [] OTHER -> To("page", "none")

Reached(handler, net) == To(handler, net) \in reached

-----------------------------------------------------------------------------
Init ==
  /\ service \in Service
  /\ accounts = (service = "accounts")
  /\ reached = {Route(request) : request \in Requests}
  /\ WalletInit /\ FaucetInit /\ RegistrationInit /\ ReadsInit /\ RoomsInit /\ FeedInit /\ BootInit
  /\ CASE service = "accounts" -> faucetNet # "l1"   \* the ones a check could miss
       [] service = "faucet"   -> TRUE
       [] OTHER                -> faucetNet = "l1"
  /\ service # "reads" => healthy = {}
  /\ service # "feed" => offer = CHOOSE o \in Offers : TRUE

Registering ==
  /\ service = "accounts" /\ Reached("register", "l1")
  /\ RegistrationNext
  /\ UNCHANGED <<serviceVars, faucetVars, readVars, roomVars, feedVars, bootVars>>

Claiming ==
  /\ service \in {"accounts", "faucet"} /\ Reached("claim", faucetNet)
  /\ FaucetNext
  /\ UNCHANGED <<serviceVars, registrationVars, readVars, roomVars, feedVars, bootVars>>

Funding ==
  /\ service \in {"accounts", "faucet", "demos"}
  /\ WalletNext
  /\ UNCHANGED <<serviceVars, faucetVars, registrationVars, readVars, roomVars, feedVars, bootVars>>

ReadingApps ==
  /\ service = "reads" /\ \E n \in Network : Reached("app read", n)
  /\ ReadsNext
  /\ UNCHANGED <<serviceVars, walletVars, faucetVars, registrationVars, roomVars, feedVars, bootVars>>

Relaying ==
  /\ service = "rooms" /\ Reached("rooms", "none")
  /\ RoomsNext
  /\ UNCHANGED <<serviceVars, walletVars, faucetVars, registrationVars, readVars, feedVars, bootVars>>

Posting ==
  /\ service = "feed" /\ Reached("feed", "none")
  /\ FeedNext
  /\ UNCHANGED <<serviceVars, walletVars, faucetVars, registrationVars, readVars, roomVars, bootVars>>

Starting ==
  /\ service = "demos"
  /\ BootNext
  /\ UNCHANGED <<serviceVars, faucetVars, registrationVars, readVars, roomVars, feedVars>>

Next == Registering \/ Claiming \/ Funding \/ ReadingApps \/ Relaying \/ Posting \/ Starting

(* Nodes make blocks; a visitor with a pending account tries again; a call    *)
(* to a node ends; an operator restarts a gateway whose journal failed; the   *)
(* tip timer recurs.  Faults are finitely many: weak fairness is enough.      *)
Retry(a) == \E s \in Source : Status(a) = "pending" /\ Register(a, s)
NodeBlock(n) == \E success \in BOOLEAN : ExecuteTransfer(n, success)
FeedStep == FileRenamed \/ DirectorySynced \/ StartResolving \/ MergeResults

Fairness ==
  /\ \A n \in Network :
       WF_gatewayVars(service \in {"accounts", "faucet", "demos"} /\ NodeBlock(n) /\ Funding)
  /\ WF_gatewayVars(service = "demos" /\ BootStep /\ Starting)
  /\ \A a \in Recipient : WF_gatewayVars(service = "accounts" /\ Retry(a) /\ Registering)
  /\ WF_gatewayVars(service = "accounts" /\ CallStep /\ Registering)
  /\ \A r \in Reader : WF_gatewayVars(service = "reads" /\ ReadStep(r) /\ ReadingApps)
  /\ WF_gatewayVars(service = "feed" /\ FeedStep /\ Posting)
  /\ \A tx \in Payment : WF_gatewayVars(service = "feed" /\ ProbeEnds(tx, TRUE) /\ Posting)

Spec == Init /\ [][Next]_gatewayVars /\ Fairness

-----------------------------------------------------------------------------
(***************************************************************************)
(* What a visitor was promised, a submitted claim or a pending registration, *)
(* is paid or can still be: no two services sign with one key.               *)
(***************************************************************************)
PromisesKept == FaucetPromises /\ PendingIsPayable

(***************************************************************************)
(* With accounts, a visitor gets at most one grant of a network: nothing but *)
(* a registration can send one.                                             *)
(***************************************************************************)
GrantsKept == accounts => GrantedOnce

(***************************************************************************)
(* What a client of the rooms or the feed was told is stored stays stored:   *)
(* through process stops in any case, through power failures if the answer    *)
(* came after a sync of the directory.                                       *)
(***************************************************************************)
AcknowledgedSurvives == RoomHistorySurvives /\ FeedSurvives

(***************************************************************************)
(* Nothing waits for ever, whatever peers do: again and again no              *)
(* registration is pending (unless its key was used by somebody else), the    *)
(* capacity for app reads is free, and every tip whose payment was executed   *)
(* is shown so.                                                              *)
(***************************************************************************)
Settled ==
  /\ spends > 0 \/ \A a \in Recipient : Status(a) # "pending"
  /\ activeAppReads < MaxReads
  /\ service = "demos" => spends > 0 \/ BootSettled
  /\ \A t \in Range(Load.tips) : t.status = Pending => payments[t.tx] = Pending

Settles == []<>Settled
=============================================================================
