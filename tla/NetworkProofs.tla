----------------------------- MODULE NetworkProofs ------------------------------
(***************************************************************************)
(* Proofs about what sends transactions from wallets: AppSessions and      *)
(* WebWallet, each on its own, and the services of Gateway, for any values *)
(* of their constants.                                                     *)
(***************************************************************************)
EXTENDS AppSessions, WebWallet, Gateway, FoldProofs, SequenceTheorems,
        FiniteSetTheorems, TLAPS

-----------------------------------------------------------------------------
(* AppSessions: SpentWithinGrant for any applications, grants and costs.   *)
(* What an application had signed from its allowance, and what remains of  *)
(* it, are together within what the daemon has granted and calls of a cost *)
(* below zero have added so far; and whatever is pending or was executed,  *)
(* on any chain, has been signed.                                          *)

Submission == [net : Network, nonce : Nat, to : Payload]
Fitting == {tx \in Submission : Signable(tx.to)}
Signature == [app : Granted, tx : Fitting, how : {"allowance", "approval", "message"}]

CostOf == [tx \in Fitting |-> Cost(tx.to)]
Costs(txs) == SumFunctionOnSet(CostOf, txs)

UnaskedBy(signs, app) == {s.tx : s \in {t \in signs : t.app = app /\ t.how = "allowance"}}
SignedIn(signs) == {s.tx : s \in signs}
Left(known, app) == IF app \in DOMAIN known THEN known[app] ELSE SpendLimit

WithinGrant(signs, known, halts, rises) ==
  \A app \in Granted :
    Costs(UnaskedBy(signs, app)) + Left(known, app) <= SpendLimit * (1 + halts) + rises[app]

AskingIsGood(a, app, signs) ==
  \/ a.at \in {"fresh", "ended"}
  \/ a \in [at : {"sign"}, tx : Submission]
  \/ a \in [at : {"asked"}, tx : Submission] /\ app \in Granted
  \/ a \in [at : {"submit", "wait"}, tx : Fitting] /\ a.tx \in SignedIn(signs)

NodeKnows(pending, ran, signs) ==
  /\ DOMAIN pending = Network /\ DOMAIN ran = Network
  /\ \A n \in Network :
       /\ pending[n] \subseteq SignedIn(signs)
       /\ ran[n] \in Seq([tx : Fitting, success : BOOLEAN])
       /\ \A i \in 1 .. Len(ran[n]) : ran[n][i].tx \in SignedIn(signs)

SignaturesAreGood(signs) ==
  /\ signs \in SUBSET Signature /\ IsFiniteSet(signs)
  /\ \A s \in signs : s.how = "message" => s.app \in Auth

SessionTypes(known, halts, rises) ==
  /\ halts \in Nat /\ rises \in [Granted -> Nat]
  /\ \A app \in DOMAIN known : known[app] \in Nat

SessionInv ==
  /\ SignaturesAreGood(signatures) /\ SessionTypes(sessions, daemonStops, raised)
  /\ WithinGrant(signatures, sessions, daemonStops, raised)
  /\ \A r \in Request : AskingIsGood(asking[r], r[1], signatures)
  /\ NodeKnows(pool, receipts, signatures)

LEMMA CostsAre ==
  ASSUME NEW txs \in SUBSET Fitting, IsFiniteSet(txs)
  PROVE  /\ \A tx \in Fitting : CostOf[tx] = Cost(tx.to) /\ CostOf[tx] \in Nat
         /\ Costs(txs) \in Nat
         /\ \A part \in SUBSET txs : Costs(part) <= Costs(txs)
<1>1. \A tx \in Fitting : CostOf[tx] = Cost(tx.to) /\ CostOf[tx] \in Nat
  <2> SUFFICES ASSUME NEW tx \in Fitting PROVE CostOf[tx] = Cost(tx.to) /\ CostOf[tx] \in Nat
    OBVIOUS
  <2>1. tx.to \in Payload /\ Signable(tx.to)
    BY DEF Fitting, Submission
  <2>2. Cost(tx.to) \in Int /\ Cost(tx.to) >= 0
    BY <2>1, SessionAssumption
  <2> QED BY <2>2 DEF CostOf
<1>2. \A tx \in txs : CostOf[tx] \in Nat
  BY <1>1
<1>3. Costs(txs) \in Nat
  BY <1>2, SumIsNat DEF Costs
<1>4. \A part \in SUBSET txs : Costs(part) <= Costs(txs)
  BY <1>2, SumGrows DEF Costs
<1> QED BY <1>1, <1>3, <1>4

LEMMA CostsAdd ==
  ASSUME NEW txs \in SUBSET Fitting, IsFiniteSet(txs), NEW tx \in Fitting
  PROVE  Costs(txs \cup {tx}) <= Costs(txs) + Cost(tx.to)
<1>1. /\ Costs(txs) \in Nat /\ CostOf[tx] = Cost(tx.to) /\ CostOf[tx] \in Nat
      /\ \A t \in Fitting : CostOf[t] \in Nat
  BY CostsAre
<1>2. CASE tx \in txs
  <2>1. txs \cup {tx} = txs
    BY <1>2
  <2>2. Costs(txs \cup {tx}) = Costs(txs) /\ Cost(tx.to) \in Nat
    BY <1>1, <2>1
  <2>3. \A n, c \in Nat : n <= n + c
    OBVIOUS
  <2> QED BY <1>1, <2>2, <2>3
<1>3. CASE tx \notin txs
  <2> DEFINE more == txs \cup {tx}
  <2>1. IsFiniteSet(more) /\ more \ {tx} = txs /\ tx \in more
    BY <1>3, FS_AddElement
  <2>2. \A t \in more : CostOf[t] \in Int
    BY <1>1
  <2> HIDE DEF more
  <2>3. Costs(more) = CostOf[tx] + Costs(txs)
    BY <2>1, <2>2, SumLess DEF Costs
  <2> QED BY <1>1, <2>3 DEF more
<1> QED BY <1>2, <1>3

LEMMA UnaskedIsFinite ==
  ASSUME NEW signs \in SUBSET Signature, IsFiniteSet(signs), NEW app
  PROVE  UnaskedBy(signs, app) \in SUBSET Fitting /\ IsFiniteSet(UnaskedBy(signs, app))
<1> DEFINE Own == {t \in signs : t.app = app /\ t.how = "allowance"}
<1>1. IsFiniteSet(Own)
  BY FS_Subset
<1>2. IsFiniteSet({s.tx : s \in Own})
  <2> DEFINE f == [s \in Own |-> s.tx]
             T == {s.tx : s \in Own}
  <2>1. f \in [Own -> T] /\ \A t \in T : \E s \in Own : f[s] = t
    OBVIOUS
  <2>2. f \in Surjection(Own, T)
    <3> HIDE DEF f, T, Own
    <3> QED BY <2>1 DEF Surjection
  <2> HIDE DEF f, T, Own
  <2>3. IsFiniteSet(T)
    BY <1>1, <2>2, FS_Surjection
  <2> QED BY <2>3 DEF T
<1>3. \A s \in Own : s.tx \in Fitting
  BY DEF Signature
<1> QED BY <1>2, <1>3 DEF UnaskedBy

\* One more signature is one more transaction of its application, if it took from its
\* allowance.
SignedBy(app, tx, how) == [app |-> app, tx |-> tx, how |-> how]

LEMMA OneMoreSignature ==
  ASSUME NEW signs, NEW s, NEW other
  PROVE  UnaskedBy(signs \cup {s}, other) =
           IF s.app = other /\ s.how = "allowance" THEN UnaskedBy(signs, other) \cup {s.tx}
           ELSE UnaskedBy(signs, other)
<1> DEFINE Own(all) == {t \in all : t.app = other /\ t.how = "allowance"}
<1>1. CASE s.app = other /\ s.how = "allowance"
  <2>1. Own(signs \cup {s}) = Own(signs) \cup {s}
    BY <1>1
  <2>2. {t.tx : t \in Own(signs) \cup {s}} = {t.tx : t \in Own(signs)} \cup {s.tx}
    OBVIOUS
  <2> QED BY <1>1, <2>1, <2>2 DEF UnaskedBy
<1>2. CASE ~(s.app = other /\ s.how = "allowance")
  <2>1. Own(signs \cup {s}) = Own(signs)
    BY <1>2
  <2> QED BY <1>2, <2>1 DEF UnaskedBy
<1> QED BY <1>1, <1>2

\* What was good stays good when more is signed.
LEMMA MoreIsSigned ==
  ASSUME NEW signs, NEW more, signs \subseteq more
  PROVE  /\ SignedIn(signs) \subseteq SignedIn(more)
         /\ \A a, app : AskingIsGood(a, app, signs) => AskingIsGood(a, app, more)
         /\ \A pending, ran : NodeKnows(pending, ran, signs)
                                     => NodeKnows(pending, ran, more)
<1>1. SignedIn(signs) \subseteq SignedIn(more)
  BY DEF SignedIn
<1>2. \A a, app : AskingIsGood(a, app, signs) => AskingIsGood(a, app, more)
  BY <1>1 DEF AskingIsGood
<1>3. \A pending, ran : NodeKnows(pending, ran, signs)
                               => NodeKnows(pending, ran, more)
  BY <1>1 DEF NodeKnows
<1> QED BY <1>1, <1>2, <1>3

\* One submission moves on, and nothing is signed.
LEMMA OneMoves ==
  ASSUME SessionInv, NEW r \in Request, NEW a, Becomes(r, a), UNCHANGED signatures,
         AskingIsGood(a, r[1], signatures)
  PROVE  (\A q \in Request : AskingIsGood(asking[q], q[1], signatures))'
<1>1. /\ DOMAIN asking' = DOMAIN asking
      /\ \A q \in DOMAIN asking : asking'[q] = IF q = r THEN a ELSE asking[q]
  BY DEF Becomes, Request
<1>2. \A q \in DOMAIN asking : AskingIsGood(asking[q], q[1], signatures)
  BY DEF SessionInv, Request
<1>3. \A q \in DOMAIN asking' : AskingIsGood(asking'[q], q[1], signatures')
  BY <1>1, <1>2
<1> QED BY <1>3 DEF Request

\* One transaction of a submission is signed, and nothing taken from an allowance.
LEMMA OneSigned ==
  ASSUME SessionInv, NEW r \in Request, NEW tx \in Fitting,
         NEW how \in {"allowance", "approval", "message"}, Signs(r[1], tx, how),
         r[1] \in Granted, how = "message" => r[1] \in Auth,
         NEW a \in [at : {"submit"}, tx : {tx}], Becomes(r, a), UNCHANGED <<pool, receipts>>
  PROVE  /\ SignaturesAreGood(signatures')
         /\ (\A q \in Request : AskingIsGood(asking[q], q[1], signatures))'
         /\ NodeKnows(pool', receipts', signatures')
         /\ \A other : UnaskedBy(signatures', other) =
              IF r[1] = other /\ how = "allowance" THEN UnaskedBy(signatures, other) \cup {tx}
              ELSE UnaskedBy(signatures, other)
<1> DEFINE s == SignedBy(r[1], tx, how)
<1>1. s \in Signature /\ s.tx = tx /\ s.app = r[1] /\ s.how = how
  BY DEF SignedBy, Signature
<1>2. signatures' = signatures \cup {s}
  BY DEF Signs, SignedBy
<1> HIDE DEF s
<1>3. SignaturesAreGood(signatures')
  <2>1. signatures \in SUBSET Signature /\ IsFiniteSet(signatures)
        /\ \A e \in signatures : e.how = "message" => e.app \in Auth
    BY DEF SessionInv, SignaturesAreGood
  <2>2. IsFiniteSet(signatures')
    BY <1>2, <2>1, FS_AddElement
  <2> QED BY <1>1, <1>2, <2>1, <2>2 DEF SignaturesAreGood
<1>4. signatures \subseteq signatures' /\ tx \in SignedIn(signatures')
  BY <1>1, <1>2 DEF SignedIn
<1>5. AskingIsGood(a, r[1], signatures')
  BY <1>4 DEF AskingIsGood
<1>6. (\A q \in Request : AskingIsGood(asking[q], q[1], signatures))'
  <2>1. \A q \in DOMAIN asking : AskingIsGood(asking[q], q[1], signatures')
    BY <1>4, MoreIsSigned DEF SessionInv, Request
  <2>2. /\ DOMAIN asking' = DOMAIN asking
        /\ \A q \in DOMAIN asking : asking'[q] = IF q = r THEN a ELSE asking[q]
    BY DEF Becomes, Request
  <2>3. \A q \in DOMAIN asking' : AskingIsGood(asking'[q], q[1], signatures')
    BY <1>5, <2>1, <2>2
  <2> QED BY <2>3 DEF Request
<1>7. NodeKnows(pool', receipts', signatures')
  <2>1. NodeKnows(pool, receipts, signatures')
    BY <1>4, MoreIsSigned DEF SessionInv
  <2> QED BY <2>1
<1>8. ASSUME NEW other
      PROVE  UnaskedBy(signatures', other) =
               IF r[1] = other /\ how = "allowance" THEN UnaskedBy(signatures, other) \cup {tx}
               ELSE UnaskedBy(signatures, other)
  <2>1. UnaskedBy(signatures \cup {s}, other) =
          IF s.app = other /\ s.how = "allowance" THEN UnaskedBy(signatures, other) \cup {s.tx}
          ELSE UnaskedBy(signatures, other)
    BY OneMoreSignature
  <2> QED BY <1>1, <1>2, <2>1
<1> QED BY <1>3, <1>6, <1>7, <1>8

\* What an application had signed from its allowance, in numbers.
LEMMA GrantsAre ==
  ASSUME SessionInv, NEW app \in Granted
  PROVE  /\ Costs(UnaskedBy(signatures, app)) \in Nat /\ Left(sessions, app) \in Nat
         /\ raised[app] \in Nat /\ daemonStops \in Nat /\ SpendLimit \in Nat
         /\ SpendLimit * (1 + daemonStops) \in Nat
         /\ Costs(UnaskedBy(signatures, app)) + Left(sessions, app)
              <= SpendLimit * (1 + daemonStops) + raised[app]
<1>1. Costs(UnaskedBy(signatures, app)) \in Nat
  BY UnaskedIsFinite, CostsAre DEF SessionInv, SignaturesAreGood
<1>2. daemonStops \in Nat /\ raised[app] \in Nat /\ SpendLimit \in Nat
  BY SessionAssumption DEF SessionInv, SessionTypes
<1>3. Left(sessions, app) \in Nat
  BY <1>2 DEF SessionInv, SessionTypes, Left
<1>4. SpendLimit * (1 + daemonStops) \in Nat
  BY <1>2
<1>5. Costs(UnaskedBy(signatures, app)) + Left(sessions, app)
        <= SpendLimit * (1 + daemonStops) + raised[app]
  BY DEF SessionInv, WithinGrant
<1> QED BY <1>1, <1>2, <1>3, <1>4, <1>5

\* A session that is established is left what it would have been.
LEMMA Established ==
  ASSUME SessionInv, NEW app \in Granted, WithSession(app, Remaining(app)),
         UNCHANGED <<raised, daemonStops>>
  PROVE  /\ SessionTypes(sessions', daemonStops', raised')
         /\ \A other : Left(sessions', other) = Left(sessions, other)
<1>1. sessions' = [a \in DOMAIN sessions \cup {app} |-> IF a = app THEN Left(sessions, app)
                                                        ELSE sessions[a]]
  BY DEF WithSession, Remaining, Left
<1>2. Left(sessions, app) \in Nat
  BY GrantsAre
<1>3. SessionTypes(sessions', daemonStops', raised')
  BY <1>1, <1>2 DEF SessionInv, SessionTypes
<1>4. \A other : Left(sessions', other) = Left(sessions, other)
  BY <1>1 DEF Left
<1> QED BY <1>3, <1>4

LEMMA SessionStarts == SessionInit /\ WalletInit => SessionInv
<1> SUFFICES ASSUME SessionInit, WalletInit PROVE SessionInv
  OBVIOUS
<1>1. /\ signatures = {} /\ daemonStops = 0 /\ sessions = <<>> /\ DOMAIN sessions = {}
      /\ raised = [app \in Granted |-> 0]
      /\ \A r \in Request : asking[r] = NotAsked
  BY DEF SessionInit, Request
<1>2. SignaturesAreGood(signatures) /\ SessionTypes(sessions, daemonStops, raised)
  BY <1>1, FS_EmptySet DEF SignaturesAreGood, SessionTypes
<1>3. WithinGrant(signatures, sessions, daemonStops, raised)
  <2> SUFFICES ASSUME NEW app \in Granted
               PROVE  Costs(UnaskedBy({}, app)) + Left(sessions, app) <= SpendLimit * (1 + 0) + 0
    BY <1>1 DEF WithinGrant
  <2>1. UnaskedBy({}, app) = {}
    BY DEF UnaskedBy
  <2>2. Costs({}) = 0
    BY SumOfNothing DEF Costs
  <2>3. Left(sessions, app) = SpendLimit
    BY <1>1 DEF Left
  <2>4. SpendLimit \in Nat
    BY SessionAssumption
  <2>5. 0 + SpendLimit <= SpendLimit * (1 + 0) + 0
    BY ONLY <2>4
  <2> QED BY <2>1, <2>2, <2>3, <2>5, Zenon
<1>4. \A r \in Request : AskingIsGood(asking[r], r[1], signatures)
  BY <1>1 DEF AskingIsGood, NotAsked
<1>5. NodeKnows(pool, receipts, signatures)
  BY DEF WalletInit, NodeKnows
<1> QED BY <1>2, <1>3, <1>4, <1>5 DEF SessionInv

LEMMA SubmitSignedKeeps ==
  ASSUME SessionInv, NEW r \in Request, SubmitSigned(r)
  PROVE  SessionInv'
<1> DEFINE tx == asking[r].tx
           n == asking[r].tx.net
<1>1. /\ asking[r].at = "submit" /\ Submit(tx) /\ Becomes(r, [asking[r] EXCEPT !.at = "wait"])
      /\ UNCHANGED <<receipts, sessions, signatures, raised, daemonStops>>
  BY DEF SubmitSigned
<1>2. asking[r] \in [at : {"submit", "wait"}, tx : Fitting] /\ tx \in SignedIn(signatures)
  BY <1>1 DEF SessionInv, AskingIsGood
<1>3. AskingIsGood([asking[r] EXCEPT !.at = "wait"], r[1], signatures)
  BY <1>2 DEF AskingIsGood
<1>4. (\A q \in Request : AskingIsGood(asking[q], q[1], signatures))'
  BY <1>1, <1>3, OneMoves
<1>5. n \in Network /\ pool' = [pool EXCEPT ![n] = pool[n] \cup {tx}]
  BY <1>1, <1>2 DEF Submit, Fitting, Submission
<1> HIDE DEF tx, n
<1>6. NodeKnows(pool', receipts', signatures')
  BY <1>1, <1>2, <1>5 DEF SessionInv, NodeKnows
<1> QED BY <1>1, <1>4, <1>6 DEF SessionInv

LEMMA DaemonStopsKeeps ==
  ASSUME SessionInv, DaemonStops, UNCHANGED walletVars
  PROVE  SessionInv'
<1>1. /\ daemonStops' = daemonStops + 1 /\ sessions' = <<>> /\ DOMAIN sessions' = {}
      /\ UNCHANGED <<signatures, raised, pool, receipts>>
      /\ asking' = [r \in Request |-> IF asking[r].at \in {"sign", "asked"} THEN Ended
                                      ELSE asking[r]]
  BY DEF DaemonStops, walletVars
<1>2. SessionTypes(sessions', daemonStops', raised')
  BY <1>1 DEF SessionInv, SessionTypes
<1>3. WithinGrant(signatures', sessions', daemonStops', raised')
  <2> SUFFICES ASSUME NEW app \in Granted
               PROVE  Costs(UnaskedBy(signatures, app)) + Left(sessions', app)
                        <= SpendLimit * (1 + (daemonStops + 1)) + raised[app]
    BY <1>1 DEF WithinGrant
  <2> DEFINE spent == Costs(UnaskedBy(signatures, app))
             d == daemonStops
             more == raised[app]
  <2>1. /\ spent \in Nat /\ Left(sessions, app) \in Nat /\ more \in Nat /\ d \in Nat
        /\ SpendLimit \in Nat /\ SpendLimit * (1 + d) \in Nat
        /\ spent + Left(sessions, app) <= SpendLimit * (1 + d) + more
    BY GrantsAre
  <2>2. Left(sessions', app) = SpendLimit
    BY <1>1 DEF Left
  <2> HIDE DEF spent, d, more
  <2>3. SpendLimit * (1 + (d + 1)) = SpendLimit * (1 + d) + SpendLimit
    BY <2>1
  <2> QED BY <2>1, <2>2, <2>3 DEF spent, d, more
<1>4. (\A q \in Request : AskingIsGood(asking[q], q[1], signatures))'
  <2>1. DOMAIN asking' = Request
    BY <1>1
  <2>2. \A q \in Request : AskingIsGood(asking'[q], q[1], signatures')
    BY <1>1 DEF SessionInv, AskingIsGood, Ended
  <2>3. \A q \in DOMAIN asking' : AskingIsGood(asking'[q], q[1], signatures')
    BY <2>1, <2>2
  <2> QED BY <2>3 DEF Request
<1> QED BY <1>1, <1>2, <1>3, <1>4 DEF SessionInv

LEMMA CallKeeps ==
  ASSUME SessionInv, NEW r \in Request, NEW tx \in Submission, UNCHANGED walletVars,
         Becomes(r, [at |-> "sign", tx |-> tx]),
         UNCHANGED <<sessions, signatures, raised, daemonStops>>
  PROVE  SessionInv'
<1>1. AskingIsGood([at |-> "sign", tx |-> tx], r[1], signatures)
  BY DEF AskingIsGood
<1>2. (\A q \in Request : AskingIsGood(asking[q], q[1], signatures))'
  BY <1>1, OneMoves
<1> QED BY <1>2 DEF SessionInv, walletVars

LEMMA NonceAskedKeeps ==
  ASSUME SessionInv, NEW r \in Request, NEW n \in Chains, NEW payload \in Payload,
         NonceAsked(r, n, payload), UNCHANGED walletVars
  PROVE  SessionInv'
<1> DEFINE tx == [net |-> n, nonce |-> Nonce(n), to |-> payload]
<1>1. n \in Network
  BY SessionAssumption
<1>2. tx \in Submission
  BY <1>1 DEF SessionInv, NodeKnows, Nonce, Submission
<1>3. Becomes(r, [at |-> "sign", tx |-> tx]) /\ UNCHANGED <<sessions, signatures, raised, daemonStops>>
  BY DEF NonceAsked
<1> HIDE DEF tx
<1> QED BY <1>2, <1>3, CallKeeps

LEMMA ChoosesItselfKeeps ==
  ASSUME SessionInv, NEW r \in Request, NEW tx \in Chosen, ChoosesItself(r, tx),
         UNCHANGED walletVars
  PROVE  SessionInv'
<1>1. tx \in Submission
  BY SessionAssumption DEF Submission
<1> QED BY <1>1, CallKeeps DEF ChoosesItself

\* A submission that ends, with the allowances as they were or of use to nobody.
LEMMA EndsKeep ==
  ASSUME SessionInv, NEW r \in Request, Becomes(r, Ended), UNCHANGED walletVars,
         UNCHANGED <<signatures, daemonStops>>, SessionTypes(sessions', daemonStops', raised'),
         WithinGrant(signatures', sessions', daemonStops', raised')
  PROVE  SessionInv'
<1>1. AskingIsGood(Ended, r[1], signatures)
  BY DEF AskingIsGood, Ended
<1>2. (\A q \in Request : AskingIsGood(asking[q], q[1], signatures))'
  BY <1>1, OneMoves
<1> QED BY <1>2 DEF SessionInv, walletVars

\* The cost is taken from the allowance, or added to it if it is below zero; the
\* signature that may follow is of a transaction that costs as much.
LEMMA SignWithinKeeps ==
  ASSUME SessionInv, NEW r \in Request, SignWithin(r), UNCHANGED walletVars
  PROVE  SessionInv'
<1> DEFINE app == r[1]
           tx == asking[r].tx
           cost == Cost(tx.to)
           left == Left(sessions, app)
           spent == Costs(UnaskedBy(signatures, app))
           limit == SpendLimit * (1 + daemonStops)
<1>1. /\ asking[r].at = "sign" /\ app \in Granted /\ cost <= left
      /\ sessions' = [a \in DOMAIN sessions \cup {app} |-> IF a = app THEN left - cost
                                                           ELSE sessions[a]]
      /\ raised' = IF cost < 0 THEN [raised EXCEPT ![app] = raised[app] - cost] ELSE raised
      /\ SignTransaction(r, "allowance") /\ UNCHANGED <<daemonStops, pool, receipts>>
  BY DEF SignWithin, WithSession, Remaining, Left, walletVars
<1>2. asking[r] \in [at : {"sign"}, tx : Submission]
  BY <1>1 DEF SessionInv, AskingIsGood
<1>3. tx \in Submission /\ tx.to \in Payload
  BY <1>2 DEF Submission
<1>4. cost \in Int /\ (Signable(tx.to) => cost >= 0)
  BY <1>3, SessionAssumption
<1>5. /\ spent \in Nat /\ left \in Nat /\ raised[app] \in Nat /\ limit \in Nat
      /\ spent + left <= limit + raised[app]
  BY <1>1, GrantsAre
<1>6. raised \in [Granted -> Nat]
  BY DEF SessionInv, SessionTypes
<1> HIDE DEF app, tx, cost, left, spent, limit
<1>7. /\ raised' \in [Granted -> Nat]
      /\ \A other \in Granted : other # app => raised'[other] = raised[other]
      /\ raised'[app] = IF cost < 0 THEN raised[app] - cost ELSE raised[app]
  <2>1. CASE cost < 0
    <3>1. raised[app] - cost \in Nat
      BY <1>4, <1>5, <2>1
    <3>2. raised' = [raised EXCEPT ![app] = raised[app] - cost]
      BY <1>1, <2>1
    <3> QED BY <1>1, <1>6, <2>1, <3>1, <3>2
  <2>2. CASE ~(cost < 0)
    BY <1>1, <1>6, <2>2
  <2> QED BY <2>1, <2>2
<1>8. /\ left - cost \in Nat /\ Left(sessions', app) = left - cost
      /\ \A other : other # app => Left(sessions', other) = Left(sessions, other)
  <2>1. left - cost \in Nat
    BY <1>1, <1>4, <1>5
  <2> QED BY <1>1, <2>1 DEF Left
<1>9. SessionTypes(sessions', daemonStops', raised')
  BY <1>1, <1>7, <1>8 DEF SessionInv, SessionTypes
<1>10. ASSUME NEW other \in Granted, other # app
       PROVE  Costs(UnaskedBy(signatures, other)) + Left(sessions', other)
                <= SpendLimit * (1 + daemonStops) + raised'[other]
  BY <1>7, <1>8, <1>10, GrantsAre
<1>11. CASE Signable(tx.to)
  <2>1. /\ Signs(app, tx, "allowance") /\ Becomes(r, [asking[r] EXCEPT !.at = "submit"])
        /\ tx \in Fitting
    BY <1>1, <1>3, <1>11 DEF SignTransaction, Fitting, app, tx
  <2>2. [asking[r] EXCEPT !.at = "submit"] \in [at : {"submit"}, tx : {tx}]
    BY <1>2 DEF tx
  <2>3. /\ SignaturesAreGood(signatures')
        /\ (\A q \in Request : AskingIsGood(asking[q], q[1], signatures))'
        /\ NodeKnows(pool', receipts', signatures')
        /\ \A other : UnaskedBy(signatures', other) =
             IF app = other THEN UnaskedBy(signatures, other) \cup {tx}
             ELSE UnaskedBy(signatures, other)
    BY <1>1, <2>1, <2>2, OneSigned DEF app
  <2>4. Costs(UnaskedBy(signatures', app)) + Left(sessions', app) <= limit + raised'[app]
    <3> DEFINE after == Costs(UnaskedBy(signatures, app) \cup {tx})
    <3>1. UnaskedBy(signatures, app) \in SUBSET Fitting /\ IsFiniteSet(UnaskedBy(signatures, app))
      BY UnaskedIsFinite DEF SessionInv, SignaturesAreGood
    <3>2. after <= spent + cost
      BY <2>1, <3>1, CostsAdd DEF spent, cost
    <3>3. after \in Nat
      <4>1. UnaskedBy(signatures, app) \cup {tx} \in SUBSET Fitting
            /\ IsFiniteSet(UnaskedBy(signatures, app) \cup {tx})
        BY <2>1, <3>1, FS_AddElement
      <4> QED BY <4>1, CostsAre
    <3>4. UnaskedBy(signatures', app) = UnaskedBy(signatures, app) \cup {tx}
      BY <2>3
    <3>5. raised'[app] = raised[app] /\ Left(sessions', app) = left - cost
      BY <1>4, <1>7, <1>8, <1>11
    <3> HIDE DEF after
    <3>6. after + (left - cost) <= limit + raised[app]
      BY <1>4, <1>5, <3>2, <3>3
    <3> QED BY <3>4, <3>5, <3>6 DEF after
  <2>5. WithinGrant(signatures', sessions', daemonStops', raised')
    <3> SUFFICES ASSUME NEW other \in Granted
                 PROVE  Costs(UnaskedBy(signatures', other)) + Left(sessions', other)
                          <= SpendLimit * (1 + daemonStops) + raised'[other]
      BY <1>1 DEF WithinGrant
    <3>1. CASE other = app
      BY <2>4, <3>1 DEF limit
    <3>2. CASE other # app
      <4>1. UnaskedBy(signatures', other) = UnaskedBy(signatures, other)
        BY <2>3, <3>2
      <4> QED BY <1>10, <3>2, <4>1
    <3> QED BY <3>1, <3>2
  <2> QED BY <1>9, <2>3, <2>5 DEF SessionInv
<1>12. CASE ~Signable(tx.to)
  <2>1. Becomes(r, Ended) /\ UNCHANGED signatures
    BY <1>1, <1>12 DEF SignTransaction, tx
  <2>2. spent + (left - cost) <= limit + raised'[app]
    <3>1. CASE cost < 0
      <4>1. raised'[app] = raised[app] - cost
        BY <1>7, <3>1
      <4> QED BY <1>4, <1>5, <4>1
    <3>2. CASE ~(cost < 0)
      <4>1. raised'[app] = raised[app]
        BY <1>7, <3>2
      <4> QED BY <1>4, <1>5, <3>2, <4>1
    <3> QED BY <3>1, <3>2
  <2>3. WithinGrant(signatures', sessions', daemonStops', raised')
    <3> SUFFICES ASSUME NEW other \in Granted
                 PROVE  Costs(UnaskedBy(signatures, other)) + Left(sessions', other)
                          <= SpendLimit * (1 + daemonStops) + raised'[other]
      BY <1>1, <2>1 DEF WithinGrant
    <3>1. CASE other = app
      BY <1>8, <2>2, <3>1 DEF limit, spent
    <3>2. CASE other # app
      BY <1>10, <3>2
    <3> QED BY <3>1, <3>2
  <2> QED BY <1>1, <1>9, <2>1, <2>3, EndsKeep
<1> QED BY <1>11, <1>12

LEMMA AskUserKeeps ==
  ASSUME SessionInv, NEW r \in Request, AskUser(r), UNCHANGED walletVars
  PROVE  SessionInv'
<1>1. /\ asking[r].at = "sign" /\ r[1] \in Granted /\ WithSession(r[1], Remaining(r[1]))
      /\ Becomes(r, [asking[r] EXCEPT !.at = "asked"])
      /\ UNCHANGED <<signatures, raised, daemonStops>>
  BY DEF AskUser
<1>2. asking[r] \in [at : {"sign"}, tx : Submission]
  BY <1>1 DEF SessionInv, AskingIsGood
<1>3. AskingIsGood([asking[r] EXCEPT !.at = "asked"], r[1], signatures)
  BY <1>1, <1>2 DEF AskingIsGood
<1>4. (\A q \in Request : AskingIsGood(asking[q], q[1], signatures))'
  BY <1>1, <1>3, OneMoves
<1>5. /\ SessionTypes(sessions', daemonStops', raised')
      /\ \A other : Left(sessions', other) = Left(sessions, other)
  BY <1>1, Established
<1>6. WithinGrant(signatures', sessions', daemonStops', raised')
  BY <1>1, <1>5 DEF SessionInv, WithinGrant
<1> QED BY <1>1, <1>4, <1>5, <1>6 DEF SessionInv, walletVars

LEMMA UserAnswersKeeps ==
  ASSUME SessionInv, NEW r \in Request, NEW approved \in BOOLEAN, UserAnswers(r, approved),
         UNCHANGED walletVars
  PROVE  SessionInv'
<1> DEFINE tx == asking[r].tx
<1>1. asking[r].at = "asked" /\ UNCHANGED <<sessions, raised, daemonStops, pool, receipts>>
  BY DEF UserAnswers, walletVars
<1>2. asking[r] \in [at : {"asked"}, tx : Submission] /\ r[1] \in Granted
  BY <1>1 DEF SessionInv, AskingIsGood
<1>3. CASE approved /\ Signable(tx.to)
  <2>1. Signs(r[1], tx, "approval") /\ Becomes(r, [asking[r] EXCEPT !.at = "submit"])
    BY <1>3 DEF UserAnswers, SignTransaction
  <2>2. tx \in Fitting /\ [asking[r] EXCEPT !.at = "submit"] \in [at : {"submit"}, tx : {tx}]
    BY <1>2, <1>3 DEF Fitting
  <2> HIDE DEF tx
  <2>3. /\ SignaturesAreGood(signatures')
        /\ (\A q \in Request : AskingIsGood(asking[q], q[1], signatures))'
        /\ NodeKnows(pool', receipts', signatures')
        /\ \A other : UnaskedBy(signatures', other) = UnaskedBy(signatures, other)
    BY <1>1, <1>2, <2>1, <2>2, OneSigned
  <2>4. WithinGrant(signatures', sessions', daemonStops', raised')
    BY <1>1, <2>3 DEF SessionInv, WithinGrant
  <2> QED BY <1>1, <2>3, <2>4 DEF SessionInv
<1>4. CASE ~(approved /\ Signable(tx.to))
  <2>1. Becomes(r, Ended) /\ UNCHANGED signatures
    BY <1>4 DEF UserAnswers, SignTransaction
  <2>2. /\ SessionTypes(sessions', daemonStops', raised')
        /\ WithinGrant(signatures', sessions', daemonStops', raised')
    BY <1>1, <2>1 DEF SessionInv
  <2> QED BY <1>1, <2>1, <2>2, EndsKeep
<1> QED BY <1>3, <1>4

LEMMA SignMessageKeeps ==
  ASSUME SessionInv, NEW r \in Request, NEW tx \in Chosen, SignMessage(r, tx),
         UNCHANGED walletVars
  PROVE  SessionInv'
<1>1. /\ r[1] \in Granted /\ Signable(tx.to) /\ WithSession(r[1], Remaining(r[1]))
      /\ UNCHANGED <<raised, daemonStops, pool, receipts>>
  BY DEF SignMessage, walletVars
<1>2. tx \in Fitting
  BY <1>1, SessionAssumption DEF Fitting, Submission
<1>3. /\ SessionTypes(sessions', daemonStops', raised')
      /\ \A other : Left(sessions', other) = Left(sessions, other)
  BY <1>1, Established
<1>4. CASE r[1] \in Auth
  <2>1. Signs(r[1], tx, "message") /\ Becomes(r, [at |-> "submit", tx |-> tx])
    BY <1>4 DEF SignMessage
  <2>2. [at |-> "submit", tx |-> tx] \in [at : {"submit"}, tx : {tx}]
    OBVIOUS
  <2>3. /\ SignaturesAreGood(signatures')
        /\ (\A q \in Request : AskingIsGood(asking[q], q[1], signatures))'
        /\ NodeKnows(pool', receipts', signatures')
        /\ \A other : UnaskedBy(signatures', other) = UnaskedBy(signatures, other)
    BY <1>1, <1>2, <1>4, <2>1, <2>2, OneSigned
  <2>4. WithinGrant(signatures', sessions', daemonStops', raised')
    BY <1>1, <1>3, <2>3 DEF SessionInv, WithinGrant
  <2> QED BY <1>3, <2>3, <2>4 DEF SessionInv
<1>5. CASE r[1] \notin Auth
  <2>1. Becomes(r, Ended) /\ UNCHANGED signatures
    BY <1>5 DEF SignMessage
  <2>2. WithinGrant(signatures', sessions', daemonStops', raised')
    BY <1>1, <1>3, <2>1 DEF SessionInv, WithinGrant
  <2> QED BY <1>1, <1>3, <2>1, <2>2, EndsKeep
<1> QED BY <1>4, <1>5

LEMMA RequestEndsKeeps ==
  ASSUME SessionInv, NEW r \in Request, RequestFails(r) \/ ReceiptCame(r), UNCHANGED walletVars
  PROVE  SessionInv'
<1>1. Becomes(r, Ended) /\ UNCHANGED <<sessions, signatures, raised, daemonStops>>
  BY DEF RequestFails, ReceiptCame
<1>2. /\ SessionTypes(sessions', daemonStops', raised')
      /\ WithinGrant(signatures', sessions', daemonStops', raised')
  BY <1>1 DEF SessionInv
<1> QED BY <1>1, <1>2, EndsKeep

LEMMA BlockForSessionsKeeps ==
  ASSUME SessionInv, BlockForSessions
  PROVE  SessionInv'
<1>1. UNCHANGED <<sessions, asking, signatures, raised, daemonStops>>
  BY DEF BlockForSessions, sessionVars
<1>2. NodeKnows(pool, receipts, signatures)
  BY DEF SessionInv
<1>3. NodeKnows(pool', receipts', signatures)
  <2>1. PICK n \in Network : NodeStops(n) \/ \E success \in BOOLEAN : ExecuteTransfer(n, success)
    BY DEF BlockForSessions
  <2>2. CASE NodeStops(n)
    BY <1>2, <2>2 DEF NodeStops, NodeKnows
  <2>3. ASSUME NEW success \in BOOLEAN, ExecuteTransfer(n, success)
        PROVE  NodeKnows(pool', receipts', signatures)
    <3>1. PICK tx \in pool[n] :
             /\ receipts' = [receipts EXCEPT ![n] =
                               Append(receipts[n], [tx |-> tx, success |-> success])]
             /\ pool' = [pool EXCEPT ![n] = {p \in pool[n] : p.nonce > tx.nonce}]
      BY <2>3 DEF ExecuteTransfer
    <3> DEFINE old == receipts[n]
               e == [tx |-> tx, success |-> success]
               R == [tx : Fitting, success : BOOLEAN]
    <3>2. /\ tx \in SignedIn(signatures) /\ old \in Seq(R)
          /\ \A i \in 1 .. Len(old) : old[i].tx \in SignedIn(signatures)
      BY <1>2 DEF NodeKnows
    <3>3. tx \in Fitting
      BY <3>2 DEF SignedIn, SessionInv, SignaturesAreGood, Signature
    <3>4. e \in R /\ e.tx = tx
      BY <3>3
    <3>5. receipts' = [receipts EXCEPT ![n] = Append(old, e)]
      BY <3>1
    <3> HIDE DEF old, e, R
    <3>6. /\ Append(old, e) \in Seq(R)
          /\ Len(Append(old, e)) = Len(old) + 1 /\ Len(old) \in Nat
          /\ \A i \in 1 .. Len(old) : Append(old, e)[i] = old[i]
          /\ Append(old, e)[Len(old) + 1] = e
      BY <3>2, <3>4, AppendProperties
    <3>7. \A i \in 1 .. Len(old) + 1 : Append(old, e)[i].tx \in SignedIn(signatures)
      <4>1. \A i \in 1 .. Len(old) + 1 : i \in 1 .. Len(old) \/ i = Len(old) + 1
        BY <3>6
      <4> QED BY <3>2, <3>4, <3>6, <4>1
    <3>8. /\ DOMAIN receipts' = Network
          /\ \A m \in Network : receipts'[m] = IF m = n THEN Append(old, e) ELSE receipts[m]
      BY <1>2, <3>5 DEF NodeKnows
    <3>9. /\ DOMAIN pool' = Network
          /\ \A m \in Network : pool'[m] \subseteq pool[m]
      BY <1>2, <3>1 DEF NodeKnows
    <3>10. ASSUME NEW m \in Network
           PROVE  /\ receipts'[m] \in Seq(R)
                  /\ \A i \in 1 .. Len(receipts'[m]) : receipts'[m][i].tx \in SignedIn(signatures)
      <4>1. CASE m = n
        BY <3>6, <3>7, <3>8, <4>1
      <4>2. CASE m # n
        <5>1. receipts'[m] = receipts[m]
          BY <3>8, <4>2
        <5> QED BY <1>2, <5>1 DEF NodeKnows, R
      <4> QED BY <4>1, <4>2
    <3> QED BY <1>2, <3>8, <3>9, <3>10 DEF NodeKnows, R
  <2> QED BY <2>1, <2>2, <2>3
<1> QED BY <1>1, <1>3 DEF SessionInv, Request

LEMMA SessionKeeps ==
  SessionInv /\ [SessionNext \/ BlockForSessions]_<<sessionVars, walletVars>> => SessionInv'
<1>1. ASSUME SessionInv, UNCHANGED <<sessionVars, walletVars>> PROVE SessionInv'
  BY <1>1 DEF sessionVars, walletVars, SessionInv, Request
<1> QED
  BY <1>1, SubmitSignedKeeps, DaemonStopsKeeps, NonceAskedKeeps, ChoosesItselfKeeps,
     SignWithinKeeps, AskUserKeeps, UserAnswersKeeps, SignMessageKeeps, RequestEndsKeeps,
     BlockForSessionsKeeps DEF SessionNext

\* For any applications, grants, costs and overlapping calls: what an application had
\* signed from its allowance, with what remains of it, is within the grants of the daemon
\* and what calls of a cost below zero added; a node has only what was signed, and a
\* message was signed only for an application that may have messages signed.
THEOREM SessionInvariant == SessionSpec => []SessionInv
<1> QED BY SessionStarts, SessionKeeps, PTL DEF SessionSpec

\* For any applications, grants, costs and overlapping calls, also calls with a fee limit
\* below zero and messages that are transactions: what is executed of an application's
\* allowance, on all chains together, costs no more than its grants and what such calls
\* added, and all that is executed was signed for an application with a grant, as a
\* message only for one that may have messages signed.
THEOREM GrantsBoundSpending == SessionSpec => []SpentWithinGrant
<1>1. SessionInv => SpentWithinGrant
  <2> SUFFICES ASSUME SessionInv PROVE SpentWithinGrant
    OBVIOUS
  <2>1. ASSUME NEW app \in Granted
        PROVE  SumFunction([tx \in Unasked(app) |-> Cost(tx.to)])
                 <= SpendLimit * (1 + daemonStops) + raised[app]
    <3> DEFINE U == Unasked(app)
               f == [tx \in U |-> Cost(tx.to)]
               all == UnaskedBy(signatures, app)
               bound == SpendLimit * (1 + daemonStops)
    <3>1. U \in SUBSET all
      BY DEF Unasked, UnaskedBy
    <3>2. all \in SUBSET Fitting /\ IsFiniteSet(all)
      BY UnaskedIsFinite DEF SessionInv, SignaturesAreGood
    <3>3. /\ Costs(all) \in Nat /\ Left(sessions, app) \in Nat /\ raised[app] \in Nat
          /\ bound \in Nat /\ Costs(all) + Left(sessions, app) <= bound + raised[app]
      BY GrantsAre
    <3> HIDE DEF U, all, bound
    <3>4. IsFiniteSet(U) /\ U \in SUBSET Fitting
      BY <3>1, <3>2, FS_Subset
    <3>5. \A tx \in U : f[tx] = CostOf[tx]
      BY <3>4 DEF CostOf
    <3>6. DOMAIN f = U
      OBVIOUS
    <3> HIDE DEF f
    <3>7. SumFunction(f) = Costs(U)
      BY <3>4, <3>5, <3>6, SumsAgree DEF SumFunction, Costs
    <3>8. Costs(U) <= Costs(all) /\ Costs(U) \in Nat
      BY <3>1, <3>2, <3>4, CostsAre
    <3>9. SumFunction(f) <= bound + raised[app]
      BY <3>3, <3>7, <3>8
    <3> QED BY <3>9 DEF f, U, bound
  <2>2. ASSUME NEW receipt \in ExecutedAnywhere
        PROVE  \E s \in signatures :
                 s.tx = receipt.tx /\ s.app \in Granted /\ (s.how = "message" => s.app \in Auth)
    <3>1. PICK n \in Network : receipt \in Executed(n)
      BY DEF ExecutedAnywhere
    <3>2. PICK i \in 1 .. Len(receipts[n]) : receipt = receipts[n][i]
      BY <3>1 DEF Executed, Nonce
    <3>3. receipt.tx \in SignedIn(signatures)
      BY <3>2 DEF SessionInv, NodeKnows
    <3>4. PICK s \in signatures : s.tx = receipt.tx
      BY <3>3 DEF SignedIn
    <3>5. s.app \in Granted /\ (s.how = "message" => s.app \in Auth)
      BY DEF SessionInv, SignaturesAreGood, Signature
    <3> QED BY <3>4, <3>5
  <2> QED BY <2>1, <2>2 DEF SpentWithinGrant
<1> QED BY <1>1, SessionInvariant, PTL

-----------------------------------------------------------------------------
(* FundedWallets, for any service that uses it: the nodes hold             *)
(* transactions of a set T, in the order of their nonces; they go on by    *)
(* executing what they hold, and get nothing new but `more` and what other *)
(* users spend.                                                            *)
NodesHold(T) ==
  /\ DOMAIN receipts = Network /\ DOMAIN pool = Network
  /\ \A n \in Network :
       /\ receipts[n] \in Seq([tx : T, success : BOOLEAN])
       /\ \A i \in 1 .. Len(receipts[n]) :
            receipts[n][i].tx.net = n /\ receipts[n][i].tx.nonce = i - 1
       /\ \A tx \in pool[n] : tx \in T /\ tx.net = n

NodesGo(T, more) ==
  /\ NodesHold(T)'
  /\ \A n \in Network : \A tx \in pool'[n] : tx \in pool[n] \cup more \/ tx.to = Outside
  /\ \A n \in Network :
       \/ receipts'[n] = receipts[n]
       \/ \E tx \in pool[n], success \in BOOLEAN :
            /\ tx.nonce = Nonce(n)
            /\ receipts'[n] = Append(receipts[n], [tx |-> tx, success |-> success])

OthersMaySpend(T) ==
  \A n \in Network, k \in Nat : [net |-> n, nonce |-> k, to |-> Outside] \in T

LEMMA NonceIs ==
  ASSUME NEW T, NodesHold(T), NEW n \in Network
  PROVE  /\ Nonce(n) \in Nat /\ Nonce(n) = Len(receipts[n])
         /\ \A r \in Executed(n) : r.tx \in T /\ r.tx.net = n /\ r.tx.nonce \in Nat
                                   /\ r.tx.nonce < Nonce(n)
<1>1. /\ receipts[n] \in Seq([tx : T, success : BOOLEAN])
      /\ \A i \in 1 .. Len(receipts[n]) : receipts[n][i].tx.net = n /\ receipts[n][i].tx.nonce = i - 1
  BY DEF NodesHold
<1>2. Len(receipts[n]) \in Nat /\ Nonce(n) = Len(receipts[n])
  BY <1>1 DEF Nonce
<1>3. ASSUME NEW r \in Executed(n)
      PROVE  /\ r.tx \in T /\ r.tx.net = n /\ r.tx.nonce \in Nat
             /\ r.tx.nonce < Nonce(n)
  <2>1. PICK i \in 1 .. Len(receipts[n]) : r = receipts[n][i]
    BY <1>2, <1>3 DEF Executed
  <2>2. r.tx.nonce = i - 1 /\ r.tx.net = n
    BY <1>1, <2>1
  <2>3. r \in [tx : T, success : BOOLEAN]
    <3> DEFINE S == [tx : T, success : BOOLEAN]
    <3>1. receipts[n] \in Seq(S)
      BY <1>1
    <3> HIDE DEF S
    <3>2. r \in S
      BY <2>1, <3>1
    <3> QED BY <3>2 DEF S
  <2> QED BY <1>2, <2>2, <2>3
<1> QED BY <1>2, <1>3

LEMMA ReceiptsGrow ==
  ASSUME NEW T, NEW more, NodesHold(T), NodesGo(T, more), NEW n \in Network
  PROVE  /\ Nonce(n) \in Nat /\ Nonce(n)' \in Nat /\ Nonce(n) <= Nonce(n)'
         /\ Executed(n) \subseteq Executed(n)'
         /\ \A r \in Executed(n)' : r \in Executed(n) \/ (r.tx \in pool[n] /\ r.tx.nonce = Nonce(n))
<1>0. receipts[n] \in Seq([tx : T, success : BOOLEAN])
  BY DEF NodesHold
<1>1. receipts[n] \in Seq([tx : T, success : BOOLEAN]) /\ Len(receipts[n]) \in Nat
  BY <1>0
<1>2. CASE receipts'[n] = receipts[n]
  BY <1>1, <1>2 DEF Nonce, Executed
<1>3. CASE receipts'[n] # receipts[n]
  <2>1. PICK tx \in pool[n], success \in BOOLEAN :
            /\ tx.nonce = Nonce(n)
            /\ receipts'[n] = Append(receipts[n], [tx |-> tx, success |-> success])
    BY <1>3 DEF NodesGo
  <2> DEFINE l == Len(receipts[n])
             new == [tx |-> tx, success |-> success]
  <2>2. tx \in T
    BY DEF NodesHold
  <2>3. /\ Len(receipts'[n]) = l + 1 /\ receipts'[n][l + 1] = new
        /\ \A i \in 1 .. l : receipts'[n][i] = receipts[n][i]
    <3>1. new \in [tx : T, success : BOOLEAN]
      BY <2>2
    <3> HIDE DEF new
    <3> QED BY <1>1, <2>1, <3>1 DEF new
  <2>4. Nonce(n) = l /\ Nonce(n)' = l + 1
    BY <2>3 DEF Nonce
  <2>5. Executed(n) \subseteq Executed(n)'
    <3> SUFFICES ASSUME NEW i \in 1 .. l PROVE receipts[n][i] \in Executed(n)'
      BY <2>4 DEF Executed
    <3>1. i \in 1 .. l + 1
      BY <1>1
    <3> QED BY <2>3, <2>4, <3>1 DEF Executed
  <2>6. ASSUME NEW r \in Executed(n)'
        PROVE  r \in Executed(n) \/ (r.tx \in pool[n] /\ r.tx.nonce = Nonce(n))
    <3>1. PICK i \in 1 .. l + 1 : r = receipts'[n][i]
      BY <2>4, <2>6 DEF Executed
    <3>2. CASE i = l + 1
      BY <2>1, <2>3, <3>1, <3>2
    <3>3. CASE i # l + 1
      <4>1. i \in 1 .. l
        BY <1>1, <3>3
      <4> QED BY <2>3, <2>4, <3>1, <4>1 DEF Executed
    <3> QED BY <3>2, <3>3
  <2> QED BY <1>1, <2>4, <2>5, <2>6
<1> QED BY <1>2, <1>3

\* What is at most a new transfer of somebody else.
LEMMA NodesGoOn ==
  ASSUME NEW T, NEW more, NodesHold(T), NEW n \in Network, UNCHANGED receipts, DOMAIN pool' = Network,
         \A m \in Network : m # n => pool'[m] = pool[m],
         \A tx \in pool'[n] : tx \in pool[n] \/ (tx \in T /\ tx.net = n /\ tx.to = Outside)
  PROVE  NodesGo(T, more)
<1>1. NodesHold(T)'
  BY DEF NodesHold
<1>2. \A m \in Network : \A tx \in pool'[m] : tx \in pool[m] \cup more \/ tx.to = Outside
  OBVIOUS
<1> QED BY <1>1, <1>2 DEF NodesGo

LEMMA ExecuteGoes ==
  ASSUME NEW T, NEW more, NodesHold(T), NEW n \in Network, NEW success \in BOOLEAN, ExecuteTransfer(n, success)
  PROVE  NodesGo(T, more)
<1>1. PICK tx \in pool[n] :
        /\ tx.nonce = Nonce(n)
        /\ receipts' = [receipts EXCEPT ![n] = Append(@, [tx |-> tx, success |-> success])]
        /\ pool' = [pool EXCEPT ![n] = {p \in @ : p.nonce > tx.nonce}]
  BY DEF ExecuteTransfer
<1> DEFINE new == [tx |-> tx, success |-> success]
           l   == Len(receipts[n])
           S   == [tx : T, success : BOOLEAN]
<1>2. /\ DOMAIN receipts = Network /\ DOMAIN pool = Network
      /\ receipts'[n] = Append(receipts[n], new) /\ pool'[n] = {p \in pool[n] : p.nonce > tx.nonce}
      /\ \A m \in Network : m # n => receipts'[m] = receipts[m] /\ pool'[m] = pool[m]
      /\ DOMAIN receipts' = Network /\ DOMAIN pool' = Network
  BY <1>1 DEF NodesHold
<1>3. /\ receipts[n] \in Seq(S) /\ tx \in T /\ tx.net = n
      /\ \A i \in 1 .. l : receipts[n][i].tx.net = n /\ receipts[n][i].tx.nonce = i - 1
  BY DEF NodesHold
<1>4. new \in S /\ new.tx = tx
  BY <1>3
<1>5. Nonce(n) = l /\ tx.nonce = l
  BY <1>1 DEF Nonce
<1>6. receipts'[n] \in Seq(S) /\ Len(receipts'[n]) = l + 1 /\ l \in Nat
      /\ receipts'[n][l + 1] = new /\ \A i \in 1 .. l : receipts'[n][i] = receipts[n][i]
  <2> HIDE DEF S, new
  <2> QED BY <1>2, <1>3, <1>4
<1>7. \A i \in 1 .. l + 1 : receipts'[n][i].tx.net = n /\ receipts'[n][i].tx.nonce = i - 1
  <2> SUFFICES ASSUME NEW i \in 1 .. l + 1
               PROVE  receipts'[n][i].tx.net = n /\ receipts'[n][i].tx.nonce = i - 1
    OBVIOUS
  <2>1. CASE i = l + 1
    <3>1. receipts'[n][i].tx = tx /\ i - 1 = l
      BY <1>4, <1>6, <2>1
    <3> QED BY <1>3, <1>5, <3>1
  <2>2. CASE i # l + 1
    <3>1. i \in 1 .. l
      BY <1>6, <2>2
    <3> QED BY <1>3, <1>6, <3>1
  <2> QED BY <2>1, <2>2
<1> HIDE DEF S, new
<1>8. NodesHold(T)'
  <2> SUFFICES ASSUME NEW m \in Network
               PROVE  /\ receipts'[m] \in Seq(S)
                      /\ \A i \in 1 .. Len(receipts'[m]) :
                           receipts'[m][i].tx.net = m /\ receipts'[m][i].tx.nonce = i - 1
                      /\ \A p \in pool'[m] : p \in T /\ p.net = m
    BY <1>2 DEF NodesHold, S
  <2>1. CASE m = n
    BY <1>2, <1>6, <1>7, <2>1 DEF NodesHold
  <2>2. CASE m # n
    <3>1. receipts'[m] = receipts[m] /\ pool'[m] = pool[m]
      BY <1>2, <2>2
    <3>2. /\ receipts[m] \in Seq(S)
          /\ \A i \in 1 .. Len(receipts[m]) :
               receipts[m][i].tx.net = m /\ receipts[m][i].tx.nonce = i - 1
          /\ \A p \in pool[m] : p \in T /\ p.net = m
      BY DEF NodesHold, S
    <3> QED BY ONLY <3>1, <3>2
  <2> QED BY <2>1, <2>2
<1>9. \A m \in Network : \A p \in pool'[m] : p \in pool[m]
  BY <1>2
<1> QED BY <1>1, <1>2, <1>8, <1>9 DEF NodesGo, new

LEMMA SpendGoes ==
  ASSUME NEW T, NEW more, NodesHold(T), OthersMaySpend(T), NEW n \in Network, SpendOutside(n)
  PROVE  NodesGo(T, more)
<1> DEFINE tx == [net |-> n, nonce |-> Nonce(n), to |-> Outside]
<1>1. tx \in T
  BY NonceIs DEF OthersMaySpend
<1>2. pool' = [pool EXCEPT ![n] = @ \cup {tx}] /\ receipts' = receipts
  BY DEF SpendOutside, Submit
<1> HIDE DEF tx
<1>3. tx.net = n /\ tx.to = Outside
  BY DEF tx
<1>4. DOMAIN pool = Network
  BY DEF NodesHold
<1>5. /\ DOMAIN pool' = Network /\ pool'[n] = pool[n] \cup {tx}
      /\ \A m \in Network : m # n => pool'[m] = pool[m]
  BY <1>2, <1>4
<1>6. \A p \in pool'[n] : p \in pool[n] \/ (p \in T /\ p.net = n /\ p.to = Outside)
  BY <1>1, <1>3, <1>5
<1> QED BY <1>2, <1>5, <1>6, NodesGoOn

LEMMA NodeStopGoes ==
  ASSUME NEW T, NEW more, NodesHold(T), NEW n \in Network, NodeStops(n)
  PROVE  NodesGo(T, more)
<1>1. pool' = [pool EXCEPT ![n] = {}] /\ receipts' = receipts /\ DOMAIN pool = Network
  BY DEF NodeStops, NodesHold
<1>2. DOMAIN pool' = Network /\ pool'[n] = {} /\ \A m \in Network : m # n => pool'[m] = pool[m]
  BY <1>1
<1> QED BY <1>1, <1>2, NodesGoOn

LEMMA WalletGoes ==
  ASSUME NEW T, NEW more, NodesHold(T), OthersMaySpend(T), WalletNext
  PROVE  NodesGo(T, more)
BY ExecuteGoes, SpendGoes, NodeStopGoes DEF WalletNext

-----------------------------------------------------------------------------
(* WebWallet: PageSaysTruth for any networks, accounts and faults.  Of     *)
(* what the page has sent, a node can execute only what the page shows as  *)
(* pending (OnlyPending); a first submission was never sent before, so     *)
(* that a node that refuses it will not have it (Unsent); and nothing is   *)
(* pending elsewhere while the page prepares or sends (TaskIsGood).        *)

Statuses == {"submitted", "unconfirmed", "confirmed", "failed", "rejected", "nonce used"}
PageTx(n) == [net : {n}, nonce : Nat, to : Recipient]
Entries(n) == [tx : PageTx(n), status : Statuses]
Clients(n) == [history : Seq(Entries(n)), pending : BOOLEAN, busy : BOOLEAN]
Kinds == {"send", "demo", "tip"}

LateIsGood == \A tx \in late : tx.net \in Network /\ tx \in PageTx(tx.net)

ClientsAreGood ==
  /\ DOMAIN client = Network
  /\ \A n \in Network :
       /\ client[n] \in Clients(n)
       /\ client[n].pending => /\ Len(client[n].history) >= 1
                               /\ Last(client[n].history).status \in {"submitted", "unconfirmed"}

OnlyPending ==
  \A n \in Network : \A tx \in pool[n] \cup late :
    tx \in PageTx(n) /\ tx.nonce >= Nonce(n) => client[n].pending /\ tx = PendingTx(n)

OnePending == \A n, m \in Network : client[n].pending /\ client[m].pending => n = m

\* What is said of an entry, but for the last of SaysTruth.
EntryIsTrue(n, i) ==
  LET entry == client[n].history[i]
      again == \E j \in DOMAIN client[n].history : j > i /\ client[n].history[j].tx = entry.tx
  IN
  /\ entry.status = "confirmed"  => [tx |-> entry.tx, success |-> TRUE] \in Executed(n)
  /\ entry.status = "failed"     => [tx |-> entry.tx, success |-> FALSE] \in Executed(n)
  /\ entry.status = "rejected"   => again \/ Receipt(entry.tx) = {}
  /\ entry.status = "nonce used" => Nonce(n) > entry.tx.nonce

EntriesAreTrue == \A n \in Network : \A i \in 1 .. Len(client[n].history) : EntryIsTrue(n, i)

\* No node has it or ever had it, nor another transaction of the page.
Unsent(tx) ==
  /\ Receipt(tx) = {}
  /\ \A t \in pool[tx.net] \cup late : t \in PageTx(tx.net) => t.nonce < Nonce(tx.net)

IsPageTx(tx) == tx.net \in Network /\ tx \in PageTx(tx.net)

TaskIsGood ==
  \/ task = Off
  \/ /\ task \in [at : {"prepare"}, kind : {"review", "demo", "tip"}, net : Network, to : Recipient]
     /\ task.kind # "demo" => task.net = "l1"
     /\ ~AnyPending
  \/ /\ task.at = "submit" /\ task = [at |-> "submit", kind |-> task.kind, tx |-> task.tx]
     /\ task.kind \in Kinds /\ IsPageTx(task.tx) /\ ~AnyPending
  \/ /\ task.at = "check" /\ task = [at |-> "check", kind |-> task.kind, tx |-> task.tx]
     /\ task.kind \in Kinds /\ IsPageTx(task.tx) /\ ~AnyPending /\ client[task.tx.net].busy
  \/ /\ task.at = "post" /\ task = [at |-> "post", kind |-> task.kind, tx |-> task.tx]
     /\ task.kind \in Kinds \cup {"retry"} /\ IsPageTx(task.tx)
     /\ client[task.tx.net].busy /\ client[task.tx.net].pending
     /\ task.tx = PendingTx(task.tx.net)
     /\ task.kind # "retry" => Unsent(task.tx)
  \/ task.at = "confirm" /\ IsPageTx(task.tx)

PreparedIsGood ==
  prepared # NoTx => prepared \in PageTx("l1") /\ (task.at = "post" \/ ~AnyPending)

TipIsGood == tipDraft # NoTx => tipDraft \in PageTx("l1")

CheckIsGood(c) ==
  \/ checker[c] = Off
  \/ /\ checker[c] \in [at : {"receipt", "account", "again"}, net : Network, entry : Nat]
     /\ checker[c].entry \in 1 .. Len(client[checker[c].net].history)
     /\ checker[c].at = "again" => NonceUsed(CheckedTx(c))

CheckersAreGood ==
  /\ DOMAIN checker = {"poll", "confirm"}
  /\ CheckIsGood("poll") /\ CheckIsGood("confirm")
  /\ checker["confirm"] # Off => task.at = "confirm"

PageInv ==
  /\ NodesHold(Transfer) /\ LateIsGood /\ ClientsAreGood /\ OnlyPending /\ OnePending
  /\ EntriesAreTrue /\ TaskIsGood /\ PreparedIsGood /\ TipIsGood /\ CheckersAreGood

\* The last entry of a client and its transaction.
LEMMA LastIs ==
  ASSUME ClientsAreGood, NEW n \in Network
  PROVE  /\ Len(client[n].history) \in Nat
         /\ DOMAIN client[n].history = 1 .. Len(client[n].history)
         /\ \A i \in 1 .. Len(client[n].history) :
              /\ client[n].history[i] \in Entries(n) /\ client[n].history[i].tx \in PageTx(n)
              /\ client[n].history[i].tx.net = n /\ client[n].history[i].tx.nonce \in Nat
         /\ Last(client[n].history) = client[n].history[Len(client[n].history)]
         /\ client[n].pending => Len(client[n].history) \in 1 .. Len(client[n].history)
<1>1. client[n].history \in Seq(Entries(n))
      /\ (client[n].pending => Len(client[n].history) >= 1)
  BY DEF ClientsAreGood, Clients
<1>2. ASSUME NEW i \in 1 .. Len(client[n].history)
      PROVE  /\ client[n].history[i] \in Entries(n) /\ client[n].history[i].tx \in PageTx(n)
             /\ client[n].history[i].tx.net = n /\ client[n].history[i].tx.nonce \in Nat
  <2>1. client[n].history[i] \in Entries(n)
    BY <1>1, <1>2
  <2> QED BY <2>1 DEF Entries, PageTx
<1> QED BY <1>1, <1>2 DEF Last

-----------------------------------------------------------------------------
(* The nodes go on: blocks, other users, restarts, late submissions.       *)
BlocksCome == NodesGo(Transfer, late) /\ late' \subseteq late

PageStays == UNCHANGED <<wallet, task, prepared, tipDraft, client, checker>>

\* What was refused does not get executed.
LEMMA RefusedStaysOut ==
  ASSUME PageInv, BlocksCome, PageStays, NEW n \in Network,
         NEW i \in 1 .. Len(client[n].history)
  PROVE  EntryIsTrue(n, i)'
<1>0. PICK entry : entry = client[n].history[i]
  OBVIOUS
<1> DEFINE again == \E j \in DOMAIN client[n].history : j > i /\ client[n].history[j].tx = entry.tx
<1>1. NodesHold(Transfer) /\ ClientsAreGood /\ OnlyPending /\ EntryIsTrue(n, i)
  BY DEF PageInv, EntriesAreTrue
<1>2. /\ Nonce(n) \in Nat /\ Nonce(n)' \in Nat /\ Nonce(n) <= Nonce(n)'
      /\ Executed(n) \subseteq Executed(n)'
      /\ \A r \in Executed(n)' : r \in Executed(n) \/ (r.tx \in pool[n] /\ r.tx.nonce = Nonce(n))
  BY <1>1, ReceiptsGrow DEF BlocksCome
<1>3. /\ entry.tx \in PageTx(n) /\ entry.tx.net = n /\ entry.tx.nonce \in Nat
      /\ Len(client[n].history) \in Nat /\ DOMAIN client[n].history = 1 .. Len(client[n].history)
      /\ Last(client[n].history) = client[n].history[Len(client[n].history)]
  BY <1>0, <1>1, LastIs
<1>4. ASSUME entry.status = "rejected", ~again PROVE Receipt(entry.tx)' = {}
  <2> SUFFICES ASSUME NEW r \in Executed(n)', r.tx = entry.tx PROVE FALSE
    BY <1>3 DEF Receipt
  <2>1. r \notin Executed(n)
    <3>1. Receipt(entry.tx) = {}
      BY <1>0, <1>1, <1>4 DEF EntryIsTrue
    <3> QED BY <1>3, <3>1 DEF Receipt
  <2>2. entry.tx \in pool[n] /\ entry.tx.nonce = Nonce(n)
    BY <1>2, <2>1
  <2>3. client[n].pending /\ entry.tx = PendingTx(n)
    BY <1>1, <1>2, <1>3, <2>2 DEF OnlyPending
  <2>4. Last(client[n].history).status \in {"submitted", "unconfirmed"}
    BY <1>1, <2>3 DEF ClientsAreGood
  <2>5. i # Len(client[n].history)
    BY <1>0, <1>3, <1>4, <2>4
  <2>6. Len(client[n].history) \in 1 .. Len(client[n].history) /\ Len(client[n].history) > i
    BY <1>3, <2>5
  <2>7. client[n].history[Len(client[n].history)].tx = entry.tx
    BY <1>3, <2>3 DEF PendingTx
  <2> QED BY <1>3, <1>4, <2>6, <2>7
<1>5. client' = client
  BY DEF PageStays
<1>6. /\ entry.status = "confirmed"  => [tx |-> entry.tx, success |-> TRUE] \in Executed(n)'
      /\ entry.status = "failed"     => [tx |-> entry.tx, success |-> FALSE] \in Executed(n)'
      /\ entry.status = "nonce used" => Nonce(n)' > entry.tx.nonce
  <2>1. /\ entry.status = "confirmed"  => [tx |-> entry.tx, success |-> TRUE] \in Executed(n)
        /\ entry.status = "failed"     => [tx |-> entry.tx, success |-> FALSE] \in Executed(n)
        /\ entry.status = "nonce used" => Nonce(n) > entry.tx.nonce
    BY <1>0, <1>1 DEF EntryIsTrue
  <2>2. ASSUME entry.status = "nonce used" PROVE Nonce(n)' > entry.tx.nonce
    <3>1. PICK x, y, z : x = entry.tx.nonce /\ y = Nonce(n) /\ z = Nonce(n)'
      OBVIOUS
    <3>2. x \in Nat /\ y \in Nat /\ z \in Nat /\ y > x /\ y <= z
      BY <1>2, <1>3, <2>1, <2>2, <3>1
    <3>3. z > x
      BY ONLY <3>2
    <3> QED BY <3>1, <3>3
  <2>3. Executed(n) \subseteq Executed(n)'
    BY <1>2
  <2> QED BY ONLY <2>1, <2>2, <2>3
<1> QED BY <1>0, <1>4, <1>5, <1>6 DEF EntryIsTrue

LEMMA NodesKeep ==
  ASSUME PageInv, BlocksCome, PageStays
  PROVE  PageInv'
<1>1. /\ NodesHold(Transfer) /\ LateIsGood /\ ClientsAreGood /\ OnlyPending /\ OnePending
      /\ EntriesAreTrue /\ TaskIsGood /\ PreparedIsGood /\ TipIsGood /\ CheckersAreGood
  BY DEF PageInv
<1>2. /\ client' = client /\ task' = task /\ prepared' = prepared /\ tipDraft' = tipDraft
      /\ checker' = checker /\ late' \subseteq late
  BY DEF BlocksCome, PageStays, NodesGo
<1>3. \A n \in Network : Nonce(n) \in Nat /\ Nonce(n)' \in Nat /\ Nonce(n) <= Nonce(n)'
  BY <1>1, ReceiptsGrow DEF BlocksCome
<1>4. \A n \in Network : \A tx \in pool'[n] \cup late' : tx \in PageTx(n) => tx \in pool[n] \cup late
  <2> SUFFICES ASSUME NEW n \in Network, NEW tx \in pool'[n], tx \in PageTx(n)
               PROVE  tx \in pool[n] \cup late
    BY <1>2
  <2>1. tx.to # Outside
    BY RecipientAssumption DEF PageTx
  <2> QED BY <2>1 DEF BlocksCome, NodesGo
<1>5. NodesHold(Transfer)' /\ LateIsGood' /\ ClientsAreGood' /\ OnePending' /\ TipIsGood'
  BY <1>1, <1>2 DEF BlocksCome, NodesGo, LateIsGood, ClientsAreGood, OnePending, TipIsGood
<1>6. OnlyPending'
  <2> SUFFICES ASSUME NEW n \in Network, NEW tx \in pool'[n] \cup late', tx \in PageTx(n),
                      tx.nonce >= Nonce(n)'
               PROVE  client[n].pending /\ tx = PendingTx(n)
    BY <1>2 DEF OnlyPending, PendingTx
  <2>1. tx \in pool[n] \cup late
    BY <1>4
  <2>2. tx.nonce \in Nat
    BY DEF PageTx
  <2>3. tx.nonce >= Nonce(n)
    BY <1>3, <2>2
  <2> QED BY <1>1, <2>1, <2>3 DEF OnlyPending
<1>7. EntriesAreTrue'
  BY <1>2, RefusedStaysOut DEF EntriesAreTrue
<1>8. AnyPending' <=> AnyPending
  BY <1>2 DEF AnyPending
<1>9. ASSUME NEW mine, IsPageTx(mine), Unsent(mine) PROVE Unsent(mine)'
  <2>1. PICK n \in Network : mine.net = n /\ mine \in PageTx(n) /\ mine.nonce \in Nat
    BY <1>9 DEF IsPageTx, PageTx
  <2>2. ASSUME NEW r \in Executed(n)' PROVE r.tx # mine
    <3>1. CASE r \in Executed(n)
      BY <1>9, <2>1, <3>1 DEF Unsent, Receipt
    <3>2. CASE r \notin Executed(n)
      <4>1. r.tx \in pool[n] /\ r.tx.nonce = Nonce(n)
        BY <1>1, <2>1, <2>2, <3>2, ReceiptsGrow DEF BlocksCome
      <4> QED BY <1>3, <1>9, <2>1, <4>1 DEF Unsent
    <3> QED BY <3>1, <3>2
  <2>3. ASSUME NEW t \in pool'[n] \cup late', t \in PageTx(n) PROVE t.nonce < Nonce(n)'
    <3>1. t \in pool[n] \cup late
      BY <1>4, <2>1, <2>3
    <3>2. t.nonce < Nonce(n)
      BY <1>9, <2>1, <2>3, <3>1 DEF Unsent
    <3>3. t.nonce \in Nat
      BY <2>3 DEF PageTx
    <3>4. Nonce(n) \in Nat /\ Nonce(n)' \in Nat /\ Nonce(n) <= Nonce(n)'
      BY <1>3
    <3> QED BY ONLY <3>2, <3>3, <3>4
  <2> QED BY <2>1, <2>2, <2>3 DEF Unsent, Receipt
<1>10. TaskIsGood'
  BY <1>1, <1>2, <1>8, <1>9 DEF TaskIsGood, PendingTx
<1>11. PreparedIsGood'
  BY <1>1, <1>2, <1>8 DEF PreparedIsGood
<1>12. ASSUME NEW c \in {"poll", "confirm"}, CheckIsGood(c) PROVE CheckIsGood(c)'
  <2>1. CASE checker[c] = Off
    BY <1>2, <2>1 DEF CheckIsGood
  <2>2. CASE checker[c] # Off
    <3>1. PICK n, tx : n \in Network /\ n = checker[c].net /\ tx = CheckedTx(c)
                                   /\ checker[c].entry \in 1 .. Len(client[n].history)
      BY <1>12, <2>2 DEF CheckIsGood
    <3>2. tx.nonce \in Nat /\ tx.net = n /\ tx = CheckedTx(c)'
      BY <1>1, <1>2, <3>1, LastIs DEF CheckedTx
    <3>3. NonceUsed(tx) => NonceUsed(tx)'
      BY <1>3, <3>1, <3>2 DEF NonceUsed
    <3> QED BY <1>2, <1>12, <2>2, <3>1, <3>2, <3>3 DEF CheckIsGood
  <2> QED BY <2>1, <2>2
<1>13. CheckersAreGood'
  BY <1>1, <1>2, <1>12 DEF CheckersAreGood
<1> QED BY <1>5, <1>6, <1>7, <1>10, <1>11, <1>13 DEF PageInv

LEMMA LateGoes ==
  ASSUME NodesHold(Transfer), LateIsGood, NEW tx \in late, LateArrives(tx)
  PROVE  BlocksCome
<1>1. PICK n : n = tx.net
  OBVIOUS
<1>2. n \in Network /\ tx \in Transfer
  BY <1>1 DEF LateIsGood, PageTx, Transfer
<1>3. /\ receipts' = receipts /\ late' \subseteq late
      /\ pool' = pool \/ pool' = [pool EXCEPT ![n] = @ \cup {tx}]
  BY <1>1 DEF LateArrives, Submit
<1>4. DOMAIN pool = Network /\ DOMAIN pool' = Network
  BY <1>3 DEF NodesHold
<1>5. \A m \in Network : pool'[m] = pool[m] \/ (m = n /\ pool'[m] = pool[m] \cup {tx})
  BY <1>3, <1>4
<1>6. \A m \in Network : \A p \in pool'[m] : p \in pool[m] \cup late
  BY <1>5
<1>7. \A m \in Network : \A p \in pool'[m] : p \in Transfer /\ p.net = m
  BY <1>1, <1>2, <1>5 DEF NodesHold
<1>8. NodesHold(Transfer)'
  BY <1>3, <1>4, <1>7 DEF NodesHold
<1> QED BY <1>3, <1>6, <1>8 DEF BlocksCome, NodesGo

LEMMA BlocksKeep ==
  ASSUME PageInv, BlockForPage \/ (\E tx \in late : LateArrives(tx))
  PROVE  PageInv'
<1>1. NodesHold(Transfer) /\ LateIsGood
  BY DEF PageInv
<1>2. PageStays
  BY DEF BlockForPage, webVars, LateArrives, PageStays
<1>3. BlocksCome
  <2>1. CASE \E tx \in late : LateArrives(tx)
    BY <1>1, <2>1, LateGoes
  <2>2. CASE BlockForPage
    <3>1. UNCHANGED late
      BY <2>2 DEF BlockForPage, webVars
    <3>2. OthersMaySpend(Transfer)
      BY DEF OthersMaySpend, Transfer
    <3> QED BY <1>1, <2>2, <3>1, <3>2, WalletGoes DEF BlockForPage, BlocksCome
  <2> QED BY <2>1, <2>2
<1> QED BY <1>2, <1>3, NodesKeep

-----------------------------------------------------------------------------
(* The page's own steps: what is executed does not change.  A step leaves  *)
(* the entries alone, gives the pending one another status, or appends     *)
(* one.                                                                    *)
Same ==
  /\ UNCHANGED <<receipts, pool, late>> /\ DOMAIN client' = Network
  /\ \A n \in Network :
       /\ client'[n] \in Clients(n)
       /\ client'[n].history = client[n].history /\ client'[n].pending = client[n].pending

BooksAreGood ==
  /\ NodesHold(Transfer) /\ LateIsGood /\ ClientsAreGood /\ OnlyPending /\ OnePending /\ EntriesAreTrue

LEMMA BusyIsSame ==
  ASSUME ClientsAreGood, UNCHANGED <<receipts, pool, late>>, NEW n \in Network, NEW busy \in BOOLEAN,
         client' = client \/ client' = [client EXCEPT ![n].busy = busy]
  PROVE  Same
<1>1. DOMAIN client = Network /\ \A m \in Network : client[m] \in Clients(m)
  BY DEF ClientsAreGood
<1>2. DOMAIN client' = Network
  BY <1>1
<1>3. ASSUME NEW m \in Network
      PROVE  /\ client'[m] \in Clients(m)
             /\ client'[m].history = client[m].history /\ client'[m].pending = client[m].pending
  <2>1. client'[m] = client[m] \/ client'[m] = [client[m] EXCEPT !.busy = busy]
    BY <1>1
  <2> QED BY <1>1, <2>1 DEF Clients
<1> QED BY <1>2, <1>3 DEF Same

LEMMA SameKeeps ==
  ASSUME PageInv, Same
  PROVE  /\ BooksAreGood' /\ (AnyPending' <=> AnyPending)
         /\ \A n \in Network : PendingTx(n)' = PendingTx(n)
         /\ \A tx : Unsent(tx) => Unsent(tx)'
         /\ \A c \in {"poll", "confirm"} : checker'[c] = checker[c] => CheckIsGood(c)'
<1>1. NodesHold(Transfer) /\ LateIsGood /\ ClientsAreGood /\ OnlyPending /\ OnePending /\ EntriesAreTrue
  BY DEF PageInv
<1>2. /\ receipts' = receipts /\ pool' = pool /\ late' = late
      /\ \A n \in Network : client'[n].history = client[n].history
                            /\ client'[n].pending = client[n].pending
  BY DEF Same
<1>3. \A n \in Network : PendingTx(n)' = PendingTx(n)
  BY <1>2 DEF PendingTx
<1>4. NodesHold(Transfer)' /\ LateIsGood'
  BY <1>1, <1>2 DEF NodesHold, LateIsGood
<1>5. ClientsAreGood'
  BY <1>1, <1>2 DEF ClientsAreGood, Same
<1>6. OnlyPending'
  BY <1>1, <1>2, <1>3 DEF OnlyPending, Nonce
<1>7. OnePending' /\ (AnyPending' <=> AnyPending)
  BY <1>1, <1>2 DEF OnePending, AnyPending
<1>8. EntriesAreTrue'
  <2> SUFFICES ASSUME NEW n \in Network, NEW i \in 1 .. Len(client[n].history)
               PROVE  EntryIsTrue(n, i)'
    BY <1>2 DEF EntriesAreTrue
  <2>1. EntryIsTrue(n, i)
    BY <1>1 DEF EntriesAreTrue
  <2>2. client'[n].history = client[n].history
    BY <1>2
  <2>3. /\ Executed(n)' = Executed(n) /\ Nonce(n)' = Nonce(n)
        /\ \A tx : Receipt(tx)' = Receipt(tx)
    BY <1>2 DEF Executed, Receipt, Nonce
  <2> QED BY <2>1, <2>2, <2>3 DEF EntryIsTrue
<1>9. \A tx : Unsent(tx) => Unsent(tx)'
  BY <1>2 DEF Unsent, Receipt, Executed, Nonce
<1>10. ASSUME NEW c \in {"poll", "confirm"}, checker'[c] = checker[c] PROVE CheckIsGood(c)'
  <2>1. CheckIsGood(c)
    BY DEF PageInv, CheckersAreGood
  <2>2. CASE checker[c] = Off
    BY <1>10, <2>2 DEF CheckIsGood
  <2>3. CASE checker[c] # Off
    <3>1. checker[c].net \in Network
      BY <2>1, <2>3 DEF CheckIsGood
    <3>2. client'[checker[c].net].history = client[checker[c].net].history
      BY <1>2, <3>1
    <3>3. CheckedTx(c)' = CheckedTx(c)
      BY <1>10, <3>2 DEF CheckedTx
    <3>4. NonceUsed(CheckedTx(c))' <=> NonceUsed(CheckedTx(c))
      BY <1>2, <3>3 DEF NonceUsed, Nonce
    <3> QED BY <1>10, <2>1, <2>3, <3>2, <3>4 DEF CheckIsGood
  <2> QED BY <2>2, <2>3
<1> QED BY <1>3, <1>4, <1>5, <1>6, <1>7, <1>8, <1>9, <1>10 DEF BooksAreGood

-----------------------------------------------------------------------------
\* The pending entry of m gets another status.
Remarked(h, status) == [h EXCEPT ![Len(h)].status = status]

Marked(m, status, pending) ==
  /\ DOMAIN client' = Network /\ \A n \in Network : n # m => client'[n] = client[n]
  /\ client'[m] \in Clients(m) /\ client'[m].pending = pending
  /\ client'[m].history = Remarked(client[m].history, status)

LEMMA RemarkedIs ==
  ASSUME NEW n, NEW h \in Seq(Entries(n)), Len(h) >= 1, NEW status \in Statuses
  PROVE  /\ Remarked(h, status) \in Seq(Entries(n)) /\ Len(Remarked(h, status)) = Len(h)
         /\ \A i \in 1 .. Len(h) : Remarked(h, status)[i].tx = h[i].tx
         /\ \A i \in 1 .. Len(h) : i # Len(h) => Remarked(h, status)[i] = h[i]
         /\ Remarked(h, status)[Len(h)].status = status
<1> DEFINE l == Len(h)
           e == [h[l] EXCEPT !.status = status]
           S == Entries(n)
<1>1. l \in Nat /\ l \in 1 .. l /\ DOMAIN h = 1 .. l
  OBVIOUS
<1>2. h[l] \in Entries(n)
  BY <1>1
<1>3. e \in S /\ e.tx = h[l].tx /\ e.status = status
  BY <1>2 DEF Entries
<1>4. Remarked(h, status) = [h EXCEPT ![l] = e]
  BY DEF Remarked
<1>5. h \in Seq(S)
  OBVIOUS
<1> HIDE DEF e, S, l
<1>6. [h EXCEPT ![l] = e] \in Seq(S) /\ Len([h EXCEPT ![l] = e]) = Len(h)
  BY <1>1, <1>3, <1>5, ExceptSeq DEF l
<1>7. \A i \in 1 .. l : [h EXCEPT ![l] = e][i] = IF i = l THEN e ELSE h[i]
  BY <1>1
<1> QED BY <1>1, <1>3, <1>4, <1>6, <1>7 DEF l, S

LEMMA MarkIsMarked ==
  ASSUME ClientsAreGood, NEW m \in Network, client[m].pending, NEW status \in Statuses,
         NEW pending \in BOOLEAN, NEW busy \in BOOLEAN, NEW l, l = Len(client[m].history),
         \/ client' = [client EXCEPT ![m].pending = pending, ![m].history[l].status = status]
         \/ client' = [client EXCEPT ![m].busy = busy, ![m].pending = pending,
                                     ![m].history[l].status = status]
  PROVE  Marked(m, status, pending)
<1>1. /\ DOMAIN client = Network /\ client[m] \in Clients(m)
      /\ client[m].history \in Seq(Entries(m)) /\ Len(client[m].history) >= 1
  BY DEF ClientsAreGood, Clients
<1>2. PICK h : h = Remarked(client[m].history, status)
  OBVIOUS
<1>3. h = [client[m].history EXCEPT ![l].status = status]
  BY <1>2 DEF Remarked
<1>4. h \in Seq(Entries(m))
  BY <1>1, <1>2, RemarkedIs
<1>5. client'[m] \in Clients(m) /\ client'[m].pending = pending /\ client'[m].history = h
  <2> DEFINE H == Seq(Entries(m))
  <2>1. PICK r : r = client[m]
    OBVIOUS
  <2>2. r \in [history : H, pending : BOOLEAN, busy : BOOLEAN] /\ h \in H
    BY <1>1, <1>4, <2>1 DEF Clients
  <2>3. h = [r.history EXCEPT ![l].status = status]
    BY <1>3, <2>1
  <2> HIDE DEF H
  <2>4. CASE client' = [client EXCEPT ![m].pending = pending, ![m].history[l].status = status]
    <3>1. client'[m] = [r EXCEPT !.pending = pending, !.history[l].status = status]
      BY <1>1, <2>1, <2>4
    <3>2. client'[m] = [history |-> h, pending |-> pending, busy |-> r.busy]
      BY <2>2, <2>3, <3>1
    <3>3. client'[m] \in [history : H, pending : BOOLEAN, busy : BOOLEAN]
      BY <2>2, <3>2
    <3> QED BY <3>2, <3>3 DEF Clients, H
  <2>5. CASE client' = [client EXCEPT ![m].busy = busy, ![m].pending = pending,
                                      ![m].history[l].status = status]
    <3>1. client'[m] = [r EXCEPT !.busy = busy, !.pending = pending, !.history[l].status = status]
      BY <1>1, <2>1, <2>5
    <3>2. client'[m] = [history |-> h, pending |-> pending, busy |-> busy]
      BY <2>2, <2>3, <3>1
    <3>3. client'[m] \in [history : H, pending : BOOLEAN, busy : BOOLEAN]
      BY <2>2, <3>2
    <3> QED BY <3>2, <3>3 DEF Clients, H
  <2> QED BY <2>4, <2>5
<1>6. DOMAIN client' = Network /\ \A n \in Network : n # m => client'[n] = client[n]
  BY <1>1
<1> QED BY <1>2, <1>5, <1>6 DEF Marked

LEMMA EntryStays ==
  ASSUME NEW n, NEW i, EntryIsTrue(n, i), UNCHANGED receipts,
         client'[n].history[i] = client[n].history[i],
         \A tx : (\E j \in DOMAIN client[n].history : j > i /\ client[n].history[j].tx = tx)
                => \E j \in DOMAIN client'[n].history : j > i /\ client'[n].history[j].tx = tx
  PROVE  EntryIsTrue(n, i)'
<1>1. /\ Executed(n)' = Executed(n) /\ Nonce(n)' = Nonce(n)
      /\ \A tx : Receipt(tx)' = Receipt(tx)
  BY DEF Executed, Nonce, Receipt
<1>2. PICK e : e = client[n].history[i] /\ e = client'[n].history[i]
  OBVIOUS
<1>3. ASSUME \E j \in DOMAIN client[n].history : j > i /\ client[n].history[j].tx = e.tx
      PROVE  \E j \in DOMAIN client'[n].history : j > i /\ client'[n].history[j].tx = e.tx
  BY <1>3
<1>4. /\ e.status = "confirmed"  => [tx |-> e.tx, success |-> TRUE] \in Executed(n)
      /\ e.status = "failed"     => [tx |-> e.tx, success |-> FALSE] \in Executed(n)
      /\ e.status = "rejected"   =>
           \/ \E j \in DOMAIN client[n].history : j > i /\ client[n].history[j].tx = e.tx
           \/ Receipt(e.tx) = {}
      /\ e.status = "nonce used" => Nonce(n) > e.tx.nonce
  BY <1>2 DEF EntryIsTrue
<1> QED BY <1>1, <1>2, <1>3, <1>4 DEF EntryIsTrue

LEMMA MarkKeeps ==
  ASSUME PageInv, NEW m \in Network, client[m].pending, NEW status \in Statuses,
         NEW pending \in BOOLEAN, Marked(m, status, pending),
         UNCHANGED receipts, NodesHold(Transfer)', LateIsGood',
         pending => status \in {"submitted", "unconfirmed"},
         \A n \in Network : \A tx \in pool'[n] \cup late' :
           tx \in pool[n] \cup late \/ (pending /\ tx = PendingTx(m)),
         ~pending => \A tx \in pool[m] \cup late : tx = PendingTx(m) => tx.nonce < Nonce(m),
         status = "confirmed" => [tx |-> PendingTx(m), success |-> TRUE] \in Executed(m),
         status = "failed" => [tx |-> PendingTx(m), success |-> FALSE] \in Executed(m),
         status = "rejected" => Receipt(PendingTx(m)) = {},
         status = "nonce used" => Nonce(m) > PendingTx(m).nonce
  PROVE  /\ BooksAreGood' /\ (AnyPending' <=> pending)
         /\ \A c \in {"poll", "confirm"} : checker'[c] = checker[c] => CheckIsGood(c)'
<1>1. NodesHold(Transfer) /\ LateIsGood /\ ClientsAreGood /\ OnlyPending /\ OnePending /\ EntriesAreTrue
  BY DEF PageInv
<1>2. PICK h, g, l : h = client[m].history /\ g = client'[m].history /\ l = Len(h)
  OBVIOUS
<1>3. /\ h \in Seq(Entries(m)) /\ l \in Nat /\ l >= 1 /\ l \in 1 .. l
  <2>1. h \in Seq(Entries(m)) /\ l >= 1
    BY <1>1, <1>2 DEF ClientsAreGood, Clients
  <2>2. l \in Nat
    BY <1>1, <1>2, LastIs
  <2> QED BY ONLY <2>1, <2>2
<1>4. /\ g \in Seq(Entries(m)) /\ Len(g) = l
      /\ \A i \in 1 .. l : g[i].tx = h[i].tx
      /\ \A i \in 1 .. l : i # l => g[i] = h[i]
      /\ g[l].status = status
  <2>1. g = Remarked(h, status) /\ status \in Statuses /\ Len(h) = l
    BY <1>2 DEF Marked
  <2>2. /\ Remarked(h, status) \in Seq(Entries(m)) /\ Len(Remarked(h, status)) = Len(h)
        /\ \A i \in 1 .. Len(h) : Remarked(h, status)[i].tx = h[i].tx
        /\ \A i \in 1 .. Len(h) : i # Len(h) => Remarked(h, status)[i] = h[i]
        /\ Remarked(h, status)[Len(h)].status = status
    <3>1. h \in Seq(Entries(m)) /\ Len(h) >= 1
      BY ONLY <1>3, <2>1
    <3> QED BY ONLY <2>1, <3>1, RemarkedIs, Zenon
  <2> QED BY ONLY <2>1, <2>2, Zenon
<1>5. /\ DOMAIN client' = Network /\ \A n \in Network : n # m => client'[n] = client[n]
      /\ client'[m] \in Clients(m) /\ client'[m].pending = pending
  BY DEF Marked
<1>6. DOMAIN h = 1 .. l /\ DOMAIN g = 1 .. l
  <2>1. Len(h) = l
    BY <1>2
  <2> QED BY ONLY <1>3, <1>4, <2>1
<1>7. PICK p : p = PendingTx(m) /\ p = h[l].tx /\ p = g[l].tx /\ p \in PageTx(m)
               /\ p.net = m /\ p.nonce \in Nat
  <2>1. PendingTx(m) = h[l].tx
    BY <1>2 DEF PendingTx, Last
  <2>2. h[l] \in Entries(m)
    BY <1>1, <1>2, <1>3, LastIs
  <2>3. h[l].tx \in PageTx(m) /\ h[l].tx.net = m /\ h[l].tx.nonce \in Nat
    BY <2>2 DEF Entries, PageTx
  <2> QED BY <1>3, <1>4, <2>1, <2>3
<1>8. PendingTx(m)' = p
  BY <1>2, <1>4, <1>7 DEF PendingTx, Last
<1>9. \A n \in Network : n # m => ~client[n].pending /\ ~client'[n].pending
  BY <1>1, <1>5 DEF OnePending
<1>10. ClientsAreGood'
  <2> SUFFICES ASSUME NEW n \in Network
               PROVE  /\ client'[n] \in Clients(n)
                      /\ client'[n].pending =>
                           /\ Len(client'[n].history) >= 1
                           /\ Last(client'[n].history).status \in {"submitted", "unconfirmed"}
    BY <1>5 DEF ClientsAreGood
  <2>1. CASE n = m
    BY <1>2, <1>3, <1>4, <1>5, <2>1 DEF Last
  <2>2. CASE n # m
    BY <1>1, <1>5, <1>9, <2>2 DEF ClientsAreGood
  <2> QED BY <2>1, <2>2
<1>11. \A n \in Network : Nonce(n)' = Nonce(n) /\ Executed(n)' = Executed(n)
  BY DEF Nonce, Executed
<1>12. \A tx : Receipt(tx)' = Receipt(tx)
  BY DEF Receipt, Nonce, Executed
<1>13. OnlyPending'
  <2> SUFFICES ASSUME NEW n \in Network, NEW tx \in pool'[n] \cup late', tx \in PageTx(n),
                      tx.nonce >= Nonce(n)
               PROVE  client'[n].pending /\ tx = PendingTx(n)'
    BY <1>11 DEF OnlyPending
  <2>1. tx.net = n /\ tx.nonce \in Nat /\ Nonce(n) \in Nat
    BY <1>1, NonceIs DEF PageTx
  <2>2. CASE pending /\ tx = p
    BY <1>5, <1>7, <1>8, <2>1, <2>2
  <2>3. CASE ~(pending /\ tx = p)
    <3>1. tx \in pool[n] \cup late
      BY <1>7, <2>3
    <3>2. client[n].pending /\ tx = PendingTx(n)
      BY <1>1, <3>1 DEF OnlyPending
    <3>3. n = m /\ tx = p
      BY <1>7, <1>9, <3>2
    <3>4. tx.nonce < Nonce(n)
      BY <1>7, <2>3, <3>1, <3>3
    <3> QED BY ONLY <2>1, <3>4, tx.nonce >= Nonce(n)
  <2> QED BY <2>2, <2>3
<1>14. OnePending' /\ (AnyPending' <=> pending)
  BY <1>5, <1>9 DEF OnePending, AnyPending
<1>15. EntriesAreTrue'
  <2> SUFFICES ASSUME NEW n \in Network, NEW i \in 1 .. Len(client'[n].history)
               PROVE  EntryIsTrue(n, i)'
    BY DEF EntriesAreTrue
  <2>1. CASE n # m
    <3>1. client'[n] = client[n]
      BY <1>5, <2>1
    <3>2. EntryIsTrue(n, i)
      BY <1>1, <3>1 DEF EntriesAreTrue
    <3> QED BY <1>11, <1>12, <3>1, <3>2 DEF EntryIsTrue
  <2>2. CASE n = m
    <3>1. i \in 1 .. l
      BY <1>2, <1>4, <2>2
    <3>2. CASE i = l
      <4>1. client'[n].history[i].tx = p /\ client'[n].history[i].status = status
        BY <1>2, <1>4, <1>7, <2>2, <3>2
      <4>2. Executed(n)' = Executed(m) /\ Nonce(n)' = Nonce(m) /\ Receipt(p)' = Receipt(p)
        BY <1>11, <1>12, <2>2
      <4> QED BY <1>7, <4>1, <4>2 DEF EntryIsTrue
    <3>3. CASE i # l
      <4>1. client'[n].history[i] = client[n].history[i] /\ client'[n].history = g
            /\ client[n].history = h
        BY <1>2, <1>4, <2>2, <3>1, <3>3
      <4>2. EntryIsTrue(n, i)
        BY <1>1, <1>2, <2>2, <3>1 DEF EntriesAreTrue
      <4>3. \A tx : (\E j \in DOMAIN h : j > i /\ h[j].tx = tx)
                    => (\E j \in DOMAIN g : j > i /\ g[j].tx = tx)
        BY <1>4, <1>6
      <4>4. \A tx : (\E j \in DOMAIN client[n].history : j > i /\ client[n].history[j].tx = tx)
               => \E j \in DOMAIN client'[n].history : j > i /\ client'[n].history[j].tx = tx
        BY ONLY <4>1, <4>3
      <4> QED BY <4>1, <4>2, <4>4, EntryStays
    <3> QED BY <3>2, <3>3
  <2> QED BY <2>1, <2>2
<1>16. ASSUME NEW c \in {"poll", "confirm"}, checker'[c] = checker[c] PROVE CheckIsGood(c)'
  <2>1. CheckIsGood(c)
    BY DEF PageInv, CheckersAreGood
  <2>2. CASE checker[c] = Off
    BY <1>16, <2>2 DEF CheckIsGood
  <2>3. CASE checker[c] # Off
    <3>1. PICK n, i : /\ n \in Network /\ n = checker[c].net /\ i = checker[c].entry
                      /\ i \in 1 .. Len(client[n].history)
      BY <2>1, <2>3 DEF CheckIsGood
    <3>2. Len(client'[n].history) = Len(client[n].history)
          /\ client'[n].history[i].tx = client[n].history[i].tx
      <4>1. CASE n = m
        <5>1. client[n].history = h /\ client'[n].history = g /\ Len(h) = l
          BY <1>2, <4>1
        <5> QED BY ONLY <1>4, <3>1, <5>1
      <4>2. CASE n # m
        BY <1>5, <3>1, <4>2
      <4> QED BY <4>1, <4>2
    <3>3. CheckedTx(c)' = CheckedTx(c)
      BY <1>16, <3>1, <3>2 DEF CheckedTx
    <3>4. NonceUsed(CheckedTx(c))' <=> NonceUsed(CheckedTx(c))
      BY <3>3 DEF NonceUsed, Nonce
    <3> QED BY <1>16, <2>1, <2>3, <3>1, <3>2, <3>4 DEF CheckIsGood
  <2> QED BY <2>2, <2>3
<1> QED BY <1>10, <1>13, <1>14, <1>15, <1>16 DEF BooksAreGood

-----------------------------------------------------------------------------
\* A first submission: nothing was pending, and its nonce is the account's.
LEMMA AppendKeeps ==
  ASSUME PageInv, ~AnyPending, NEW m \in Network, NEW tx \in PageTx(m), tx.nonce = Nonce(m),
         client' = [client EXCEPT ![m].pending = TRUE,
                      ![m].history = Append(@, [tx |-> tx, status |-> "submitted"])],
         UNCHANGED <<receipts, pool, late>>
  PROVE  /\ BooksAreGood' /\ client'[m].pending /\ PendingTx(m)' = tx /\ Unsent(tx)'
         /\ client'[m].busy = client[m].busy
         /\ \A c \in {"poll", "confirm"} : checker'[c] = checker[c] => CheckIsGood(c)'
<1>1. NodesHold(Transfer) /\ LateIsGood /\ ClientsAreGood /\ OnlyPending /\ OnePending /\ EntriesAreTrue
  BY DEF PageInv
<1>2. PICK e, h, l, g : /\ e = [tx |-> tx, status |-> "submitted"] /\ h = client[m].history
                        /\ l = Len(h) /\ g = Append(h, e)
  OBVIOUS
<1>3. h \in Seq(Entries(m)) /\ l \in Nat /\ e \in Entries(m)
  <2>1. h \in Seq(Entries(m))
    BY <1>1, <1>2 DEF ClientsAreGood, Clients
  <2>2. l \in Nat
    BY <1>1, <1>2, LastIs
  <2>3. e \in Entries(m)
    BY <1>2 DEF Entries, Statuses
  <2> QED BY ONLY <2>1, <2>2, <2>3
<1>4. /\ g \in Seq(Entries(m)) /\ Len(g) = l + 1 /\ g[l + 1] = e
      /\ \A i \in 1 .. l : g[i] = h[i]
      /\ DOMAIN h = 1 .. l /\ DOMAIN g = 1 .. l + 1
  <2>1. g = Append(h, e) /\ l = Len(h)
    BY <1>2
  <2>2. /\ g \in Seq(Entries(m)) /\ Len(g) = l + 1 /\ g[l + 1] = e
        /\ \A i \in 1 .. l : g[i] = h[i]
    BY ONLY <1>3, <2>1, AppendProperties
  <2> QED BY ONLY <1>3, <2>1, <2>2
<1>5. /\ DOMAIN client' = Network /\ \A n \in Network : n # m => client'[n] = client[n]
      /\ client'[m] = [history |-> g, pending |-> TRUE, busy |-> client[m].busy]
      /\ client'[m] \in Clients(m)
  <2>1. DOMAIN client = Network /\ client[m] \in Clients(m)
    BY <1>1 DEF ClientsAreGood
  <2>2. client'[m] = [client[m] EXCEPT !.pending = TRUE, !.history = Append(@, e)]
    BY <1>2, <2>1
  <2>3. client'[m] = [history |-> g, pending |-> TRUE, busy |-> client[m].busy]
    <3> DEFINE H == Seq(Entries(m))
    <3>1. PICK r : r = client[m]
      OBVIOUS
    <3>2. r \in [history : H, pending : BOOLEAN, busy : BOOLEAN] /\ r.history = h
      BY <1>2, <2>1, <3>1 DEF Clients
    <3> HIDE DEF H
    <3>3. client'[m] = [r EXCEPT !.pending = TRUE, !.history = Append(@, e)]
      BY <2>2, <3>1
    <3>4. g = Append(h, e)
      BY <1>2
    <3> QED BY ONLY <3>1, <3>2, <3>3, <3>4
  <2>4. client[m].busy \in BOOLEAN
    BY <2>1 DEF Clients
  <2>5. client'[m] \in Clients(m)
    BY ONLY <1>4, <2>3, <2>4 DEF Clients
  <2> QED BY <2>1, <2>3, <2>5
<1>6. Last(g) = e /\ client'[m].history = g /\ client'[m].pending /\ e.tx = tx /\ e.status = "submitted"
  BY <1>2, <1>4, <1>5 DEF Last
<1>7. PendingTx(m)' = tx
  BY <1>6 DEF PendingTx
<1>8. \A n \in Network : n # m => ~client'[n].pending
  BY <1>5 DEF AnyPending
<1>9. \A n \in Network : ~client[n].pending
  BY DEF AnyPending
<1>10. NodesHold(Transfer)' /\ LateIsGood' /\ OnePending'
  <2>1. receipts' = receipts /\ pool' = pool /\ late' = late
    OBVIOUS
  <2>2. NodesHold(Transfer)' /\ LateIsGood'
    BY ONLY <1>1, <2>1 DEF NodesHold, LateIsGood
  <2>3. OnePending'
    BY ONLY <1>8 DEF OnePending
  <2> QED BY ONLY <2>2, <2>3
<1>11. ClientsAreGood'
  <2> SUFFICES ASSUME NEW n \in Network
               PROVE  /\ client'[n] \in Clients(n)
                      /\ client'[n].pending =>
                           /\ Len(client'[n].history) >= 1
                           /\ Last(client'[n].history).status \in {"submitted", "unconfirmed"}
    BY <1>5 DEF ClientsAreGood
  <2>1. CASE n = m
    <3>1. Len(g) >= 1
      BY ONLY <1>3, <1>4
    <3> QED BY ONLY <1>5, <1>6, <2>1, <3>1
  <2>2. CASE n # m
    BY <1>1, <1>5, <1>8, <2>2 DEF ClientsAreGood
  <2> QED BY <2>1, <2>2
<1>12. \A n \in Network : \A t \in pool[n] \cup late : t \in PageTx(n) => t.nonce < Nonce(n)
  <2> SUFFICES ASSUME NEW n \in Network, NEW t \in pool[n] \cup late, t \in PageTx(n)
               PROVE  t.nonce < Nonce(n)
    OBVIOUS
  <2>1. ~(t.nonce >= Nonce(n))
    BY <1>1, <1>9 DEF OnlyPending
  <2>2. t.nonce \in Nat /\ Nonce(n) \in Nat
    BY <1>1, NonceIs DEF PageTx
  <2> QED BY ONLY <2>1, <2>2
<1>13. /\ \A n : Nonce(n)' = Nonce(n) /\ Executed(n)' = Executed(n)
       /\ \A t : Receipt(t)' = Receipt(t)
  BY DEF Nonce, Executed, Receipt
<1>14. OnlyPending'
  <2> SUFFICES ASSUME NEW n \in Network, NEW t \in pool[n] \cup late, t \in PageTx(n),
                      t.nonce >= Nonce(n)
               PROVE  FALSE
    BY <1>13 DEF OnlyPending
  <2>1. t.nonce \in Nat /\ Nonce(n) \in Nat /\ t.nonce < Nonce(n)
    BY <1>1, <1>12, NonceIs DEF PageTx
  <2> QED BY ONLY <2>1, t.nonce >= Nonce(n)
<1>15. Unsent(tx)'
  <2>1. tx.net = m /\ tx.nonce \in Nat
    BY DEF PageTx
  <2>2. Receipt(tx) = {}
    <3> SUFFICES ASSUME NEW r \in Executed(m), r.tx = tx PROVE FALSE
      BY <2>1 DEF Receipt
    <3>1. r.tx.nonce < Nonce(m) /\ Nonce(m) \in Nat
      BY <1>1, NonceIs
    <3> QED BY ONLY <3>1, tx.nonce = Nonce(m), r.tx = tx
  <2> QED BY <1>12, <1>13, <2>1, <2>2 DEF Unsent
<1>16. EntriesAreTrue'
  <2> SUFFICES ASSUME NEW n \in Network, NEW i \in 1 .. Len(client'[n].history)
               PROVE  EntryIsTrue(n, i)'
    BY DEF EntriesAreTrue
  <2>1. CASE n # m
    <3>1. client'[n] = client[n]
      BY <1>5, <2>1
    <3>2. EntryIsTrue(n, i)
      BY <1>1, <3>1 DEF EntriesAreTrue
    <3> QED BY <3>1, <3>2, EntryStays
  <2>2. CASE n = m
    <3>1. i \in 1 .. l + 1 /\ client[n].history = h /\ client'[n].history = g
      BY <1>2, <1>4, <1>6, <2>2
    <3>2. CASE i = l + 1
      <4>1. client'[n].history[i].status = "submitted"
        BY <1>4, <1>6, <3>1, <3>2
      <4> QED BY <4>1 DEF EntryIsTrue
    <3>3. CASE i # l + 1
      <4>1. i \in 1 .. l
        BY ONLY <1>3, <3>1, <3>3
      <4>2. client'[n].history[i] = client[n].history[i]
        BY <1>4, <3>1, <4>1
      <4>3. EntryIsTrue(n, i)
        BY <1>1, <1>2, <3>1, <4>1 DEF EntriesAreTrue
      <4>4. \A t : (\E j \in DOMAIN h : j > i /\ h[j].tx = t)
                   => \E j \in DOMAIN g : j > i /\ g[j].tx = t
        <5>1. \A j \in 1 .. l : j \in 1 .. l + 1
          BY ONLY <1>3
        <5> QED BY ONLY <1>4, <5>1
      <4>5. \A t : (\E j \in DOMAIN client[n].history : j > i /\ client[n].history[j].tx = t)
                   => \E j \in DOMAIN client'[n].history : j > i /\ client'[n].history[j].tx = t
        BY ONLY <3>1, <4>4
      <4> QED BY <4>2, <4>3, <4>5, EntryStays
    <3> QED BY <3>2, <3>3
  <2> QED BY <2>1, <2>2
<1>17. ASSUME NEW c \in {"poll", "confirm"}, checker'[c] = checker[c] PROVE CheckIsGood(c)'
  <2>1. CheckIsGood(c)
    BY DEF PageInv, CheckersAreGood
  <2>2. CASE checker[c] = Off
    BY <1>17, <2>2 DEF CheckIsGood
  <2>3. CASE checker[c] # Off
    <3>1. PICK n, i : /\ n \in Network /\ n = checker[c].net /\ i = checker[c].entry
                      /\ i \in 1 .. Len(client[n].history)
      BY <2>1, <2>3 DEF CheckIsGood
    <3>2. i \in 1 .. Len(client'[n].history)
          /\ client'[n].history[i] = client[n].history[i]
      <4>1. CASE n = m
        <5>1. client[n].history = h /\ client'[n].history = g /\ Len(h) = l
          BY <1>2, <1>6, <4>1
        <5> QED BY ONLY <1>3, <1>4, <3>1, <5>1
      <4>2. CASE n # m
        BY <1>5, <3>1, <4>2
      <4> QED BY <4>1, <4>2
    <3>3. CheckedTx(c)' = CheckedTx(c)
      BY <1>17, <3>1, <3>2 DEF CheckedTx
    <3>4. NonceUsed(CheckedTx(c))' <=> NonceUsed(CheckedTx(c))
      BY <1>13, <3>3 DEF NonceUsed
    <3> QED BY <1>17, <2>1, <2>3, <3>1, <3>2, <3>4 DEF CheckIsGood
  <2> QED BY <2>2, <2>3
<1> QED BY <1>5, <1>6, <1>7, <1>10, <1>11, <1>14, <1>15, <1>16, <1>17 DEF BooksAreGood

-----------------------------------------------------------------------------
\* The steps that leave the clients' entries alone.
LEMMA TaskStays ==
  ASSUME PageInv, Same, UNCHANGED <<client, task>>
  PROVE  TaskIsGood'
<1>1. /\ TaskIsGood /\ (AnyPending' <=> AnyPending) /\ \A tx : Unsent(tx) => Unsent(tx)'
      /\ \A n \in Network : PendingTx(n)' = PendingTx(n)
  BY SameKeeps DEF PageInv
<1>2. ASSUME task.at = "post", IsPageTx(task.tx) PROVE PendingTx(task.tx.net)' = PendingTx(task.tx.net)
  BY <1>1, <1>2 DEF IsPageTx
<1> QED BY <1>1, <1>2 DEF TaskIsGood, IsPageTx

LEMMA QuietKeeps ==
  ASSUME PageInv, Same, TaskIsGood', PreparedIsGood', TipIsGood', UNCHANGED checker,
         checker["confirm"] # Off => task'.at = "confirm"
  PROVE  PageInv'
<1>1. /\ BooksAreGood'
      /\ \A c \in {"poll", "confirm"} : checker'[c] = checker[c] => CheckIsGood(c)'
  BY SameKeeps
<1>2. DOMAIN checker = {"poll", "confirm"}
  BY DEF PageInv, CheckersAreGood
<1>3. CheckIsGood("poll")' /\ CheckIsGood("confirm")'
  BY <1>1
<1>4. CheckersAreGood'
  BY <1>2, <1>3 DEF CheckersAreGood
<1> QED BY <1>1, <1>4 DEF PageInv, BooksAreGood

\* Nothing but the drafts.
LEMMA DraftsKeep ==
  ASSUME PageInv, UNCHANGED <<receipts, pool, late, client, task, checker>>,
         prepared' \in {prepared, NoTx}, tipDraft' \in {tipDraft, NoTx}
  PROVE  PageInv'
<1>1. /\ ClientsAreGood /\ PreparedIsGood /\ TipIsGood
      /\ checker["confirm"] # Off => task.at = "confirm"
  BY DEF PageInv, CheckersAreGood
<1>2. PICK n : n \in Network
  BY NetworkAssumption
<1>3. Same
  BY <1>1, <1>2, BusyIsSame
<1>4. TaskIsGood'
  BY <1>3, TaskStays
<1>5. AnyPending' <=> AnyPending
  BY <1>3, SameKeeps
<1>6. PreparedIsGood' /\ TipIsGood'
  BY <1>1, <1>5 DEF PreparedIsGood, TipIsGood
<1> QED BY <1>1, <1>3, <1>4, <1>6, QuietKeeps

\* The task begins, goes on or ends before anything is sent.
LEMMA TaskKeeps ==
  ASSUME PageInv, Same, UNCHANGED checker, task.at # "confirm", ~AnyPending,
         TaskIsGood', task'.at # "post",
         prepared' = NoTx \/ prepared' \in PageTx("l1"), tipDraft' = NoTx \/ tipDraft' \in PageTx("l1")
  PROVE  PageInv'
<1>1. ~AnyPending'
  BY SameKeeps
<1>2. checker["confirm"] = Off
  BY DEF PageInv, CheckersAreGood
<1>3. PreparedIsGood' /\ TipIsGood'
  BY <1>1 DEF PreparedIsGood, TipIsGood
<1> QED BY <1>2, <1>3, QuietKeeps

LEMMA StartPrepareKeeps ==
  ASSUME PageInv, NEW kind \in {"review", "demo", "tip"}, NEW n \in Network, NEW to \in Recipient,
         StartPrepare(kind, n, to), UNCHANGED walletVars
  PROVE  PageInv'
<1>1. /\ task = Off /\ ~AnyPending /\ tipDraft = NoTx /\ (kind # "demo" => n = "l1")
      /\ task' = [at |-> "prepare", kind |-> kind, net |-> n, to |-> to] /\ prepared' = NoTx
      /\ UNCHANGED <<tipDraft, client, checker, late>> /\ UNCHANGED <<receipts, pool>>
  BY DEF StartPrepare, Free, Working, walletVars
<1>2. ClientsAreGood
  BY DEF PageInv
<1>3. Same
  BY <1>1, <1>2, BusyIsSame
<1>4. ~AnyPending'
  BY <1>1, <1>3, SameKeeps
<1>5. TaskIsGood'
  BY <1>1, <1>4 DEF TaskIsGood
<1> QED BY <1>1, <1>3, <1>5, TaskKeeps DEF Off

LEMMA SendKeeps ==
  ASSUME PageInv, Send \/ SubmitTip, UNCHANGED walletVars
  PROVE  PageInv'
<1>1. /\ task = Off /\ UNCHANGED <<prepared, client, checker, late, receipts, pool>>
      /\ \/ /\ prepared # NoTx /\ task' = [at |-> "submit", kind |-> "send", tx |-> prepared]
            /\ tipDraft' = tipDraft
         \/ /\ tipDraft # NoTx /\ task' = [at |-> "submit", kind |-> "tip", tx |-> tipDraft]
            /\ ~AnyPending /\ tipDraft' = NoTx
  BY DEF Send, SubmitTip, Working, walletVars
<1>2. ClientsAreGood /\ PreparedIsGood /\ TipIsGood
  BY DEF PageInv
<1>3. PICK n : n \in Network
  BY NetworkAssumption
<1>4. Same
  BY <1>1, <1>2, <1>3, BusyIsSame
<1>5. ~AnyPending /\ ~AnyPending'
  BY <1>1, <1>2, <1>4, SameKeeps DEF PreparedIsGood, Off
<1>6. PICK tx, kind : tx \in PageTx("l1") /\ task' = [at |-> "submit", kind |-> kind, tx |-> tx]
                      /\ kind \in {"send", "tip"}
  BY <1>1, <1>2 DEF PreparedIsGood, TipIsGood
<1>7. tx.net = "l1" /\ IsPageTx(tx)
  BY <1>6, NetworkAssumption DEF IsPageTx, PageTx
<1>8. TaskIsGood'
  BY <1>5, <1>6, <1>7 DEF TaskIsGood, Kinds
<1>9. /\ prepared' = NoTx \/ prepared' \in PageTx("l1")
      /\ tipDraft' = NoTx \/ tipDraft' \in PageTx("l1")
  BY <1>1, <1>2 DEF PreparedIsGood, TipIsGood
<1> QED BY <1>1, <1>4, <1>5, <1>6, <1>8, <1>9, TaskKeeps DEF Off

LEMMA SendRetryKeeps ==
  ASSUME PageInv, NEW n \in Network, SendRetry(n), UNCHANGED walletVars
  PROVE  PageInv'
<1>1. /\ task = Off /\ client[n].pending /\ task' = [at |-> "post", kind |-> "retry", tx |-> PendingTx(n)]
      /\ client' = [client EXCEPT ![n].busy = TRUE]
      /\ UNCHANGED <<prepared, tipDraft, checker, late, receipts, pool>>
  BY DEF SendRetry, Working, walletVars
<1>2. ClientsAreGood /\ PreparedIsGood /\ TipIsGood /\ checker["confirm"] = Off
  BY <1>1 DEF PageInv, CheckersAreGood, Off
<1>3. Same
  BY <1>1, <1>2, BusyIsSame
<1>4. PendingTx(n)' = PendingTx(n)
  BY <1>3, SameKeeps
<1>5. PendingTx(n) \in PageTx(n) /\ PendingTx(n).net = n
  BY <1>1, <1>2, LastIs DEF PendingTx
<1>6. client'[n].busy /\ client'[n].pending
  BY <1>1, <1>2 DEF ClientsAreGood, Clients
<1>7. TaskIsGood'
  BY <1>1, <1>4, <1>5, <1>6 DEF TaskIsGood, IsPageTx
<1>8. PreparedIsGood' /\ TipIsGood'
  BY <1>1, <1>2 DEF PreparedIsGood, TipIsGood
<1> QED BY <1>1, <1>2, <1>3, <1>7, <1>8, QuietKeeps

LEMMA PreparedKeeps ==
  ASSUME PageInv, Prepared \/ PrepareFails, UNCHANGED walletVars
  PROVE  PageInv'
<1>1. /\ NodesHold(Transfer) /\ ClientsAreGood /\ PreparedIsGood /\ TipIsGood
      /\ task \in [at : {"prepare"}, kind : {"review", "demo", "tip"}, net : Network, to : Recipient]
      /\ task.kind # "demo" => task.net = "l1"
      /\ ~AnyPending
  BY DEF PageInv, TaskIsGood, Prepared, PrepareFails, Off
<1>2. PICK tx : tx = [net |-> task.net, nonce |-> Nonce(task.net), to |-> task.to]
  OBVIOUS
<1>3. tx \in PageTx(task.net) /\ tx.net = task.net /\ task.net \in Network
  BY <1>1, <1>2, NonceIs DEF PageTx
<1>4. UNCHANGED <<client, checker, late, receipts, pool>>
  BY DEF Prepared, PrepareFails, walletVars
<1>5. Same
  BY <1>1, <1>3, <1>4, BusyIsSame
<1>6. ~AnyPending'
  BY <1>1, <1>5, SameKeeps
<1>7. /\ task' \in {Off, [at |-> "submit", kind |-> "demo", tx |-> tx]}
      /\ prepared' = prepared \/ (prepared' = tx /\ task.net = "l1")
      /\ tipDraft' = tipDraft \/ (tipDraft' = tx /\ task.net = "l1")
  BY <1>1, <1>2 DEF Prepared, PrepareFails, WebFault
<1>8. TaskIsGood'
  BY <1>3, <1>6, <1>7 DEF TaskIsGood, IsPageTx, Kinds
<1>9. /\ prepared' = NoTx \/ prepared' \in PageTx("l1")
      /\ tipDraft' = NoTx \/ tipDraft' \in PageTx("l1")
  BY <1>1, <1>3, <1>7 DEF PreparedIsGood, TipIsGood
<1>10. task.at # "confirm" /\ task'.at # "post"
  BY <1>1, <1>7 DEF Off
<1> QED BY <1>1, <1>4, <1>5, <1>8, <1>9, <1>10, TaskKeeps

LEMMA StartSubmitKeeps ==
  ASSUME PageInv, StartSubmit, UNCHANGED walletVars
  PROVE  PageInv'
<1>1. /\ ClientsAreGood /\ PreparedIsGood /\ TipIsGood /\ task.at = "submit"
      /\ task = [at |-> "submit", kind |-> task.kind, tx |-> task.tx]
      /\ task.kind \in Kinds /\ IsPageTx(task.tx) /\ ~AnyPending
  BY DEF PageInv, TaskIsGood, StartSubmit, Off
<1>2. PICK n : n = task.tx.net /\ n \in Network
  BY <1>1 DEF IsPageTx
<1>3. /\ \/ client' = client /\ task' = Off /\ prepared' = NoTx
         \/ /\ client' = [client EXCEPT ![n].busy = TRUE] /\ prepared' = prepared
            /\ task' = [task EXCEPT !.at = "check"]
      /\ UNCHANGED <<tipDraft, checker, late, receipts, pool>>
  BY <1>2 DEF StartSubmit, walletVars
<1>4. Same
  BY <1>1, <1>2, <1>3, BusyIsSame
<1>5. ~AnyPending'
  BY <1>1, <1>4, SameKeeps
<1>6. task' = Off \/ task' = [at |-> "check", kind |-> task.kind, tx |-> task.tx]
  <2> DEFINE R(k, t) == [at |-> "submit", kind |-> k, tx |-> t]
  <2>1. PICK k, t : task = R(k, t) /\ k = task.kind /\ t = task.tx
    BY <1>1
  <2> QED BY <1>3, <2>1
<1>7. TaskIsGood'
  <2>1. CASE task' = Off
    BY <2>1 DEF TaskIsGood
  <2>2. CASE task' # Off
    <3>1. client'[n].busy
      BY <1>1, <1>2, <1>3, <2>2 DEF ClientsAreGood, Clients
    <3> QED BY <1>1, <1>2, <1>5, <1>6, <2>2, <3>1 DEF TaskIsGood, IsPageTx
  <2> QED BY <2>1, <2>2
<1>8. /\ prepared' = NoTx \/ prepared' \in PageTx("l1")
      /\ tipDraft' = NoTx \/ tipDraft' \in PageTx("l1")
  BY <1>1, <1>3 DEF PreparedIsGood, TipIsGood
<1>9. task.at # "confirm" /\ task'.at # "post"
  BY <1>1, <1>6 DEF Off
<1> QED BY <1>1, <1>3, <1>4, <1>7, <1>8, <1>9, TaskKeeps

LEMMA AccountCheckedKeeps ==
  ASSUME PageInv, AccountChecked, UNCHANGED walletVars
  PROVE  PageInv'
<1>1. /\ ClientsAreGood /\ PreparedIsGood /\ TipIsGood /\ task.at = "check"
      /\ task = [at |-> "check", kind |-> task.kind, tx |-> task.tx]
      /\ task.kind \in Kinds /\ IsPageTx(task.tx) /\ ~AnyPending /\ client[task.tx.net].busy
  BY DEF PageInv, TaskIsGood, AccountChecked, Off
<1>2. PICK n, tx, kind : /\ n = task.tx.net /\ n \in Network /\ tx = task.tx /\ tx \in PageTx(n)
                         /\ kind = task.kind
  BY <1>1 DEF IsPageTx
<1>3. UNCHANGED <<tipDraft, checker, late, receipts, pool>>
  BY DEF AccountChecked, walletVars
<1>4. checker["confirm"] = Off /\ DOMAIN checker = {"poll", "confirm"}
  BY <1>1 DEF PageInv, CheckersAreGood
<1>5. CASE Nonce(n) = tx.nonce /\ Balance(n) > 0
  <2>1. /\ client' = [client EXCEPT ![n].pending = TRUE,
                        ![n].history = Append(@, [tx |-> tx, status |-> "submitted"])]
        /\ task' = [task EXCEPT !.at = "post"] /\ prepared' = prepared
    BY <1>2, <1>5 DEF AccountChecked
  <2>2. /\ BooksAreGood' /\ client'[n].pending /\ PendingTx(n)' = tx /\ Unsent(tx)'
        /\ client'[n].busy = client[n].busy
        /\ \A c \in {"poll", "confirm"} : checker'[c] = checker[c] => CheckIsGood(c)'
    BY <1>1, <1>2, <1>3, <1>5, <2>1, AppendKeeps
  <2>3. task' = [at |-> "post", kind |-> kind, tx |-> tx]
    BY <1>1, <1>2, <2>1
  <2>4. client[n].busy
    BY <1>1, <1>2
  <2>5. TaskIsGood'
    BY <1>1, <1>2, <2>2, <2>3, <2>4 DEF TaskIsGood, IsPageTx
  <2>6. PreparedIsGood' /\ TipIsGood'
    BY <1>1, <1>3, <2>1, <2>3 DEF PreparedIsGood, TipIsGood
  <2>7. CheckersAreGood'
    BY <1>3, <1>4, <2>2 DEF CheckersAreGood
  <2> QED BY <2>2, <2>5, <2>6, <2>7 DEF PageInv, BooksAreGood
<1>6. CASE ~(Nonce(n) = tx.nonce /\ Balance(n) > 0)
  <2>1. client' = [client EXCEPT ![n].busy = FALSE] /\ task' = Off /\ prepared' = NoTx
    BY <1>2, <1>6 DEF AccountChecked
  <2>2. Same
    BY <1>1, <1>2, <1>3, <2>1, BusyIsSame
  <2>3. TaskIsGood'
    BY <2>1 DEF TaskIsGood
  <2>4. /\ tipDraft' = NoTx \/ tipDraft' \in PageTx("l1")
        /\ task.at # "confirm" /\ task'.at # "post"
    BY <1>1, <1>3, <2>1 DEF TipIsGood, Off
  <2> QED BY <1>1, <1>3, <2>1, <2>2, <2>3, <2>4, TaskKeeps
<1> QED BY <1>5, <1>6

-----------------------------------------------------------------------------
\* The answer to a submission, or none.
LEMMA PostKeeps ==
  ASSUME PageInv, PostAccepted \/ PostRefused \/ PostUncertain
  PROVE  PageInv'
<1>1. /\ NodesHold(Transfer) /\ LateIsGood /\ ClientsAreGood /\ OnlyPending /\ PreparedIsGood /\ TipIsGood
      /\ task.at = "post" /\ IsPageTx(task.tx)
      /\ client[task.tx.net].pending /\ task.tx = PendingTx(task.tx.net)
      /\ task.kind # "retry" => Unsent(task.tx)
  <2>1. /\ NodesHold(Transfer) /\ LateIsGood /\ ClientsAreGood /\ OnlyPending /\ PreparedIsGood /\ TipIsGood
        /\ TaskIsGood
    BY DEF PageInv
  <2>2. task.at = "post"
    BY DEF PostAccepted, PostRefused, PostUncertain
  <2>3. /\ IsPageTx(task.tx) /\ client[task.tx.net].pending /\ task.tx = PendingTx(task.tx.net)
        /\ task.kind # "retry" => Unsent(task.tx)
    BY ONLY <2>1, <2>2 DEF TaskIsGood, Off
  <2> QED BY <2>1, <2>2, <2>3
<1>2. PICK n, tx : n = task.tx.net /\ tx = task.tx /\ n \in Network /\ tx \in PageTx(n) /\ tx.net = n
  BY <1>1 DEF IsPageTx
<1>3. /\ task' \in {Off, [at |-> "confirm", tx |-> tx, left |-> MaxChecks]} /\ prepared' = NoTx
      /\ tipDraft' = tipDraft /\ checker' = checker /\ receipts' = receipts
  BY <1>2 DEF PostAccepted, PostRefused, PostUncertain, AfterPost, walletVars
<1>4. PICK status \in {"submitted", "unconfirmed", "rejected"}, pending \in BOOLEAN :
        /\ pending <=> status # "rejected"
        /\ Answered(status, pending)
        /\ status = "rejected" => task.kind # "retry" /\ pool' = pool /\ late' = late
  <2>1. CASE PostAccepted
    BY <2>1 DEF PostAccepted
  <2>2. CASE PostRefused
    BY <2>2 DEF PostRefused, RefusalIsFinal, walletVars
  <2>3. CASE PostUncertain
    BY <2>3 DEF PostUncertain
  <2> QED BY <2>1, <2>2, <2>3
<1>5. /\ pool' = pool \/ pool' = [pool EXCEPT ![n] = @ \cup {tx}]
      /\ late' \subseteq late \cup {tx}
  BY <1>2 DEF PostAccepted, PostRefused, PostUncertain, Submit, walletVars
<1>6. DOMAIN pool = Network /\ DOMAIN pool' = Network
      /\ \A m \in Network : \A p \in pool'[m] : p \in pool[m] \/ (m = n /\ p = tx)
  BY <1>1, <1>2, <1>5 DEF NodesHold
<1>7. tx \in Transfer
  BY <1>2 DEF PageTx, Transfer
<1>8. NodesHold(Transfer)'
  <2>1. \A m \in Network : \A p \in pool'[m] : p \in Transfer /\ p.net = m
    BY <1>1, <1>2, <1>6, <1>7 DEF NodesHold
  <2>2. receipts' = receipts /\ DOMAIN pool' = Network
    BY <1>3, <1>6
  <2> DEFINE Rs == Seq([tx : Transfer, success : BOOLEAN])
  <2>3. DOMAIN receipts = Network /\ \A m \in Network :
          /\ receipts[m] \in Rs
          /\ \A i \in 1 .. Len(receipts[m]) : receipts[m][i].tx.net = m /\ receipts[m][i].tx.nonce = i - 1
    BY ONLY <1>1 DEF NodesHold
  <2> HIDE DEF Rs
  <2>4. DOMAIN receipts' = Network /\ \A m \in Network :
          /\ receipts'[m] \in Rs
          /\ \A i \in 1 .. Len(receipts'[m]) : receipts'[m][i].tx.net = m /\ receipts'[m][i].tx.nonce = i - 1
    BY ONLY <2>2, <2>3
  <2> QED BY ONLY <2>1, <2>2, <2>4 DEF NodesHold, Rs
<1>9. LateIsGood'
  BY <1>1, <1>2, <1>5 DEF LateIsGood
<1>10. Marked(n, status, pending)
  <2>1. status \in Statuses /\ pending \in BOOLEAN
    BY <1>4 DEF Statuses
  <2>2. PICK l : l = Len(client[n].history)
    OBVIOUS
  <2>3. client' = [client EXCEPT ![n].busy = FALSE, ![n].pending = pending,
                                 ![n].history[l].status = status]
    BY <1>2, <1>4, <2>2 DEF Answered
  <2> QED BY <1>1, <1>2, <2>1, <2>2, <2>3, MarkIsMarked
<1>11. \A m \in Network : \A p \in pool'[m] \cup late' :
         p \in pool[m] \cup late \/ (pending /\ p = PendingTx(n))
  <2>1. CASE pending
    BY <1>1, <1>2, <1>5, <1>6, <2>1
  <2>2. CASE ~pending
    BY <1>4, <2>2
  <2> QED BY <1>4, <2>1, <2>2
<1>12. /\ ~pending => \A p \in pool[n] \cup late : p = PendingTx(n) => p.nonce < Nonce(n)
       /\ status = "rejected" => Receipt(PendingTx(n)) = {}
  BY <1>1, <1>2, <1>4 DEF Unsent
<1>13. /\ BooksAreGood' /\ \A c \in {"poll", "confirm"} : checker'[c] = checker[c] => CheckIsGood(c)'
  <2>1. status \in Statuses /\ pending \in BOOLEAN /\ (pending => status \in {"submitted", "unconfirmed"})
    BY <1>4 DEF Statuses
  <2>2. status # "confirmed" /\ status # "failed" /\ status # "nonce used"
    BY <1>4
  <2>3. client[n].pending
    BY <1>1, <1>2
  <2> QED BY <1>2, <1>3, <1>8, <1>9, <1>10, <1>11, <1>12, <2>1, <2>2, <2>3, MarkKeeps
<1>14. TaskIsGood' /\ PreparedIsGood' /\ TipIsGood'
  BY <1>1, <1>2, <1>3 DEF TaskIsGood, PreparedIsGood, TipIsGood, IsPageTx
<1>15. CheckersAreGood'
  <2>1. checker["confirm"] = Off /\ DOMAIN checker = {"poll", "confirm"}
    BY <1>1 DEF PageInv, CheckersAreGood
  <2> QED BY <1>3, <1>13, <2>1 DEF CheckersAreGood
<1> QED BY <1>13, <1>14, <1>15 DEF PageInv, BooksAreGood

-----------------------------------------------------------------------------
\* checkPending: the page's entries stay, or the pending one is concluded.
LEMMA CheckerKeeps ==
  ASSUME PageInv, NEW c \in {"poll", "confirm"}, NEW now, UNCHANGED <<receipts, pool, late, client>>,
         UNCHANGED <<prepared, tipDraft>>, checker' = [checker EXCEPT ![c] = now],
         TaskIsGood', task' = task \/ task.at = "confirm",
         checker'["confirm"] # Off => task'.at = "confirm", CheckIsGood(c)'
  PROVE  PageInv'
<1>1. ClientsAreGood /\ PreparedIsGood /\ TipIsGood /\ DOMAIN checker = {"poll", "confirm"}
  BY DEF PageInv, CheckersAreGood
<1>2. PICK n : n \in Network
  BY NetworkAssumption
<1>3. Same
  BY <1>1, <1>2, BusyIsSame
<1>4. /\ BooksAreGood' /\ (AnyPending' <=> AnyPending)
      /\ \A d \in {"poll", "confirm"} : checker'[d] = checker[d] => CheckIsGood(d)'
  BY <1>3, SameKeeps
<1>5. DOMAIN checker' = {"poll", "confirm"} /\ \A d \in {"poll", "confirm"} : CheckIsGood(d)'
  BY <1>1, <1>4
<1>6. CheckersAreGood'
  BY <1>5 DEF CheckersAreGood
<1>7. PreparedIsGood' /\ TipIsGood'
  BY <1>1, <1>4 DEF PreparedIsGood, TipIsGood
<1> QED BY <1>4, <1>6, <1>7 DEF PageInv, BooksAreGood

\* No other client has anything pending, and this one is not being sent for.
LEMMA ConcludesKeeps ==
  ASSUME PageInv, NEW c \in {"poll", "confirm"}, checker[c] # Off, Fresh(c),
         NEW status \in {"confirmed", "failed", "nonce used"}, Concludes(c, status),
         UNCHANGED <<receipts, pool, late, prepared, tipDraft, task>>,
         NonceUsed(CheckedTx(c)),
         status = "confirmed" => [tx |-> CheckedTx(c), success |-> TRUE] \in Executed(checker[c].net),
         status = "failed" => [tx |-> CheckedTx(c), success |-> FALSE] \in Executed(checker[c].net)
  PROVE  PageInv'
<1>1. /\ NodesHold(Transfer) /\ LateIsGood /\ ClientsAreGood /\ OnePending /\ PreparedIsGood /\ TipIsGood
      /\ TaskIsGood /\ CheckersAreGood
  BY DEF PageInv
<1>2. PICK n, l, tx : /\ n = checker[c].net /\ l = checker[c].entry /\ tx = CheckedTx(c)
                      /\ n \in Network /\ l \in 1 .. Len(client[n].history)
  BY <1>1 DEF CheckersAreGood, CheckIsGood
<1>3. client[n].pending /\ ~client[n].busy /\ l = Len(client[n].history)
  BY <1>2 DEF Fresh, Checkable
<1>4. tx = PendingTx(n) /\ tx.net = n /\ tx.nonce \in Nat /\ Nonce(n) \in Nat
  <2>1. tx = client[n].history[l].tx
    BY <1>2 DEF CheckedTx
  <2>2. /\ Last(client[n].history) = client[n].history[Len(client[n].history)]
        /\ client[n].history[l].tx.net = n /\ client[n].history[l].tx.nonce \in Nat
    BY <1>1, <1>2, LastIs
  <2>3. PendingTx(n) = tx
    BY <1>3, <2>1, <2>2 DEF PendingTx
  <2>4. Nonce(n) \in Nat
    BY <1>1, <1>2, NonceIs
  <2> QED BY <2>1, <2>2, <2>3, <2>4
<1>5. client' = [client EXCEPT ![n].pending = FALSE, ![n].history[l].status = status]
      /\ checker' = [checker EXCEPT ![c] = Off]
  BY <1>2 DEF Concludes, StopsChecking
<1>6. Marked(n, status, FALSE)
  <2>1. status \in Statuses
    BY DEF Statuses
  <2> QED BY <1>1, <1>2, <1>3, <1>5, <2>1, MarkIsMarked
<1>7. NodesHold(Transfer)' /\ LateIsGood'
  <2>1. receipts' = receipts /\ pool' = pool /\ late' = late
    OBVIOUS
  <2> QED BY ONLY <1>1, <2>1 DEF NodesHold, LateIsGood
<1>8. /\ BooksAreGood' /\ ~AnyPending'
      /\ \A d \in {"poll", "confirm"} : checker'[d] = checker[d] => CheckIsGood(d)'
  <2>1. status \in Statuses /\ status # "rejected"
    BY DEF Statuses
  <2>2. /\ status = "confirmed" => [tx |-> PendingTx(n), success |-> TRUE] \in Executed(n)
        /\ status = "failed" => [tx |-> PendingTx(n), success |-> FALSE] \in Executed(n)
        /\ Nonce(n) > PendingTx(n).nonce
    BY <1>2, <1>4 DEF NonceUsed
  <2>3. \A p \in pool[n] \cup late : p = PendingTx(n) => p.nonce < Nonce(n)
    <3>1. PICK x, y : x = PendingTx(n).nonce /\ y = Nonce(n)
      OBVIOUS
    <3>2. x \in Nat /\ y \in Nat
      BY <1>4, <3>1
    <3>3. x < y
      BY ONLY <2>2, <3>1, <3>2
    <3> QED BY <3>1, <3>3
  <2>4. \A m \in Network : \A p \in pool'[m] \cup late' : p \in pool[m] \cup late
    OBVIOUS
  <2>5. UNCHANGED receipts
    OBVIOUS
  <2>6. PICK pending \in BOOLEAN : ~pending
    OBVIOUS
  <2>7. Marked(n, status, pending)
    BY <1>6, <2>6
  <2> QED BY <1>2, <1>3, <1>7, <2>1, <2>2, <2>3, <2>4, <2>5, <2>6, <2>7, MarkKeeps
<1>9. AnyPending
  BY <1>2, <1>3 DEF AnyPending
<1>10. task = Off \/ (task.at = "confirm" /\ IsPageTx(task.tx))
  <2>1. CASE task.at = "post"
    <3>1. task.tx.net \in Network /\ client[task.tx.net].busy /\ client[task.tx.net].pending
      <4>1. TaskIsGood
        BY <1>1
      <4>2. task # Off
        <5>1. Off.at = "off"
          BY DEF Off
        <5> QED BY <2>1, <5>1
      <4>3. task.at # "submit" /\ task.at # "check" /\ task.at # "confirm"
        BY <2>1
      <4>4. task \notin [at : {"prepare"}, kind : {"review", "demo", "tip"}, net : Network,
                         to : Recipient]
        BY <2>1
      <4>5. IsPageTx(task.tx) /\ client[task.tx.net].busy /\ client[task.tx.net].pending
        BY ONLY <4>1, <4>2, <4>3, <4>4, Zenon DEF TaskIsGood
      <4> QED BY <4>5 DEF IsPageTx
    <3> QED BY <1>1, <1>2, <1>3, <3>1 DEF OnePending
  <2>2. CASE task.at # "post"
    BY <1>1, <1>9, <2>2 DEF TaskIsGood
  <2> QED BY <2>1, <2>2
<1>11. TaskIsGood' /\ PreparedIsGood' /\ TipIsGood'
  BY <1>1, <1>8, <1>10 DEF TaskIsGood, PreparedIsGood, TipIsGood, IsPageTx
<1>12. CheckersAreGood'
  <2>1. DOMAIN checker = {"poll", "confirm"} /\ (checker["confirm"] # Off => task.at = "confirm")
    BY <1>1 DEF CheckersAreGood
  <2>2. DOMAIN checker' = {"poll", "confirm"} /\ checker'[c] = Off
        /\ \A d \in {"poll", "confirm"} : d # c => checker'[d] = checker[d]
    BY <1>5, <2>1
  <2>3. \A d \in {"poll", "confirm"} : CheckIsGood(d)'
    BY <1>8, <2>2 DEF CheckIsGood
  <2>4. checker'["confirm"] # Off => task'.at = "confirm"
    BY <2>1, <2>2
  <2> QED BY <2>2, <2>3, <2>4 DEF CheckersAreGood
<1> QED BY <1>8, <1>11, <1>12 DEF PageInv, BooksAreGood

\* What has a receipt has used its nonce.
LEMMA ReceiptUsesNonce ==
  ASSUME NodesHold(Transfer), NEW tx, tx.net \in Network, NEW r \in Receipt(tx)
  PROVE  NonceUsed(tx) /\ r = [tx |-> tx, success |-> r.success] /\ r.success \in BOOLEAN
<1>1. PICK n : n = tx.net /\ n \in Network
  OBVIOUS
<1>2. r \in Executed(n) /\ r.tx = tx
  BY <1>1 DEF Receipt
<1>3. tx.nonce \in Nat /\ tx.nonce < Nonce(n) /\ Nonce(n) \in Nat
  BY <1>1, <1>2, NonceIs
<1>4. NonceUsed(tx)
  BY <1>1, <1>3 DEF NonceUsed
<1>5. r \in [tx : Transfer, success : BOOLEAN]
  <2> DEFINE S == [tx : Transfer, success : BOOLEAN]
  <2>1. receipts[n] \in Seq(S)
    BY <1>1 DEF NodesHold
  <2>2. PICK i \in 1 .. Len(receipts[n]) : r = receipts[n][i]
    BY <1>2 DEF Executed, Nonce
  <2> HIDE DEF S
  <2>3. r \in S
    BY ONLY <2>1, <2>2
  <2> QED BY <2>3 DEF S
<1> QED BY <1>2, <1>4, <1>5

LEMMA CheckStepKeeps ==
  ASSUME PageInv, NEW c \in {"poll", "confirm"}, CheckStep(c), UNCHANGED walletVars
  PROVE  PageInv'
<1>1. /\ NodesHold(Transfer) /\ ClientsAreGood /\ CheckIsGood(c) /\ TaskIsGood
      /\ DOMAIN checker = {"poll", "confirm"} /\ (checker["confirm"] # Off => task.at = "confirm")
  BY DEF PageInv, CheckersAreGood
<1>2. checker[c] # Off /\ UNCHANGED <<receipts, pool, late, prepared, tipDraft, task>>
  <2>1. /\ checker[c].at \in {"receipt", "account", "again"}
        /\ UNCHANGED <<wallet, prepared, tipDraft, late>> /\ task' = task
    BY DEF CheckStep, ReceiptRead, ReceiptMissed, NonceChecked, ReceiptMissedAgain, CheckKeeps
  <2> QED BY <2>1 DEF walletVars, Off
<1>3. PICK n, l : /\ n = checker[c].net /\ l = checker[c].entry /\ n \in Network
                  /\ l \in 1 .. Len(client[n].history)
                  /\ checker[c] \in [at : {"receipt", "account", "again"}, net : Network, entry : Nat]
  BY <1>1, <1>2 DEF CheckIsGood
<1>4. CheckedTx(c).net = n
  BY <1>1, <1>3, LastIs DEF CheckedTx
<1>5. ASSUME UNCHANGED client, NEW now, checker' = [checker EXCEPT ![c] = now],
             now = Off \/ (/\ now \in [at : {"receipt", "account", "again"}, net : {n}, entry : {l}]
                           /\ now.at = "again" => NonceUsed(CheckedTx(c)))
      PROVE  PageInv'
  <2>1. checker'[c] = now
    BY <1>1, <1>5
  <2>2. CheckIsGood(c)'
    <3>1. CASE now = Off
      BY <2>1, <3>1 DEF CheckIsGood
    <3>2. CASE now # Off
      <4>1. now.net = n /\ now.entry = l /\ l \in Nat /\ now \in [at : {"receipt", "account", "again"}, net : Network, entry : Nat]
        BY <1>3, <1>5, <3>2
      <4>2. CheckedTx(c)' = CheckedTx(c)
        BY <1>3, <1>5, <2>1, <4>1 DEF CheckedTx
      <4>3. NonceUsed(CheckedTx(c))' <=> NonceUsed(CheckedTx(c))
        BY <1>2, <4>2 DEF NonceUsed, Nonce
      <4>4. checker'[c].at = "again" => NonceUsed(CheckedTx(c))'
        BY <1>5, <2>1, <3>2, <4>3
      <4>5. checker'[c].entry \in 1 .. Len(client'[checker'[c].net].history)
        BY <1>3, <1>5, <2>1, <4>1
      <4> QED BY <2>1, <4>1, <4>4, <4>5 DEF CheckIsGood
    <3> QED BY <3>1, <3>2
  <2>3. checker'["confirm"] # Off => task'.at = "confirm"
    <3>1. CASE c = "confirm"
      BY <1>1, <1>2, <3>1
    <3>2. CASE c # "confirm"
      BY <1>1, <1>2, <1>5, <3>2
    <3> QED BY <3>1, <3>2
  <2>4. TaskIsGood'
    <3>1. PICK m : m \in Network
      BY <1>3
    <3>2. Same
      BY <1>1, <1>2, <1>5, <3>1, BusyIsSame
    <3> QED BY <1>2, <1>5, <3>2, TaskStays
  <2> QED BY <1>2, <1>5, <2>2, <2>3, <2>4, CheckerKeeps
<1>6. ASSUME StopsChecking(c), UNCHANGED client PROVE PageInv'
  BY <1>5, <1>6 DEF StopsChecking
<1>7. CASE ReceiptRead(c)
  <2>1. CASE ~Fresh(c)
    BY <1>6, <1>7, <2>1 DEF ReceiptRead
  <2>2. CASE Fresh(c)
    <3>1. PICK r \in Receipt(CheckedTx(c)) : Concludes(c, IF r.success THEN "confirmed" ELSE "failed")
      BY <1>7, <2>2 DEF ReceiptRead
    <3>2. /\ NonceUsed(CheckedTx(c)) /\ r = [tx |-> CheckedTx(c), success |-> r.success]
          /\ r.success \in BOOLEAN /\ r \in Executed(n)
      BY <1>1, <1>3, <1>4, <3>1, ReceiptUsesNonce DEF Receipt
    <3>3. CASE r.success
      <4>1. Concludes(c, "confirmed") /\ [tx |-> CheckedTx(c), success |-> TRUE] \in Executed(n)
        BY <3>1, <3>2, <3>3
      <4> QED BY <1>2, <1>3, <2>2, <3>2, <4>1, ConcludesKeeps
    <3>4. CASE ~r.success
      <4>1. Concludes(c, "failed") /\ [tx |-> CheckedTx(c), success |-> FALSE] \in Executed(n)
        BY <3>1, <3>2, <3>4
      <4> QED BY <1>2, <1>3, <2>2, <3>2, <4>1, ConcludesKeeps
    <3> QED BY <3>3, <3>4
  <2> QED BY <2>1, <2>2
<1>8. CASE ReceiptMissed(c)
  <2>1. CASE Fresh(c)
    <3>1. PICK now : now = [checker[c] EXCEPT !.at = "account"]
      OBVIOUS
    <3>2. checker' = [checker EXCEPT ![c] = now] /\ client' = client
      BY <1>8, <2>1, <3>1 DEF ReceiptMissed
    <3>3. now \in [at : {"receipt", "account", "again"}, net : {n}, entry : {l}] /\ now.at = "account"
      BY <1>3, <3>1
    <3> QED BY <1>5, <3>2, <3>3
  <2> QED BY <1>6, <1>8, <2>1 DEF ReceiptMissed
<1>9. CASE NonceChecked(c)
  <2>1. CASE Fresh(c) /\ NonceUsed(CheckedTx(c))
    <3>1. PICK now : now = [checker[c] EXCEPT !.at = "again"]
      OBVIOUS
    <3>2. checker' = [checker EXCEPT ![c] = now] /\ client' = client
      BY <1>9, <2>1, <3>1 DEF NonceChecked
    <3>3. now \in [at : {"receipt", "account", "again"}, net : {n}, entry : {l}] /\ now.at = "again"
      BY <1>3, <3>1
    <3> QED BY <1>5, <2>1, <3>2, <3>3
  <2> QED BY <1>6, <1>9, <2>1 DEF NonceChecked
<1>10. CASE ReceiptMissedAgain(c)
  <2>1. CASE Fresh(c)
    <3>1. Concludes(c, "nonce used") /\ NonceUsed(CheckedTx(c))
      BY <1>1, <1>2, <1>10, <2>1 DEF ReceiptMissedAgain, CheckIsGood
    <3> QED BY <1>2, <2>1, <3>1, ConcludesKeeps
  <2> QED BY <1>6, <1>10, <2>1 DEF ReceiptMissedAgain
<1> QED BY <1>7, <1>8, <1>9, <1>10 DEF CheckStep

LEMMA CheckStartsOrEnds ==
  ASSUME PageInv,
         \/ (\E n \in Network : PollClient(n)) \/ ConfirmCheck \/ ConfirmEnds
         \/ \E c \in {"poll", "confirm"} : CheckFails(c),
         UNCHANGED walletVars
  PROVE  PageInv'
<1>1. /\ ClientsAreGood /\ PreparedIsGood /\ TipIsGood /\ TaskIsGood
      /\ DOMAIN checker = {"poll", "confirm"} /\ (checker["confirm"] # Off => task.at = "confirm")
      /\ CheckIsGood("poll") /\ CheckIsGood("confirm")
  BY DEF PageInv, CheckersAreGood
<1>2. UNCHANGED <<receipts, pool, late, prepared, tipDraft, client>>
  BY DEF PollClient, ConfirmCheck, ConfirmEnds, CheckFails, CheckKeeps, walletVars
<1>3. PICK m : m \in Network
  BY NetworkAssumption
<1>4. Same
  BY <1>1, <1>2, <1>3, BusyIsSame
<1>5. UNCHANGED task => TaskIsGood'
  BY <1>2, <1>4, TaskStays
<1>6. ASSUME NEW c \in {"poll", "confirm"}, NEW n \in Network, Checkable(n), Checking(c, n)
      PROVE  CheckIsGood(c)' /\ \E now : checker' = [checker EXCEPT ![c] = now]
  <2>1. PICK l : /\ l = Len(client[n].history) /\ l \in Nat /\ l \in 1 .. l
    BY <1>1, <1>6, LastIs DEF Checkable
  <2>2. PICK now : now = [at |-> "receipt", net |-> n, entry |-> l]
    OBVIOUS
  <2>3. checker' = [checker EXCEPT ![c] = now]
    BY <1>6, <2>1, <2>2 DEF Checking
  <2>4. checker'[c] = now
    BY <1>1, <2>3
  <2>5. /\ now \in [at : {"receipt", "account", "again"}, net : Network, entry : Nat]
        /\ now.net = n /\ now.entry = l /\ now.at # "again"
    BY <2>1, <2>2
  <2>6. CheckIsGood(c)'
    BY <1>2, <2>1, <2>4, <2>5 DEF CheckIsGood
  <2> QED BY <2>3, <2>6
<1>7. CASE \E n \in Network : PollClient(n)
  <2>1. PICK n \in Network : Checkable(n) /\ Checking("poll", n) /\ task' = task
    BY <1>7 DEF PollClient
  <2>2. checker'["confirm"] = checker["confirm"]
    BY <1>1, <2>1 DEF Checking
  <2> QED BY <1>1, <1>2, <1>5, <1>6, <2>1, <2>2, CheckerKeeps
<1>8. CASE ConfirmCheck
  <2>1. task.at = "confirm" /\ IsPageTx(task.tx)
    BY <1>1, <1>8 DEF ConfirmCheck, Confirming, TaskIsGood, Off
  <2>2. task'.at = "confirm" /\ task'.tx = task.tx
    BY <1>8, <2>1 DEF ConfirmCheck
  <2>3. TaskIsGood'
    BY <2>1, <2>2 DEF TaskIsGood, IsPageTx
  <2>4. Checkable(task.tx.net) /\ Checking("confirm", task.tx.net) /\ task.tx.net \in Network
    BY <1>8, <2>1 DEF ConfirmCheck, IsPageTx
  <2> QED BY <1>1, <1>2, <1>6, <2>1, <2>2, <2>3, <2>4, CheckerKeeps
<1>9. CASE ConfirmEnds
  <2>1. task' = Off /\ checker' = checker /\ checker["confirm"] = Off
    BY <1>9 DEF ConfirmEnds, Confirming
  <2>2. TaskIsGood' /\ PreparedIsGood' /\ TipIsGood'
    <3>1. task.at = "confirm"
      BY <1>9 DEF ConfirmEnds, Confirming
    <3>2. AnyPending' <=> AnyPending
      BY <1>4, SameKeeps
    <3> QED BY <1>1, <1>2, <2>1, <3>1, <3>2 DEF TaskIsGood, PreparedIsGood, TipIsGood
  <2> QED BY <1>4, <2>1, <2>2, QuietKeeps
<1>10. CASE \E c \in {"poll", "confirm"} : CheckFails(c)
  <2>1. PICK c \in {"poll", "confirm"} :
          /\ checker[c] # Off /\ checker' = [checker EXCEPT ![c] = Off]
          /\ task' = IF c = "confirm" THEN Off ELSE task
    BY <1>10 DEF CheckFails, StopsChecking
  <2>2. checker'[c] = Off /\ CheckIsGood(c)'
    BY <1>1, <2>1 DEF CheckIsGood
  <2>3. TaskIsGood' /\ (task' = task \/ task.at = "confirm")
    BY <1>1, <1>5, <2>1 DEF TaskIsGood
  <2>4. checker'["confirm"] # Off => task'.at = "confirm"
    BY <1>1, <2>1, <2>2
  <2> QED BY <1>2, <2>1, <2>2, <2>3, <2>4, CheckerKeeps
<1> QED BY <1>7, <1>8, <1>9, <1>10

LEMMA PageInvInit == WebInit /\ WalletInit => PageInv
<1> SUFFICES ASSUME WebInit, WalletInit PROVE PageInv
  OBVIOUS
<1> DEFINE Rs == Seq([tx : Transfer, success : BOOLEAN])
<1>1. /\ receipts = [n \in Network |-> <<>>] /\ pool = [n \in Network |-> {}]
      /\ client = [n \in Network |-> [history |-> <<>>, pending |-> FALSE, busy |-> FALSE]]
      /\ checker = [c \in {"poll", "confirm"} |-> Off] /\ late = {}
      /\ task = Off /\ prepared = NoTx /\ tipDraft = NoTx
  BY DEF WebInit, WalletInit
<1>2. ASSUME NEW n \in Network
      PROVE  receipts[n] = <<>> /\ pool[n] = {} /\ client[n].history = <<>> /\ ~client[n].pending
             /\ client[n] \in Clients(n)
  BY <1>1 DEF Clients
<1>3. Len(<<>>) = 0 /\ 1 .. 0 = {} /\ <<>> \in Rs
  OBVIOUS
<1>4. NodesHold(Transfer)
  <2> HIDE DEF Rs
  <2>1. \A n \in Network : /\ receipts[n] \in Rs
                           /\ 1 .. Len(receipts[n]) = {} /\ pool[n] = {}
    BY <1>2, <1>3
  <2> QED BY <1>1, <2>1 DEF NodesHold, Rs
<1>5. LateIsGood /\ ClientsAreGood /\ OnlyPending /\ OnePending /\ EntriesAreTrue
  BY <1>1, <1>2, <1>3 DEF LateIsGood, ClientsAreGood, OnlyPending, OnePending, EntriesAreTrue
<1>6. TaskIsGood /\ PreparedIsGood /\ TipIsGood
  BY <1>1 DEF TaskIsGood, PreparedIsGood, TipIsGood
<1>7. CheckersAreGood
  BY <1>1 DEF CheckersAreGood, CheckIsGood
<1> QED BY <1>4, <1>5, <1>6, <1>7 DEF PageInv

LEMMA PageInvStep == PageInv /\ [WebNext \/ BlockForPage]_<<webVars, walletVars>> => PageInv'
<1> SUFFICES ASSUME PageInv, [WebNext \/ BlockForPage]_<<webVars, walletVars>> PROVE PageInv'
  OBVIOUS
<1>1. CASE UNCHANGED <<webVars, walletVars>>
  BY <1>1, DraftsKeep DEF webVars, walletVars
<1>2. CASE BlockForPage \/ (\E tx \in late : LateArrives(tx))
  BY <1>2, BlocksKeep
<1>3. CASE PollStep
  BY <1>3, CheckStepKeeps, CheckStartsOrEnds DEF PollStep
<1>4. CASE TaskStep
  BY <1>4, PostKeeps, PreparedKeeps, StartSubmitKeeps, AccountCheckedKeeps, CheckStartsOrEnds,
     CheckStepKeeps DEF TaskStep
<1>5. CASE PostUncertain
  BY <1>5, PostKeeps
<1>6. CASE UserStep /\ UNCHANGED walletVars
  <2>1. CASE LoadAccount \/ CloseAccount \/ ClearReview \/ CancelTip
    BY <1>6, <2>1, DraftsKeep DEF LoadAccount, CloseAccount, ClearReview, CancelTip, walletVars
  <2> QED BY <1>6, <2>1, SendKeeps, StartPrepareKeeps, SendRetryKeeps DEF UserStep
<1>7. CASE (PrepareFails \/ \E c \in {"poll", "confirm"} : CheckFails(c)) /\ UNCHANGED walletVars
  BY <1>7, PreparedKeeps, CheckStartsOrEnds
<1> QED BY <1>1, <1>2, <1>3, <1>4, <1>5, <1>6, <1>7 DEF WebNext

LEMMA PageInvSays == PageInv => PageSaysTruth
<1> SUFFICES ASSUME PageInv PROVE PageSaysTruth
  OBVIOUS
<1>1. ClientsAreGood /\ OnlyPending /\ OnePending /\ EntriesAreTrue
  BY DEF PageInv
<1>2. ASSUME NEW n \in Network, NEW i \in 1 .. Len(client[n].history) PROVE SaysTruth(n, i)
  <2>1. PICK h, l, tx : h = client[n].history /\ l = Len(h) /\ tx = h[i].tx
    OBVIOUS
  <2>2. tx \in PageTx(n) /\ tx.net = n /\ l \in Nat /\ DOMAIN h = 1 .. l /\ i \in 1 .. l
        /\ Last(h) = h[l]
    BY <1>1, <1>2, <2>1, LastIs
  <2>3. ASSUME CanExecute(tx)
        PROVE  \/ client[n].pending /\ i = l
               \/ \E j \in DOMAIN h : j > i /\ h[j].tx = tx
    <3>1. client[n].pending /\ tx = h[l].tx
      BY <1>1, <2>1, <2>2, <2>3 DEF CanExecute, OnlyPending, PendingTx
    <3>2. i # l => l \in DOMAIN h /\ l > i
      BY ONLY <2>2
    <3> QED BY <3>1, <3>2
  <2>4. EntryIsTrue(n, i)
    BY <1>1 DEF EntriesAreTrue
  <2> QED BY <2>1, <2>3, <2>4 DEF EntryIsTrue, SaysTruth
<1>3. \A n \in Network, i \in 1 .. MaxSends : i \in DOMAIN client[n].history => SaysTruth(n, i)
  BY <1>1, <1>2, LastIs
<1>4. Cardinality({n \in Network : client[n].pending}) <= 1
  <2>1. CASE \E n \in Network : client[n].pending
    <3>1. PICK n \in Network : client[n].pending
      BY <2>1
    <3>2. {m \in Network : client[m].pending} = {n}
      BY <1>1, <3>1 DEF OnePending
    <3>3. Cardinality({n}) = 1
      BY FS_Singleton
    <3> QED BY <3>2, <3>3
  <2>2. CASE ~ \E n \in Network : client[n].pending
    <3>1. {m \in Network : client[m].pending} = {}
      BY <2>2
    <3>2. Cardinality({}) = 0
      BY FS_EmptySet
    <3> QED BY <3>1, <3>2
  <2> QED BY <2>1, <2>2
<1> QED BY <1>3, <1>4 DEF PageSaysTruth

(* The strengthening holds in every state.                                 *)
THEOREM PageInvariant == WebSpec => []PageInv
<1> QED BY PageInvInit, PageInvStep, PTL DEF WebSpec

(* Whatever requests fail, answers are lost or submissions come late, what *)
(* the page says of a transaction is so, only what it shows as pending can *)
(* be executed, and one transaction at most is pending, on all the         *)
(* networks.                                                               *)
THEOREM PageSaysTrue == WebSpec => []PageSaysTruth
<1> QED BY PageInvariant, PageInvSays, PTL

-----------------------------------------------------------------------------
(* Gateway, app reads: FailedPeersHideNothing.  A read has passed no       *)
(* healthy peer, and has used at most a second, and the closing of a       *)
(* connection, for each it has passed; so it ends without the data only     *)
(* after the last peer, or after so many that they can use up the deadline. *)

Asking == [at : {"head", "body", "over"}, kind : Kind, peer : Nat \ {0}, spent : Nat,
           matching : BOOLEAN]

\* What so many peers can use up at most.
TimeOf(peers) == peers * (1 + MaxClosing)

ReadIsGood(read) ==
  /\ read.at = "entry" => read.kind \in Kind
  /\ read.at \in {"head", "body", "over"} =>
       /\ read \in Asking /\ read.spent <= TimeOf(read.peer - 1)
       /\ \A i \in healthy : i >= read.peer
  /\ read.at = "over" => read.peer > Len(Peers) \/ read.spent >= Deadline
  /\ read.at = "ended" /\ read.asked /\ read.result # "found" =>
       \A i \in healthy : TimeOf(i - 1) >= Deadline

ReadsInv ==
  /\ healthy \in SUBSET (1 .. Len(Peers))
  /\ DOMAIN reads = Reader
  /\ \A r \in Reader : ReadIsGood(reads[r])

LEMMA ReadsStart == ReadsInit => ReadsInv
BY ReadsAssumption DEF ReadsInit, ReadsInv, ReadIsGood, NoRead

\* One read goes on, the others do not.
LEMMA OneReads ==
  ASSUME ReadsInv, NEW r \in Reader, NEW read, reads' = [reads EXCEPT ![r] = read],
         healthy' = healthy, ReadIsGood(read)
  PROVE  ReadsInv'
<1>1. DOMAIN reads' = Reader /\ \A q \in Reader : reads'[q] = IF q = r THEN read ELSE reads[q]
  BY DEF ReadsInv
<1>2. ASSUME NEW x PROVE ReadIsGood(x)' <=> ReadIsGood(x)
  BY DEF ReadIsGood
<1>3. \A q \in Reader : ReadIsGood(reads'[q])
  BY <1>1 DEF ReadsInv
<1>4. \A q \in Reader : ReadIsGood(reads[q])'
  BY <1>3, <1>2 DEF ReadIsGood
<1> QED BY <1>1, <1>4 DEF ReadsInv

LEMMA TimeAdds ==
  /\ \A p \in Nat \ {0} : TimeOf(p + 1 - 1) = TimeOf(p - 1) + (1 + MaxClosing)
  /\ \A p, q \in Nat : TimeOf(p) \in Nat /\ (p <= q => TimeOf(p) <= TimeOf(q))
<1> DEFINE c == 1 + MaxClosing
<1>1. c \in Nat
  BY ReadsAssumption
<1>2. \A p \in Nat \ {0} : (p + 1 - 1) * c = (p - 1) * c + c
  <2> HIDE DEF c
  <2> QED BY <1>1
<1>3. \A p, q \in Nat : p * c \in Nat /\ (p <= q => p * c <= q * c)
  <2> HIDE DEF c
  <2> QED BY <1>1
<1> QED BY <1>2, <1>3 DEF TimeOf

LEMMA NextPeerIsGood ==
  ASSUME ReadsInv, NEW read \in Asking, read.at \in {"head", "body"}, ReadIsGood(read),
         NEW seconds \in 0 .. 1 + MaxClosing, read.peer \notin healthy
  PROVE  ReadIsGood(NextPeer(read, seconds))
<1> DEFINE next == NextPeer(read, seconds)
<1>1. /\ read.peer \in Nat \ {0} /\ read.spent \in Nat /\ read.spent <= TimeOf(read.peer - 1)
      /\ \A i \in healthy : i \in 1 .. Len(Peers) /\ i >= read.peer
  BY DEF ReadIsGood, ReadsInv, Asking
<1>2. PICK place \in {"head", "over"} :
        place = IF read.peer = Len(Peers) \/ read.spent + seconds >= Deadline
                THEN "over" ELSE "head"
  OBVIOUS
<1>3. PICK p \in Nat \ {0}, s \in Nat : p = read.peer + 1 /\ s = read.spent + seconds
  BY <1>1, ReadsAssumption
<1>4. next \in Asking /\ next.peer = p /\ next.spent = s /\ next.at = place
  <2>1. next = [read EXCEPT !.peer = p, !.spent = s, !.at = place]
    BY <1>2, <1>3 DEF NextPeer
  <2> HIDE DEF next
  <2> QED BY ONLY <2>1, read \in Asking, p \in Nat \ {0}, s \in Nat, place \in {"head", "over"}
      DEF Asking
<1> HIDE DEF next
<1>5. next.spent <= TimeOf(next.peer - 1) /\ \A i \in healthy : i >= next.peer
  <2>1. s <= TimeOf(p - 1)
    <3>1. /\ MaxClosing \in Nat /\ read.peer - 1 \in Nat
          /\ read.spent \in Nat /\ read.spent <= TimeOf(read.peer - 1)
      BY <1>1, ReadsAssumption
    <3>2. TimeOf(read.peer - 1) \in Nat
      BY <3>1, TimeAdds, Zenon
    <3>3. read.spent + seconds <= TimeOf(read.peer - 1) + (1 + MaxClosing)
      BY <3>1, <3>2
    <3>4. TimeOf(read.peer + 1 - 1) = TimeOf(read.peer - 1) + (1 + MaxClosing)
      BY <1>1, TimeAdds, Zenon
    <3>5. s <= TimeOf(read.peer + 1 - 1)
      <4>1. s <= TimeOf(read.peer - 1) + (1 + MaxClosing)
        BY <1>3, <3>3, Zenon
      <4> QED BY <3>4, <4>1, Zenon
    <3>6. p - 1 = read.peer + 1 - 1
      BY <1>1, <1>3
    <3> QED BY <3>5, <3>6, Zenon
  <2>2. \A i \in healthy : i >= p
    BY <1>1, <1>3
  <2> QED BY <1>4, <2>1, <2>2
<1>6. next.at = "over" => next.peer > Len(Peers) \/ next.spent >= Deadline
  BY <1>1, <1>2, <1>3, <1>4, ReadsAssumption
<1>7. ReadIsGood(next)
  BY <1>4, <1>5, <1>6 DEF ReadIsGood
<1> QED BY <1>7 DEF next

LEMMA ReadsStep == ReadsInv /\ ReadsNext => ReadsInv'
<1> SUFFICES ASSUME ReadsInv, ReadsNext PROVE ReadsInv'
  OBVIOUS
<1>1. PICK r \in Reader : (\E kind \in Kind : StartRead(r, kind)) \/ ReadStep(r)
  BY DEF ReadsNext
<1>2. ReadIsGood(reads[r]) /\ \A i \in healthy : i \in 1 .. Len(Peers)
  BY DEF ReadsInv
<1>3. /\ \A result : ReadIsGood(ReadEnded(result, FALSE)) /\ ReadIsGood(ReadEnded("found", TRUE))
  BY DEF ReadIsGood, ReadEnded
<1>4. CASE \E kind \in Kind : StartRead(r, kind)
  <2>1. PICK kind \in Kind : StartRead(r, kind)
    BY <1>4
  <2>2. ReadIsGood([at |-> "entry", kind |-> kind])
    BY DEF ReadIsGood
  <2> QED BY <1>3, <2>1, <2>2, OneReads DEF StartRead
<1>5. CASE EntryRead(r)
  <2>1. reads[r].kind \in Kind
    BY <1>2, <1>5 DEF EntryRead, ReadIsGood
  <2>2. PICK k \in Kind : k = reads[r].kind
    BY <2>1
  <2>3. ReadIsGood([at |-> "head", kind |-> k, peer |-> 1, spent |-> 0, matching |-> FALSE])
    <3>1. TimeOf(0) \in Nat
      BY TimeAdds
    <3> QED BY <1>2, <3>1, ReadsAssumption DEF ReadIsGood, Asking
  <2> QED BY <1>3, <1>5, <2>2, <2>3, OneReads DEF EntryRead, EndRead, Continue
<1>6. CASE \E answer \in Answer, seconds \in 0 .. 1, closing \in 0 .. MaxClosing :
             HeadRead(r, answer, seconds, closing)
  <2>1. PICK answer \in Answer, seconds \in 0 .. 1, closing \in 0 .. MaxClosing :
          HeadRead(r, answer, seconds, closing)
    BY <1>6
  <2>2. PICK read : read = reads[r]
    OBVIOUS
  <2>3. read \in Asking /\ read.at = "head" /\ ReadIsGood(read) /\ healthy' = healthy
        /\ MayAnswer(read, answer, seconds)
    BY <1>2, <2>1, <2>2 DEF HeadRead, ReadIsGood
  <2>4. CASE answer \in {"silence", "other chain"}
    <3>1. reads' = [reads EXCEPT ![r] = NextPeer(read, seconds + closing)]
      BY <2>1, <2>2, <2>4 DEF HeadRead, Continue
    <3>2. read.peer \notin healthy
      BY <2>3, <2>4 DEF MayAnswer
    <3>3. seconds + closing \in 0 .. 1 + MaxClosing
      BY ReadsAssumption
    <3> QED BY <2>3, <3>1, <3>2, <3>3, NextPeerIsGood, OneReads
  <2>5. CASE answer \in {"chain", "data"} /\ read.kind = "head"
    <3>1. reads' = [reads EXCEPT ![r] = ReadEnded("found", TRUE)]
      BY <2>1, <2>2, <2>5 DEF HeadRead, EndRead
    <3> QED BY <1>3, <2>3, <3>1, OneReads
  <2>6. CASE answer \in {"chain", "data"} /\ read.kind # "head"
    <3>1. PICK next : next = [read EXCEPT !.at = "body", !.matching = TRUE]
      OBVIOUS
    <3>2. reads' = [reads EXCEPT ![r] = next]
      BY <2>1, <2>2, <2>6, <3>1 DEF HeadRead, Continue
    <3>3. /\ next \in Asking /\ next.at = "body"
          /\ next.peer = read.peer /\ next.spent = read.spent
      BY <2>3, <3>1 DEF Asking
    <3>4. ReadIsGood(next)
      BY <2>3, <3>3 DEF ReadIsGood
    <3> QED BY <2>3, <3>2, <3>4, OneReads
  <2> QED BY <2>4, <2>5, <2>6 DEF Answer
<1>7. CASE \E answer \in Answer, seconds \in 0 .. 1, closing \in 0 .. MaxClosing :
             BodyRead(r, answer, seconds, closing)
  <2>1. PICK answer \in Answer, seconds \in 0 .. 1, closing \in 0 .. MaxClosing :
          BodyRead(r, answer, seconds, closing)
    BY <1>7
  <2>2. PICK read : read = reads[r]
    OBVIOUS
  <2>3. read \in Asking /\ read.at = "body" /\ ReadIsGood(read) /\ healthy' = healthy
        /\ MayAnswer(read, answer, seconds)
    BY <1>2, <2>1, <2>2 DEF BodyRead, ReadIsGood
  <2>4. CASE answer = "data"
    <3>1. reads' = [reads EXCEPT ![r] = ReadEnded("found", TRUE)]
      BY <2>1, <2>2, <2>4 DEF BodyRead, EndRead
    <3> QED BY <1>3, <2>3, <3>1, OneReads
  <2>5. CASE answer # "data"
    <3>1. reads' = [reads EXCEPT ![r] = NextPeer(read, seconds + closing)]
      BY <2>1, <2>2, <2>5 DEF BodyRead, Continue
    <3>2. read.peer \notin healthy
      BY <2>3, <2>5 DEF MayAnswer
    <3>3. seconds + closing \in 0 .. 1 + MaxClosing
      BY ReadsAssumption
    <3> QED BY <2>3, <3>1, <3>2, <3>3, NextPeerIsGood, OneReads
  <2> QED BY <2>4, <2>5
<1>8. CASE NothingFound(r)
  <2>1. PICK read, result : /\ read = reads[r] /\ read.at = "over"
                            /\ reads' = [reads EXCEPT ![r] = ReadEnded(result, TRUE)]
                            /\ healthy' = healthy
    BY <1>8 DEF NothingFound, EndRead
  <2>2. /\ read \in Asking /\ read.spent <= TimeOf(read.peer - 1)
        /\ read.peer > Len(Peers) \/ read.spent >= Deadline
        /\ \A i \in healthy : i >= read.peer
    BY <1>2, <2>1 DEF ReadIsGood
  <2>3. read.peer \in Nat \ {0} /\ read.spent \in Nat
    BY <2>2 DEF Asking
  <2>4. ASSUME NEW i \in healthy PROVE TimeOf(i - 1) >= Deadline
    <3>1. i \in 1 .. Len(Peers) /\ i >= read.peer /\ read.spent >= Deadline
      BY <1>2, <2>2, <2>3, ReadsAssumption
    <3>2. read.peer - 1 \in Nat /\ i - 1 \in Nat /\ read.peer - 1 <= i - 1
      BY <2>3, <3>1, ReadsAssumption
    <3>3. TimeOf(read.peer - 1) <= TimeOf(i - 1) /\ TimeOf(read.peer - 1) \in Nat /\ TimeOf(i - 1) \in Nat
      BY <3>2, TimeAdds
    <3> QED BY <2>2, <2>3, <3>1, <3>3, ReadsAssumption
  <2>5. ReadIsGood(ReadEnded(result, TRUE))
    BY <2>4 DEF ReadIsGood, ReadEnded
  <2> QED BY <2>1, <2>5, OneReads
<1> QED BY <1>1, <1>4, <1>5, <1>6, <1>7, <1>8 DEF ReadStep

\* The other services leave reads alone.
LEMMA ReadsElsewhere == [Next]_gatewayVars => ReadsNext \/ UNCHANGED readVars
BY DEF Next, gatewayVars, Registering, Claiming, Funding, ReadingApps, Relaying, Posting, Starting

(***************************************************************************)
(* A read in progress has passed no healthy peer, and its time and         *)
(* position bound each other: one that failed has missed only peers behind *)
(* so many that they can use up the deadline.                              *)
(***************************************************************************)
THEOREM ReadsInvariant == Spec => []ReadsInv
<1>1. Init => ReadsInv
  BY ReadsStart DEF Init
<1>2. ReadsInv /\ [Next]_gatewayVars => ReadsInv'
  <2>1. ReadsInv /\ UNCHANGED readVars => ReadsInv'
    BY DEF readVars, ReadsInv, ReadIsGood
  <2> QED BY <2>1, ReadsElsewhere, ReadsStep
<1> QED BY <1>1, <1>2, PTL DEF Spec

(***************************************************************************)
(* Whatever the peers before it do, a registered peer that serves the data *)
(* is reached, if the time of those before it is less than the deadline.   *)
(***************************************************************************)
THEOREM ReadsFindHealthyPeer == Spec => []FailedPeersHideNothing
<1>1. ReadsInv => FailedPeersHideNothing
  BY DEF ReadsInv, ReadIsGood, TimeOf, FailedPeersHideNothing
<1> QED BY <1>1, ReadsInvariant, PTL

-----------------------------------------------------------------------------
(* Gateway, its nodes: what its services send.                             *)
StepNames == {Steps[s].name : s \in DOMAIN Steps}
GatewayTx == [net : Network, nonce : Nat, to : Recipient \cup {Outside} \cup StepNames]

LEMMA OthersSpend == OthersMaySpend(GatewayTx)
BY DEF OthersMaySpend, GatewayTx

\* A submission adds the transaction, if anything.
LEMMA SubmitGoes ==
  ASSUME NEW T, NodesHold(T), NEW tx \in T, tx.net \in Network, UNCHANGED receipts,
         pool' = [pool EXCEPT ![tx.net] = @ \cup {tx}]
  PROVE  NodesGo(T, {tx})
<1>1. DOMAIN pool = Network /\ DOMAIN receipts = Network
  BY DEF NodesHold
<1>2. DOMAIN pool' = Network /\ \A n \in Network : pool'[n] = IF n = tx.net THEN pool[n] \cup {tx} ELSE pool[n]
  BY <1>1
<1>3. \A n \in Network : \A p \in pool'[n] : p \in T /\ p.net = n
  BY <1>2 DEF NodesHold
<1>4. \A n \in Network : \A p \in pool'[n] : p \in pool[n] \cup {tx}
  BY <1>2
<1>5. NodesHold(T)'
  BY <1>1, <1>2, <1>3 DEF NodesHold
<1> QED BY <1>4, <1>5 DEF NodesGo

\* What a node has or had.
Held(n) == pool[n] \cup {r.tx : r \in Executed(n)}

LEMMA NodesStart ==
  ASSUME WalletInit
  PROVE  NodesHold(GatewayTx) /\ \A n \in Network : Held(n) = {} /\ pool[n] = {}
<1> DEFINE S == [tx : GatewayTx, success : BOOLEAN]
<1>1. \A n \in Network : receipts[n] = <<>> /\ pool[n] = {}
  BY DEF WalletInit
<1>2. Len(<<>>) = 0 /\ 1 .. 0 = {} /\ <<>> \in Seq(S)
  OBVIOUS
<1> HIDE DEF S
<1>3. \A n \in Network : receipts[n] \in Seq(S) /\ 1 .. Len(receipts[n]) = {}
  BY <1>1, <1>2
<1>4. DOMAIN receipts = Network /\ DOMAIN pool = Network
  BY DEF WalletInit
<1> QED BY <1>1, <1>3, <1>4 DEF NodesHold, Held, Executed, Nonce, S

\* It had it before, or got it.
LEMMA HeldGo ==
  ASSUME NEW T, NEW more, NodesHold(T), NodesGo(T, more), NEW n \in Network
  PROVE  /\ \A tx \in Held(n)' : tx \in Held(n) \cup more \/ tx.to = Outside
         /\ \A tx \in Held(n)' : tx \in T /\ tx.net = n
<1>1. /\ Executed(n) \subseteq Executed(n)'
      /\ \A r \in Executed(n)' : r \in Executed(n) \/ (r.tx \in pool[n] /\ r.tx.nonce = Nonce(n))
  BY ReceiptsGrow
<1>2. \A tx \in pool'[n] : tx \in pool[n] \cup more \/ tx.to = Outside
  BY DEF NodesGo
<1>3. NodesHold(T)'
  BY DEF NodesGo
<1>4. \A r \in Executed(n)' : r.tx \in T /\ r.tx.net = n
  <2>1. \A i \in 1 .. Len(receipts'[n]) : receipts'[n][i].tx \in T /\ receipts'[n][i].tx.net = n
    <3> DEFINE S == [tx : T, success : BOOLEAN]
    <3>1. receipts'[n] \in Seq(S) /\ \A i \in 1 .. Len(receipts'[n]) : receipts'[n][i].tx.net = n
      BY <1>3 DEF NodesHold
    <3> HIDE DEF S
    <3>2. \A i \in 1 .. Len(receipts'[n]) : receipts'[n][i] \in S
      BY <3>1
    <3> QED BY <3>1, <3>2 DEF S
  <2> QED BY <2>1 DEF Executed, Nonce
<1>5. \A tx \in pool'[n] : tx \in T /\ tx.net = n
  BY <1>3 DEF NodesHold
<1> QED BY <1>1, <1>2, <1>4, <1>5 DEF Held

LEMMA AtMostOne ==
  ASSUME NEW S, \A x, y \in S : x = y
  PROVE  Cardinality(S) <= 1
<1>1. CASE S = {}
  BY <1>1, FS_EmptySet
<1>2. CASE S # {}
  <2>1. PICK x \in S : TRUE
    BY <1>2
  <2>2. S = {x}
    BY <2>1
  <2>3. Cardinality({x}) = 1
    BY FS_Singleton
  <2> QED BY <2>2, <2>3
<1> QED BY <1>1, <1>2

\* A transaction is executed once.
LEMMA OneReceipt ==
  ASSUME NEW T, NodesHold(T), NEW n \in Network, NEW r \in Executed(n), NEW q \in Executed(n),
         r.tx = q.tx
  PROVE  r = q
<1>1. receipts[n] \in Seq([tx : T, success : BOOLEAN])
      /\ \A i \in 1 .. Len(receipts[n]) : receipts[n][i].tx.nonce = i - 1
  BY DEF NodesHold
<1>2. PICK i, j \in 1 .. Len(receipts[n]) : r = receipts[n][i] /\ q = receipts[n][j]
  BY DEF Executed, Nonce
<1>3. i - 1 = j - 1 /\ Len(receipts[n]) \in Nat
  BY <1>1, <1>2
<1>4. i = j
  BY ONLY <1>3, i \in 1 .. Len(receipts[n]), j \in 1 .. Len(receipts[n])
<1> QED BY <1>2, <1>4

-----------------------------------------------------------------------------
(* Gateway, the start of the demos: DeploysOnce for any steps.  What the   *)
(* nodes hold or have executed for a step is what its file holds           *)
(* (StepsAreFiled); a file is not written again; and a step is begun when  *)
(* those before it are done.                                               *)
StepTxs(s) == [net : {Steps[s].net}, nonce : Nat, to : {Steps[s].name}]
Filed(s) == signed[s] \in StepTxs(s)
DoneBefore(s) == \A e \in 1 .. s - 1 : Done(e)
Places == {"journal", "account", "receipt", "nonce", "submit", "wait", "up"}

FilesAreGood ==
  /\ DOMAIN signed = DOMAIN Steps
  /\ \A s \in DOMAIN Steps :
       /\ Filed(s) \/ signed[s] \in {NoFile, TornFile}
       /\ signed[s] # NoFile => DoneBefore(s)

StepsAreFiled ==
  \A n \in Network : \A tx \in Held(n) :
    tx.to \in StepNames => \E s \in DOMAIN Steps : Filed(s) /\ tx = signed[s]

BootIsGood ==
  \/ boot = Down
  \/ /\ boot \in [at : Places, step : DOMAIN Steps] /\ DoneBefore(boot.step)
     /\ boot.at = "account" => signed[boot.step] = NoFile
     /\ boot.at \in {"receipt", "nonce", "submit", "wait"} => Filed(boot.step)
     /\ boot.at = "up" => \A s \in DOMAIN Steps : Done(s)

BootInv == NodesHold(GatewayTx) /\ FilesAreGood /\ StepsAreFiled /\ BootIsGood

LEMMA FileIsTx ==
  ASSUME NEW s \in DOMAIN Steps, Filed(s)
  PROVE  /\ signed[s] \in GatewayTx /\ signed[s].net = Steps[s].net /\ signed[s].net \in Network
         /\ signed[s].to = Steps[s].name /\ signed[s].to \in StepNames
         /\ signed[s] # NoFile /\ signed[s] # TornFile
BY StepsAssumption DEF Filed, StepTxs, GatewayTx, StepNames, NoFile, TornFile

LEMMA DoneStays ==
  ASSUME NEW more, NodesHold(GatewayTx), NodesGo(GatewayTx, more)
  PROVE  /\ \A s \in DOMAIN Steps : Done(s) => Done(s)'
         /\ \A s \in DOMAIN Steps : DoneBefore(s) => DoneBefore(s)'
<1>1. \A n \in Network : Executed(n) \subseteq Executed(n)'
  BY ReceiptsGrow
<1>2. \A s \in DOMAIN Steps : Done(s) => Done(s)'
  BY <1>1, StepsAssumption DEF Done, Succeeded, Runs
<1>3. \A s \in DOMAIN Steps : \A e \in 1 .. s - 1 : e \in DOMAIN Steps
  BY StepsAssumption
<1> QED BY <1>2, <1>3 DEF DoneBefore

\* The nodes go on, and no file that was written is written again.
LEMMA NodesAndFiles ==
  ASSUME BootInv, NEW more, NodesGo(GatewayTx, more),
         DOMAIN signed' = DOMAIN Steps,
         \A s \in DOMAIN Steps : \/ signed'[s] = signed[s]
                                 \/ /\ signed[s] = NoFile /\ DoneBefore(s)
                                    /\ Filed(s)' \/ signed'[s] = TornFile,
         \A tx \in more : tx.to \in StepNames => \E s \in DOMAIN Steps : Filed(s) /\ tx = signed[s]
  PROVE  NodesHold(GatewayTx)' /\ FilesAreGood' /\ StepsAreFiled'
<1>1. NodesHold(GatewayTx) /\ FilesAreGood /\ StepsAreFiled
  BY DEF BootInv
<1>2. \A s \in DOMAIN Steps : DoneBefore(s) => DoneBefore(s)'
  BY <1>1, DoneStays
<1>3. \A s \in DOMAIN Steps : Filed(s) => Filed(s)' /\ signed'[s] = signed[s]
  BY FileIsTx DEF Filed
<1>4. FilesAreGood'
  BY <1>1, <1>2, <1>3 DEF FilesAreGood, Filed
<1>5. StepsAreFiled'
  <2> SUFFICES ASSUME NEW n \in Network, NEW tx \in Held(n)', tx.to \in StepNames
               PROVE  \E s \in DOMAIN Steps : Filed(s) /\ tx = signed[s]
    BY <1>3 DEF StepsAreFiled
  <2>1. tx.to # Outside
    BY StepsAssumption DEF StepNames
  <2>2. tx \in Held(n) \cup more
    BY <1>1, <2>1, HeldGo
  <2> QED BY <1>1, <2>2 DEF StepsAreFiled
<1>6. NodesHold(GatewayTx)'
  BY DEF NodesGo
<1> QED BY <1>4, <1>5, <1>6

\* No service but the start sends a step.
LEMMA BootWaits ==
  ASSUME BootInv, NEW more, NodesGo(GatewayTx, more), UNCHANGED <<boot, signed>>,
         \A tx \in more : tx.to \notin StepNames
  PROVE  BootInv'
<1>1. NodesHold(GatewayTx)' /\ FilesAreGood' /\ StepsAreFiled'
  BY NodesAndFiles DEF BootInv, FilesAreGood
<1>2. BootIsGood'
  BY DoneStays DEF BootInv, BootIsGood, Filed
<1> QED BY <1>1, <1>2 DEF BootInv

LEMMA ReceiptIsDone ==
  ASSUME NEW s \in DOMAIN Steps, Filed(s), NEW r \in Receipt(signed[s]), r.success
  PROVE  Done(s)
BY FileIsTx DEF Receipt, Done, Succeeded, Runs

LEMMA DeploysOnceFollows == BootInv => DeploysOnce
<1> SUFFICES ASSUME BootInv PROVE DeploysOnce
  OBVIOUS
<1>1. NodesHold(GatewayTx) /\ FilesAreGood /\ StepsAreFiled /\ BootIsGood
  BY DEF BootInv
<1>2. ASSUME NEW s \in DOMAIN Steps
      PROVE  Cardinality({r \in Executed(Steps[s].net) : Runs(s, r)}) <= 1
  <2>1. PICK n \in Network : n = Steps[s].net
    BY StepsAssumption
  <2>2. ASSUME NEW r \in Executed(n), Runs(s, r) PROVE r.tx = signed[s] /\ Filed(s)
    <3>1. r.tx.to = Steps[s].name /\ r.tx.to \in StepNames /\ r.tx.net = n
      BY <1>1, <2>2, NonceIs DEF Runs, StepNames
    <3>2. PICK t \in DOMAIN Steps : Filed(t) /\ r.tx = signed[t]
      BY <1>1, <2>2, <3>1 DEF StepsAreFiled, Held
    <3>3. Steps[t].net = n /\ Steps[t].name = Steps[s].name
      BY <3>1, <3>2, FileIsTx
    <3>4. t = s
      BY <2>1, <3>3, StepsAssumption
    <3> QED BY <3>2, <3>4
  <2>3. \A r, q \in Executed(n) : Runs(s, r) /\ Runs(s, q) => r = q
    BY <1>1, <2>2, OneReceipt
  <2>4. \A r, q \in {x \in Executed(n) : Runs(s, x)} : r = q
    BY <2>3
  <2> QED BY <2>1, <2>4, AtMostOne
<1>3. ASSUME NEW s \in DOMAIN Steps, signed[s] # NoFile
      PROVE  \A earlier \in 1 .. s - 1 : Done(earlier)
  BY <1>1, <1>3 DEF FilesAreGood, DoneBefore
<1>4. boot.at = "up" => \A s \in DOMAIN Steps : Done(s)
  BY <1>1 DEF BootIsGood, Down
<1> QED BY <1>2, <1>3, <1>4 DEF DeploysOnce

-----------------------------------------------------------------------------
(* Its steps.                                                              *)
LEMMA BootStarts == BootInit /\ WalletInit => BootInv
<1> SUFFICES ASSUME BootInit, WalletInit PROVE BootInv
  OBVIOUS
<1>1. NodesHold(GatewayTx) /\ \A n \in Network : Held(n) = {}
  BY NodesStart
<1> QED BY <1>1 DEF BootInit, BootInv, FilesAreGood, StepsAreFiled, BootIsGood

\* A step of the start leaves the nodes alone, or they lose what they held.
LEMMA NodesRest ==
  ASSUME NEW T, NEW more, NodesHold(T), UNCHANGED walletVars \/ ProcessEnds
  PROVE  NodesGo(T, more)
<1>1. /\ receipts' = receipts /\ DOMAIN pool' = Network
      /\ \A n \in Network : pool'[n] = pool[n] \/ pool'[n] = {}
  BY DEF NodesHold, walletVars, ProcessEnds
<1>2. NodesHold(T)'
  BY <1>1 DEF NodesHold
<1> QED BY <1>1, <1>2 DEF NodesGo

\* The place changes, the files do not.
LEMMA BootMoves ==
  ASSUME BootInv, NEW more, NodesGo(GatewayTx, more), UNCHANGED signed,
         \A tx \in more : tx.to \in StepNames => \E s \in DOMAIN Steps : Filed(s) /\ tx = signed[s],
         BootIsGood'
  PROVE  BootInv'
<1>1. NodesHold(GatewayTx)' /\ FilesAreGood' /\ StepsAreFiled'
  BY NodesAndFiles DEF BootInv, FilesAreGood
<1> QED BY <1>1 DEF BootInv

LEMMA ThrowsKeeps ==
  ASSUME BootInv, Throws
  PROVE  BootInv'
<1>1. NodesGo(GatewayTx, {})
  BY NodesRest DEF Throws, BootInv
<1>2. BootIsGood'
  BY DEF Throws, ProcessEnds, BootIsGood
<1> QED BY <1>1, <1>2, BootMoves DEF Throws

LEMMA GotoKeeps ==
  ASSUME BootInv, boot # Down, NEW place \in Places, Goto(place), UNCHANGED walletVars,
         place # "up",
         place = "account" => signed[boot.step] = NoFile,
         place \in {"receipt", "nonce", "submit", "wait"} => Filed(boot.step)
  PROVE  BootInv'
<1>1. NodesGo(GatewayTx, {})
  BY NodesRest DEF BootInv
<1>2. boot \in [at : Places, step : DOMAIN Steps] /\ DoneBefore(boot.step)
  BY DEF BootInv, BootIsGood
<1>3. /\ boot' = [boot EXCEPT !.at = place] /\ signed' = signed
  BY DEF Goto
<1>4. boot' \in [at : Places, step : DOMAIN Steps] /\ boot'.at = place /\ boot'.step = boot.step
  BY <1>2, <1>3
<1>5. DoneBefore(boot.step)'
  BY <1>1, <1>2, <1>3, <1>4, DoneStays DEF BootInv
<1>6. BootIsGood'
  BY <1>3, <1>4, <1>5 DEF BootIsGood, Filed
<1> QED BY <1>1, <1>3, <1>6, BootMoves

LEMMA ReceiptedKeeps ==
  ASSUME BootInv, boot # Down, boot.at \in {"receipt", "wait"}, Receipted
  PROVE  BootInv'
<1>1. /\ boot.step \in DOMAIN Steps /\ DoneBefore(boot.step) /\ Filed(boot.step)
      /\ boot \in [at : Places, step : DOMAIN Steps]
  BY DEF BootInv, BootIsGood
<1>2. CASE \E r \in Receipt(StepTx) : r.success
  <2>1. Done(boot.step)
    BY <1>1, <1>2, ReceiptIsDone DEF StepTx
  <2>2. NodesGo(GatewayTx, {}) /\ signed' = signed
    BY <1>2, NodesRest DEF BootInv, Receipted
  <2>3. \A s \in DOMAIN Steps : Done(s) => Done(s)'
    BY <2>2, DoneStays DEF BootInv
  <2>4. CASE boot.step = Len(Steps)
    <3>1. boot' = [boot EXCEPT !.at = "up"]
      BY <1>2, <2>4 DEF Receipted
    <3>2. boot' \in [at : Places, step : DOMAIN Steps] /\ boot'.at = "up" /\ boot'.step = boot.step
      BY <1>1, <3>1 DEF Places
    <3>3. \A s \in DOMAIN Steps : Done(s)
      <4>1. \A s \in DOMAIN Steps : s = boot.step \/ s \in 1 .. boot.step - 1
        BY <2>4, StepsAssumption
      <4> QED BY <1>1, <2>1, <4>1 DEF DoneBefore
    <3>4. DoneBefore(boot.step)'
      BY <1>1, <2>2, <3>2, DoneStays DEF BootInv
    <3>5. BootIsGood'
      BY <2>3, <3>2, <3>3, <3>4 DEF BootIsGood
    <3> QED BY <2>2, <3>5, BootMoves
  <2>5. CASE boot.step # Len(Steps)
    <3>1. PICK b, c : b = boot.step /\ c = b + 1
      OBVIOUS
    <3>2. boot' = [at |-> "journal", step |-> c]
      BY <1>2, <2>5, <3>1 DEF Receipted
    <3>3. c \in DOMAIN Steps /\ \A e \in 1 .. c - 1 : e = b \/ e \in 1 .. b - 1
      BY <1>1, <2>5, <3>1, StepsAssumption
    <3>4. boot' \in [at : Places, step : DOMAIN Steps] /\ boot'.at = "journal" /\ boot'.step = c
      BY <3>2, <3>3 DEF Places
    <3>5. DoneBefore(c)
      BY <1>1, <2>1, <3>1, <3>3 DEF DoneBefore
    <3>6. DoneBefore(c)'
      BY <2>2, <3>3, <3>5, DoneStays DEF BootInv
    <3>7. BootIsGood'
      BY <3>4, <3>6 DEF BootIsGood
    <3> QED BY <2>2, <3>7, BootMoves
  <2> QED BY <2>4, <2>5
<1>3. CASE ~ \E r \in Receipt(StepTx) : r.success
  BY <1>3, ThrowsKeeps DEF Receipted
<1> QED BY <1>2, <1>3

LEMMA StartBootKeeps ==
  ASSUME BootInv, StartBoot, UNCHANGED walletVars
  PROVE  BootInv'
<1>1. NodesGo(GatewayTx, {}) /\ signed' = signed
  BY NodesRest DEF BootInv, StartBoot
<1>2. boot' = [at |-> "journal", step |-> 1]
  BY DEF StartBoot
<1>3. boot' \in [at : Places, step : DOMAIN Steps] /\ boot'.at = "journal" /\ boot'.step = 1
  BY <1>2, StepsAssumption DEF Places
<1>4. DoneBefore(1)'
  BY DEF DoneBefore
<1>5. BootIsGood'
  BY <1>3, <1>4 DEF BootIsGood
<1> QED BY <1>1, <1>5, BootMoves

\* A file is written, or torn, when there is none.
LEMMA FileKeeps ==
  ASSUME BootInv, boot.at = "account", boot # Down, UNCHANGED walletVars \/ ProcessEnds,
         NEW tx, signed' = [signed EXCEPT ![boot.step] = tx],
         tx = TornFile \/ tx \in StepTxs(boot.step),
         boot' = Down \/ (tx \in StepTxs(boot.step) /\ boot' = [boot EXCEPT !.at = "receipt"])
  PROVE  BootInv'
<1>0. PICK b : b = boot.step
  OBVIOUS
<1>1. /\ b \in DOMAIN Steps /\ DoneBefore(b) /\ signed[b] = NoFile
      /\ boot \in [at : Places, step : DOMAIN Steps] /\ DOMAIN signed = DOMAIN Steps
  BY <1>0 DEF BootInv, BootIsGood, FilesAreGood
<1>2. NodesGo(GatewayTx, {})
  BY NodesRest DEF BootInv
<1>3. /\ DOMAIN signed' = DOMAIN Steps /\ signed'[b] = tx
      /\ \A s \in DOMAIN Steps : s # b => signed'[s] = signed[s]
  BY <1>0, <1>1
<1>4. Filed(b)' \/ signed'[b] = TornFile
  BY <1>0, <1>3 DEF Filed
<1>5. NodesHold(GatewayTx)' /\ FilesAreGood' /\ StepsAreFiled'
  BY <1>1, <1>2, <1>3, <1>4, NodesAndFiles
<1>6. BootIsGood'
  <2>1. CASE boot' = Down
    BY <2>1 DEF BootIsGood
  <2>2. CASE boot' # Down
    <3>1. boot' = [boot EXCEPT !.at = "receipt"] /\ Filed(b)'
      BY <1>0, <1>3, <2>2 DEF Filed
    <3>2. boot' \in [at : Places, step : DOMAIN Steps] /\ boot'.at = "receipt" /\ boot'.step = b
      BY <1>0, <1>1, <3>1 DEF Places
    <3>3. DoneBefore(b)'
      BY <1>1, <1>2, DoneStays DEF BootInv
    <3> QED BY <3>1, <3>2, <3>3 DEF BootIsGood
  <2> QED BY <2>1, <2>2
<1> QED BY <1>5, <1>6 DEF BootInv

LEMMA SubmitStepKeeps ==
  ASSUME BootInv, SubmitStep
  PROVE  BootInv'
<1>1. boot # Down /\ boot.at = "submit"
  BY DEF SubmitStep, BootAt, Down
<1>2. /\ boot.step \in DOMAIN Steps /\ DoneBefore(boot.step) /\ Filed(boot.step)
      /\ boot \in [at : Places, step : DOMAIN Steps]
  BY <1>1 DEF BootInv, BootIsGood
<1>3. CASE Accepts(StepTx)
  <2>1. PICK tx : tx = signed[boot.step]
    OBVIOUS
  <2>2. /\ pool' = [pool EXCEPT ![tx.net] = @ \cup {tx}] /\ receipts' = receipts /\ signed' = signed
        /\ boot' = [boot EXCEPT !.at = "wait"]
    BY <1>3, <2>1 DEF SubmitStep, Submit, StepTx, Goto
  <2>3. tx \in GatewayTx /\ tx.net \in Network
    BY <1>2, <2>1, FileIsTx
  <2>4. NodesGo(GatewayTx, {tx})
    BY <2>2, <2>3, SubmitGoes DEF BootInv
  <2>5. boot' \in [at : Places, step : DOMAIN Steps] /\ boot'.at = "wait" /\ boot'.step = boot.step
    BY <1>2, <2>2 DEF Places
  <2>6. DoneBefore(boot.step)'
    BY <1>2, <2>4, <2>5, DoneStays DEF BootInv
  <2>7. BootIsGood'
    BY <1>2, <2>2, <2>5, <2>6 DEF BootIsGood, Filed
  <2> QED BY <1>2, <2>1, <2>2, <2>4, <2>7, BootMoves
<1>4. CASE ~Accepts(StepTx)
  BY <1>4, ThrowsKeeps DEF SubmitStep
<1> QED BY <1>3, <1>4

LEMMA BootStepKeeps ==
  ASSUME BootInv, BootNext
  PROVE  BootInv'
<1>1. ASSUME NEW place, BootAt(place) PROVE boot # Down /\ boot.at = place
  BY <1>1 DEF BootAt, Down
<1>2. CASE StartBoot /\ UNCHANGED walletVars
  BY <1>2, StartBootKeeps
<1>3. CASE OpenJournal
  <2>1. boot # Down /\ boot.at = "journal"
    BY <1>1, <1>3 DEF OpenJournal
  <2>2. boot.step \in DOMAIN Steps
    BY <2>1 DEF BootInv, BootIsGood
  <2>3. IsSigned(boot.step) => Filed(boot.step)
    BY <2>2, StepsAssumption DEF BootInv, FilesAreGood, IsSigned
  <2> QED BY <1>3, <2>1, <2>3, GotoKeeps, ThrowsKeeps DEF OpenJournal, StepTx, Places
<1>4. CASE SignStep
  <2>1. boot # Down /\ boot.at = "account"
    BY <1>1, <1>4 DEF SignStep
  <2>2. PICK tx : tx = [net |-> Step.net, nonce |-> Nonce(Step.net), to |-> Step.name]
    OBVIOUS
  <2>3. boot.step \in DOMAIN Steps
    BY <2>1 DEF BootInv, BootIsGood
  <2>4. Nonce(Step.net) \in Nat
    BY <2>3, StepsAssumption, NonceIs DEF BootInv, Step
  <2>5. tx \in StepTxs(boot.step)
    BY <2>2, <2>3, <2>4 DEF StepTxs, Step
  <2> QED BY <1>4, <2>1, <2>2, <2>5, FileKeeps DEF SignStep
<1>5. CASE ReadReceipt
  <2>1. boot # Down /\ boot.at = "receipt"
    BY <1>1, <1>5 DEF ReadReceipt
  <2>2. Filed(boot.step)
    BY <2>1 DEF BootInv, BootIsGood
  <2> QED BY <1>5, <2>1, <2>2, ReceiptedKeeps, GotoKeeps DEF ReadReceipt, Places
<1>6. CASE ReadNonce
  <2>1. boot # Down /\ boot.at = "nonce"
    BY <1>1, <1>6 DEF ReadNonce
  <2>2. Filed(boot.step)
    BY <2>1 DEF BootInv, BootIsGood
  <2> QED BY <1>6, <2>1, <2>2, ThrowsKeeps, GotoKeeps DEF ReadNonce, Places
<1>7. CASE SubmitStep
  BY <1>7, SubmitStepKeeps
<1>8. CASE ReadWaited
  BY <1>1, <1>8, ReceiptedKeeps DEF ReadWaited
<1>9. CASE ProcessEnds /\ UNCHANGED signed
  <2>1. NodesGo(GatewayTx, {})
    BY <1>9, NodesRest DEF BootInv
  <2>2. BootIsGood'
    BY <1>9 DEF ProcessEnds, BootIsGood
  <2> QED BY <1>9, <2>1, <2>2, BootMoves
<1>10. CASE Crash
  <2>1. CASE BootAt("account") /\ signed' = [signed EXCEPT ![boot.step] = TornFile]
    BY <1>1, <1>10, <2>1, FileKeeps DEF Crash, ProcessEnds
  <2> QED BY <1>9, <1>10, <2>1 DEF Crash
<1>11. CASE CrashInIdentity
  <2>1. NodesGo(GatewayTx, {})
    BY <1>11, NodesRest DEF BootInv, CrashInIdentity
  <2>2. BootIsGood'
    BY <1>11 DEF CrashInIdentity, BootInv, BootIsGood
  <2> QED BY <1>11, <2>1, <2>2, BootMoves DEF CrashInIdentity
<1>12. CASE BootTimesOut
  BY <1>9, <1>12 DEF BootTimesOut
<1> QED BY <1>2, <1>3, <1>4, <1>5, <1>6, <1>7, <1>8, <1>10, <1>11, <1>12 DEF BootNext, BootStep

-----------------------------------------------------------------------------
(* Gateway, the faucet: FaucetPromises for any visitors, limits and        *)
(* faults.  What makes it inductive: while the transfer that was answered  *)
(* is the faucet's own `pending`, nothing else can take its nonce          *)
(* (StillDue).                                                             *)
FaucetTxs == [net : {faucetNet}, nonce : Nat, to : Recipient]
Claims == [at : {"account", "resend"}, to : Recipient, ip : Ip]
          \cup [at : {"head", "submit"}, to : Recipient, ip : Ip, nonce : Nat]

ClaimIsGood ==
  \/ claim = NotBusy
  \/ /\ claim \in Claims
     /\ claim.at = "head" => pendingTx = NoTransfer
     /\ claim.at \in {"resend", "submit"} => pendingTx \in FaucetTxs

StillDue(tx) ==
  /\ tx = pendingTx /\ tx.nonce >= Nonce(faucetNet)
  /\ \A p \in pool[faucetNet] : p.nonce = tx.nonce => p = tx

Promised(tx) == IsExecuted(tx) \/ tx \in forgotten \/ spends > 0 \/ StillDue(tx)

FaucetInv ==
  /\ faucetNet \in Network /\ answered \subseteq FaucetTxs
  /\ pendingTx = NoTransfer \/ pendingTx \in FaucetTxs
  /\ ClaimIsGood
  /\ \A tx \in answered : Promised(tx)

\* Nobody else used a key, and the nodes got at most `more`.
OnlyMore(more) ==
  /\ spends' \in Nat
  /\ spends' > 0 \/ (spends = 0 /\ \A n \in Network : pool'[n] \subseteq pool[n] \cup more)

LEMMA OnlyOthersSpend ==
  ASSUME NodesHold(GatewayTx), spends \in Nat, WalletNext
  PROVE  OnlyMore({})
<1>0. DOMAIN pool = Network
  BY DEF NodesHold
<1>1. ASSUME NEW n \in Network, NEW success \in BOOLEAN, ExecuteTransfer(n, success)
      PROVE  OnlyMore({})
  BY <1>0, <1>1 DEF ExecuteTransfer, OnlyMore
<1>2. ASSUME NEW n \in Network, SpendOutside(n) PROVE OnlyMore({})
  BY <1>2 DEF SpendOutside, OnlyMore
<1>3. ASSUME NEW n \in Network, NodeStops(n) PROVE OnlyMore({})
  BY <1>0, <1>3 DEF NodeStops, OnlyMore
<1> QED BY <1>1, <1>2, <1>3 DEF WalletNext

LEMMA NoTransferIsNone == ASSUME NEW n PROVE NoTransfer \notin [net : {n}, nonce : Nat, to : Recipient]
<1>1. ASSUME NEW tx \in [net : {n}, nonce : Nat, to : Recipient] PROVE "to" \in DOMAIN tx
  OBVIOUS
<1>2. "to" \notin DOMAIN NoTransfer
  BY DEF NoTransfer
<1> QED BY <1>1, <1>2

\* A promise is kept while the nodes go on and `pending` stays.
LEMMA PromiseStays ==
  ASSUME NEW T, NEW more, NodesHold(T), NodesGo(T, more), OnlyMore(more), spends \in Nat,
         faucetNet \in Network, UNCHANGED <<faucetNet, pendingTx>>, more \subseteq {pendingTx},
         forgotten \subseteq forgotten',
         NEW tx \in FaucetTxs, Promised(tx)
  PROVE  Promised(tx)'
<1>1. /\ Nonce(faucetNet) \in Nat /\ Nonce(faucetNet)' \in Nat /\ Nonce(faucetNet) <= Nonce(faucetNet)'
      /\ Executed(faucetNet) \subseteq Executed(faucetNet)'
  BY ReceiptsGrow
<1>2. tx.net = faucetNet /\ tx.nonce \in Nat
  BY DEF FaucetTxs
<1>3. CASE IsExecuted(tx)
  BY <1>1, <1>2, <1>3 DEF IsExecuted, Promised
<1>4. CASE tx \in forgotten \/ spends' > 0
  BY <1>4 DEF Promised
<1>5. CASE StillDue(tx) /\ ~(spends' > 0)
  <2>1. /\ tx = pendingTx /\ tx.nonce >= Nonce(faucetNet)
        /\ \A p \in pool[faucetNet] : p.nonce = tx.nonce => p = tx
    BY <1>5 DEF StillDue
  <2>2. \A p \in pool'[faucetNet] : p.nonce = tx.nonce => p = tx
    BY <1>5, <2>1 DEF OnlyMore
  <2>3. CASE Nonce(faucetNet)' <= tx.nonce
    BY <1>1, <1>2, <2>1, <2>2, <2>3 DEF StillDue, Promised
  <2>4. CASE ~(Nonce(faucetNet)' <= tx.nonce)
    <3>1. receipts'[faucetNet] # receipts[faucetNet]
      BY <1>1, <1>2, <2>1, <2>4 DEF Nonce
    <3>2. PICK p \in pool[faucetNet], success \in BOOLEAN :
            /\ p.nonce = Nonce(faucetNet)
            /\ receipts'[faucetNet] = Append(receipts[faucetNet], [tx |-> p, success |-> success])
      BY <3>1 DEF NodesGo
    <3> DEFINE S == [tx : T, success : BOOLEAN]
               new == [tx |-> p, success |-> success]
               l == Len(receipts[faucetNet])
    <3>3. receipts[faucetNet] \in Seq(S) /\ new \in S /\ new.tx = p
      BY DEF NodesHold
    <3> HIDE DEF S, new
    <3>4. l \in Nat /\ Len(receipts'[faucetNet]) = l + 1 /\ receipts'[faucetNet][l + 1] = new
      BY <3>2, <3>3 DEF new
    <3>5. Nonce(faucetNet) = l /\ Nonce(faucetNet)' = l + 1
      BY <3>4 DEF Nonce
    <3>6. tx.nonce = l
      BY ONLY <1>1, <1>2, <2>1, <2>4, <3>4, <3>5
    <3>7. p = tx
      BY <2>1, <3>2, <3>5, <3>6
    <3>8. new \in Executed(faucetNet)'
      <4>1. l + 1 \in 1 .. Len(receipts'[faucetNet])
        BY <3>4
      <4>2. receipts'[faucetNet][l + 1] \in Executed(faucetNet)'
        BY <3>4, <3>5, <4>1 DEF Executed
      <4> QED BY <3>4, <4>2
    <3> QED BY <1>2, <3>3, <3>7, <3>8 DEF IsExecuted, Promised
  <2> QED BY <2>3, <2>4
<1> QED BY <1>3, <1>4, <1>5 DEF Promised, OnlyMore

\* The nodes go on without the faucet.
LEMMA FaucetWaits ==
  ASSUME FaucetInv, NEW T, NodesHold(T), NodesGo(T, {}), OnlyMore({}), spends \in Nat,
         UNCHANGED faucetVars
  PROVE  FaucetInv'
<1>1. /\ faucetNet' = faucetNet /\ answered' = answered /\ pendingTx' = pendingTx /\ claim' = claim
      /\ forgotten' = forgotten
  BY DEF faucetVars
<1>2. \A tx \in answered : Promised(tx)'
  BY <1>1, PromiseStays DEF FaucetInv
<1> QED BY <1>1, <1>2 DEF FaucetInv, FaucetTxs, ClaimIsGood

LEMMA FaucetStarts == FaucetInit => FaucetInv
BY DEF FaucetInit, FaucetInv, ClaimIsGood

\* A step that changes neither the nodes nor what was answered.
LEMMA FaucetMoves ==
  ASSUME FaucetInv, spends \in Nat, UNCHANGED walletVars, UNCHANGED <<faucetNet, answered>>,
         pendingTx' = NoTransfer \/ pendingTx' \in FaucetTxs,
         ClaimIsGood', \A tx \in answered : Promised(tx)'
  PROVE  FaucetInv'
BY DEF FaucetInv, FaucetTxs

LEMMA SamePromises ==
  ASSUME UNCHANGED walletVars, UNCHANGED faucetNet, NEW tx,
         pendingTx' = pendingTx \/ tx # pendingTx, forgotten \subseteq forgotten', Promised(tx)
  PROVE  Promised(tx)'
BY DEF walletVars, Promised, IsExecuted, StillDue, Executed, Nonce

LEMMA AccountReadKeeps ==
  ASSUME FaucetInv, NodesHold(GatewayTx), spends \in Nat, ClaimAccountRead, UNCHANGED walletVars
  PROVE  FaucetInv'
<1>1. /\ claim \in Claims /\ claim.at = "account" /\ claim \in [at : {"account", "resend"}, to : Recipient, ip : Ip]
  <2>1. claim.at = "account"
    BY DEF ClaimAccountRead, At
  <2>2. claim \in Claims
    BY <2>1 DEF FaucetInv, ClaimIsGood, NotBusy
  <2>3. claim \notin [at : {"head", "submit"}, to : Recipient, ip : Ip, nonce : Nat]
    BY <2>1
  <2> QED BY <2>1, <2>2, <2>3 DEF Claims
<1>2. UNCHANGED <<faucetNet, answered, forgotten>>
  BY DEF ClaimAccountRead
<1>3. Nonce(faucetNet) \in Nat /\ faucetNet \in Network
  BY NonceIs DEF FaucetInv
<1>4. CASE IsUnpaid(pendingTx)
  <2>1. claim' = [claim EXCEPT !.at = "resend"] /\ pendingTx' = pendingTx
    BY <1>4 DEF ClaimAccountRead
  <2>2. pendingTx \in FaucetTxs
    BY <1>4 DEF IsUnpaid, FaucetInv
  <2>3. claim' \in [at : {"account", "resend"}, to : Recipient, ip : Ip] /\ claim'.at = "resend"
    BY <1>1, <2>1
  <2>4. ClaimIsGood'
    BY <1>2, <2>1, <2>2, <2>3 DEF ClaimIsGood, Claims, FaucetTxs
  <2>5. \A tx \in answered : Promised(tx)'
    BY <1>2, <2>1, SamePromises DEF FaucetInv
  <2> QED BY <1>2, <2>1, <2>2, <2>4, <2>5, FaucetMoves
<1>5. CASE ~IsUnpaid(pendingTx)
  <2>1. /\ pendingTx' = NoTransfer
        /\ claim' = IF Balance(faucetNet) = 0 THEN NotBusy
                    ELSE [at |-> "head", to |-> claim.to, ip |-> claim.ip, nonce |-> Nonce(faucetNet)]
    BY <1>5 DEF ClaimAccountRead
  <2>2. claim' = NotBusy \/ (claim' \in Claims /\ claim'.at = "head")
    <3>1. CASE Balance(faucetNet) = 0
      BY <2>1, <3>1
    <3>2. CASE Balance(faucetNet) # 0
      <4>1. claim' = [at |-> "head", to |-> claim.to, ip |-> claim.ip, nonce |-> Nonce(faucetNet)]
        BY <2>1, <3>2
      <4> QED BY <1>1, <1>3, <4>1 DEF Claims
    <3> QED BY <3>1, <3>2
  <2>3. ClaimIsGood'
    BY <2>1, <2>2 DEF ClaimIsGood
  <2>4. ASSUME NEW tx \in answered PROVE Promised(tx)'
    <3>1. tx \in FaucetTxs /\ tx.nonce \in Nat /\ Promised(tx)
      BY DEF FaucetInv, FaucetTxs
    <3>2. tx # NoTransfer
      BY <3>1, NoTransferIsNone DEF FaucetTxs
    <3>3. ~StillDue(tx)
      BY <1>3, <1>5, <3>1, <3>2 DEF StillDue, IsUnpaid
    <3> QED BY <1>2, <3>1, <3>3 DEF Promised, IsExecuted, walletVars, Executed, Nonce
  <2> QED BY <1>2, <2>1, <2>3, <2>4, FaucetMoves
<1> QED BY <1>4, <1>5

LEMMA SignedKeeps ==
  ASSUME FaucetInv, NodesHold(GatewayTx), spends \in Nat, ClaimSigned, UNCHANGED walletVars
  PROVE  FaucetInv'
<1>1. /\ claim \in [at : {"head", "submit"}, to : Recipient, ip : Ip, nonce : Nat] /\ claim.at = "head"
      /\ pendingTx = NoTransfer
  <2>1. claim.at = "head"
    BY DEF ClaimSigned, At
  <2>2. claim \in Claims /\ pendingTx = NoTransfer
    BY <2>1 DEF FaucetInv, ClaimIsGood, NotBusy
  <2>3. claim \notin [at : {"account", "resend"}, to : Recipient, ip : Ip]
    BY <2>1
  <2> QED BY <2>1, <2>2, <2>3 DEF Claims
<1>2. UNCHANGED <<faucetNet, answered, forgotten>>
  BY DEF ClaimSigned
<1>3. pendingTx' = [net |-> faucetNet, nonce |-> claim.nonce, to |-> claim.to]
  BY DEF ClaimSigned
<1>4. pendingTx' \in FaucetTxs
  BY <1>1, <1>3 DEF FaucetTxs
<1>5. claim' \in [at : {"head", "submit"}, to : Recipient, ip : Ip, nonce : Nat] /\ claim'.at = "submit"
  BY <1>1 DEF ClaimSigned
<1>6. ClaimIsGood'
  BY <1>2, <1>4, <1>5 DEF ClaimIsGood, Claims, FaucetTxs
<1>7. ASSUME NEW tx \in answered PROVE Promised(tx)'
  <2>1. tx # pendingTx
    BY <1>1, NoTransferIsNone DEF FaucetInv, FaucetTxs
  <2> QED BY <1>2, <2>1, SamePromises DEF FaucetInv
<1> QED BY <1>2, <1>4, <1>6, <1>7, FaucetMoves

\* The transfer that was pending is sent, or sent again.
LEMMA SubmittedKeeps ==
  ASSUME FaucetInv, NodesHold(GatewayTx), spends \in Nat,
         NEW answerArrives \in BOOLEAN, ClaimSubmitted(answerArrives)
  PROVE  FaucetInv' /\ NodesGo(GatewayTx, {pendingTx}) /\ pendingTx \in FaucetTxs
<1>1. pendingTx \in FaucetTxs /\ pendingTx \in GatewayTx /\ pendingTx.net = faucetNet /\ faucetNet \in Network
  <2>1. claim.at \in {"resend", "submit"}
    BY DEF ClaimSubmitted, At
  <2>2. pendingTx \in FaucetTxs
    BY <2>1 DEF FaucetInv, ClaimIsGood, NotBusy
  <2> QED BY <2>2 DEF FaucetInv, FaucetTxs, GatewayTx
<1>2. /\ pool' = [pool EXCEPT ![faucetNet] = @ \cup {pendingTx}]
      /\ UNCHANGED <<receipts, spends, faucetNet, pendingTx, forgotten>>
      /\ claim' = NotBusy
      /\ pendingTx.nonce >= Nonce(faucetNet)
      /\ \A p \in pool[faucetNet] : p.nonce = pendingTx.nonce => p = pendingTx
  BY <1>1 DEF ClaimSubmitted, Submit, Accepts
<1>3. NodesGo(GatewayTx, {pendingTx})
  BY <1>1, <1>2, SubmitGoes
<1>4. DOMAIN pool = Network
  BY DEF NodesHold
<1>5. /\ pool'[faucetNet] = pool[faucetNet] \cup {pendingTx}
      /\ \A n \in Network : pool'[n] \subseteq pool[n] \cup {pendingTx}
  BY <1>1, <1>2, <1>4
<1>6. OnlyMore({pendingTx})
  BY <1>2, <1>5 DEF OnlyMore
<1>7. \A tx \in answered : Promised(tx)'
  BY <1>1, <1>2, <1>3, <1>6, PromiseStays DEF FaucetInv
<1>8. StillDue(pendingTx)'
  BY <1>1, <1>2, <1>5 DEF StillDue, Nonce
<1>9. answered' \subseteq answered \cup {pendingTx}
  BY DEF ClaimSubmitted
<1>10. \A tx \in answered' : Promised(tx)' /\ tx \in FaucetTxs
  BY <1>1, <1>2, <1>7, <1>8, <1>9 DEF Promised, FaucetInv
<1>11. FaucetInv'
  BY <1>1, <1>2, <1>10 DEF FaucetInv, FaucetTxs, ClaimIsGood
<1> QED BY <1>1, <1>3, <1>11

\* A step of the faucet keeps its invariant; the nodes get at most `pending`.
LEMMA FaucetStepKeeps ==
  ASSUME FaucetInv, NodesHold(GatewayTx), spends \in Nat, FaucetNext
  PROVE  /\ FaucetInv' /\ spends' \in Nat
         /\ \E more : NodesGo(GatewayTx, more) /\ more \subseteq FaucetTxs
<1>1. CASE UNCHANGED walletVars
  <2>1. NodesGo(GatewayTx, {}) /\ spends' = spends
    BY <1>1, NodesRest DEF walletVars
  <2>2. ASSUME NEW to \in Recipient, NEW ip \in Ip, StartClaim(to, ip) PROVE FaucetInv'
    <3>1. claim' \in Claims /\ claim'.at = "account"
      BY <2>2 DEF StartClaim, Claims
    <3>2. UNCHANGED <<faucetNet, pendingTx, answered, forgotten>>
      BY <2>2 DEF StartClaim
    <3>3. ClaimIsGood'
      BY <3>1 DEF ClaimIsGood
    <3>4. \A tx \in answered : Promised(tx)'
      BY <1>1, <3>2, SamePromises DEF FaucetInv
    <3> QED BY <1>1, <3>2, <3>3, <3>4, FaucetMoves DEF FaucetInv
  <2>3. ASSUME ClaimAccountRead PROVE FaucetInv'
    BY <1>1, <2>3, AccountReadKeeps
  <2>4. ASSUME ClaimSigned PROVE FaucetInv'
    BY <1>1, <2>4, SignedKeeps
  <2>5. ASSUME NEW k, ClaimFails \/ CooldownOver(k) \/ HourOver PROVE FaucetInv'
    <3>1. UNCHANGED <<faucetNet, pendingTx, answered, forgotten>> /\ (claim' = NotBusy \/ claim' = claim)
      BY <2>5 DEF ClaimFails, CooldownOver, HourOver
    <3>2. ClaimIsGood'
      BY <3>1 DEF FaucetInv, ClaimIsGood, FaucetTxs
    <3>3. \A tx \in answered : Promised(tx)'
      BY <1>1, <3>1, SamePromises DEF FaucetInv
    <3> QED BY <1>1, <3>1, <3>2, <3>3, FaucetMoves DEF FaucetInv
  <2>6. ASSUME FaucetRestarts PROVE FaucetInv'
    <3>1. /\ UNCHANGED <<faucetNet, answered>> /\ pendingTx' = NoTransfer /\ claim' = NotBusy
          /\ forgotten' = forgotten \cup ({pendingTx} \cap answered)
      BY <2>6 DEF FaucetRestarts
    <3>2. ASSUME NEW tx \in answered PROVE Promised(tx)'
      <4>1. CASE tx = pendingTx
        BY <3>1, <4>1 DEF Promised
      <4>2. CASE tx # pendingTx
        BY <1>1, <3>1, <4>2, SamePromises DEF FaucetInv
      <4> QED BY <4>1, <4>2
    <3> QED BY <1>1, <3>1, <3>2, FaucetMoves DEF ClaimIsGood
  <2>7. ASSUME NEW answerArrives \in BOOLEAN, ClaimSubmitted(answerArrives) PROVE FaucetInv'
    BY <2>7, SubmittedKeeps
  <2>8. FaucetInv'
    BY <2>2, <2>3, <2>4, <2>5, <2>6, <2>7 DEF FaucetNext
  <2> QED BY <2>1, <2>8
<1>2. ASSUME NEW answerArrives \in BOOLEAN, ClaimSubmitted(answerArrives)
      PROVE  FaucetInv' /\ spends' \in Nat /\ NodesGo(GatewayTx, {pendingTx}) /\ {pendingTx} \subseteq FaucetTxs
  BY <1>2, SubmittedKeeps DEF ClaimSubmitted
<1> QED BY <1>1, <1>2 DEF FaucetNext

LEMMA FaucetFollows == FaucetInv => FaucetPromises
BY DEF FaucetInv, Promised, StillDue, FaucetPromises

-----------------------------------------------------------------------------
(* Gateway, registrations: GrantedOnce and PendingIsPayable for any        *)
(* networks, visitors and faults.  What the nodes hold or have executed    *)
(* for a visitor is what the file says, grant by grant (HeldIsJournalled), *)
(* so memory may be ahead of the file only while nothing is sent; and      *)
(* while no registration is pending the mempools are empty                 *)
(* (PoolIsPending), so that the nonces of the next one, read one after     *)
(* another, are still the next ones when it is journalled.                 *)
Grants == DOMAIN Networks
GrantTxs(a, i) == [net : {Networks[i]}, nonce : Nat, to : {a}]
AreGrants(a, grants) ==
  /\ grants \in Seq(Transfer) /\ Len(grants) <= Len(Networks)
  /\ \A i \in 1 .. Len(grants) : grants[i] \in GrantTxs(a, i)

JournalEntry == [status : {"pending", "confirmed", "failed"}, grants : Seq(Transfer)]

RecordIsGood(a, r) ==
  r = NoRecord \/ (r \in JournalEntry /\ AreGrants(a, r.grants) /\ Len(r.grants) = Len(Networks))

JournalIsGood(j) ==
  /\ j \in [pending : Recipient \cup {Nobody}, ips : SUBSET Source, records : [Recipient -> JournalEntry \cup {NoRecord}]]
  /\ \A a \in Recipient : /\ RecordIsGood(a, j.records[a])
                          /\ j.records[a].status = "pending" <=> j.pending = a

Success(tx) == \E r \in Receipt(tx) : r.success
Due(tx) ==
  \/ spends > 0 \/ Receipt(tx) # {}
  \/ tx.nonce = Nonce(tx.net) /\ \A p \in pool[tx.net] : p = tx

RecordIsTrue(r) ==
  /\ r.status = "confirmed" => \A i \in Grants : Success(r.grants[i])
  /\ r.status = "pending"   => \A i \in Grants : Due(r.grants[i])

JournalIsTrue(j) == \A a \in Recipient : RecordIsTrue(j.records[a])

IsJournalled(n, tx) ==
  \E a \in Recipient, i \in Grants :
    /\ Networks[i] = n /\ journal.records[a] # NoRecord /\ tx = journal.records[a].grants[i]
    /\ \A k \in 1 .. i - 1 : Success(journal.records[a].grants[k])

HeldIsJournalled ==
  \A n \in Network : \A tx \in Held(n) : tx.to \in Recipient => IsJournalled(n, tx)

PoolIsNext == \A n \in Network : \A tx \in pool[n] : tx.nonce >= Nonce(n)

PoolIsPending ==
  spends > 0 \/ \A n \in Network : \A tx \in pool[n] : tx.to \in Recipient /\ journal.pending = tx.to

Beginning == [at : {"existing"}, new : Recipient, source : Source]
Gathering  == [at : {"fund"}, new : Recipient, source : Source, grants : Seq(Transfer)]
Finishing == [at : {"receipt", "nonce", "submit", "wait"}, finishing : Recipient,
              grant : Grants, new : Recipient \cup {Nobody}, source : Source]

CallIsGood ==
  \/ call = NoCall
  \/ /\ ~journalFailed
     /\ \/ call \in Beginning /\ Status(call.new) = "none" /\ state.pending = Nobody
        \/ /\ call \in Gathering /\ Status(call.new) = "none" /\ state.pending = Nobody
           /\ AreGrants(call.new, call.grants) /\ Len(call.grants) < Len(Networks)
           /\ spends > 0 \/ \A i \in 1 .. Len(call.grants) :
                              call.grants[i].nonce = Nonce(Networks[i])
        \/ /\ call \in Finishing /\ state.pending = call.finishing
           /\ call.new # Nobody => Status(call.new) = "none"
           /\ \A k \in 1 .. call.grant - 1 : Success(state.records[call.finishing].grants[k])

JournalInv ==
  /\ JournalIsGood(state) /\ JournalIsTrue(state)
  /\ JournalIsGood(journal) /\ JournalIsTrue(journal)
  /\ journalFailed \in BOOLEAN /\ (~journalFailed => state = journal)
  /\ HeldIsJournalled /\ PoolIsNext /\ PoolIsPending

RegistrationInv == JournalInv /\ CallIsGood

LEMMA NetworksAre ==
  /\ Len(Networks) \in Nat /\ Len(Networks) >= 1 /\ Grants = 1 .. Len(Networks) /\ 1 \in Grants
  /\ \A i \in Grants : Networks[i] \in Network
  /\ \A n \in Network : \E i \in Grants : Networks[i] = n
  /\ \A i, k \in Grants : Networks[i] = Networks[k] => i = k
BY NetworksAssumption DEF Grants, Range

LEMMA GrantIs ==
  ASSUME NEW a \in Recipient, NEW r \in JournalEntry, RecordIsGood(a, r), NEW i \in Grants
  PROVE  /\ r.grants[i] \in GatewayTx /\ r.grants[i].net = Networks[i]
         /\ r.grants[i].net \in Network /\ r.grants[i].nonce \in Nat /\ r.grants[i].to = a
<1>1. r # NoRecord
  BY DEF JournalEntry, NoRecord
<1>2. AreGrants(a, r.grants) /\ i \in 1 .. Len(r.grants)
  BY <1>1, NetworksAre DEF RecordIsGood
<1>3. r.grants[i] \in GrantTxs(a, i)
  BY <1>2 DEF AreGrants
<1> QED BY <1>3, NetworksAre DEF GrantTxs, GatewayTx

LEMMA RecordIs ==
  ASSUME NEW a \in Recipient, NEW j, JournalIsGood(j)
  PROVE  /\ j.records[a] = NoRecord <=> j.records[a].status = "none"
         /\ j.records[a] # NoRecord => j.records[a] \in JournalEntry
         /\ RecordIsGood(a, j.records[a])
         /\ j.records[a].status = "pending" <=> j.pending = a
BY DEF JournalIsGood, RecordIsGood, JournalEntry, NoRecord

\* What was executed stays so.
LEMMA SuccessStays ==
  ASSUME NEW T, NEW more, NodesHold(T), NodesGo(T, more), NEW tx, tx.net \in Network
  PROVE  /\ Success(tx) => Success(tx)'
         /\ Receipt(tx) # {} => Receipt(tx)' # {}
BY ReceiptsGrow DEF Success, Receipt

\* The nonce of the node moves when it executes what it held for that nonce.
LEMMA NextIsExecuted ==
  ASSUME NEW T, NEW more, NodesHold(T), NodesGo(T, more), NEW n \in Network
  PROVE  \/ Nonce(n)' = Nonce(n) /\ Executed(n)' = Executed(n)
         \/ \E p \in pool[n] : p.nonce = Nonce(n) /\ \E r \in Executed(n)' : r.tx = p
<1>1. CASE receipts'[n] = receipts[n]
  BY <1>1 DEF Nonce, Executed
<1>2. CASE receipts'[n] # receipts[n]
  <2>1. PICK p \in pool[n], success \in BOOLEAN :
          /\ p.nonce = Nonce(n)
          /\ receipts'[n] = Append(receipts[n], [tx |-> p, success |-> success])
    BY <1>2 DEF NodesGo
  <2> DEFINE S == [tx : T, success : BOOLEAN]
             new == [tx |-> p, success |-> success]
             l == Len(receipts[n])
  <2>2. receipts[n] \in Seq(S) /\ new \in S /\ new.tx = p
    BY DEF NodesHold
  <2> HIDE DEF S, new
  <2>3. l \in Nat /\ Len(receipts'[n]) = l + 1 /\ receipts'[n][l + 1] = new
    BY <2>1, <2>2 DEF new
  <2>4. l + 1 \in 1 .. Len(receipts'[n]) /\ Nonce(n)' = Len(receipts'[n])
    BY <2>3 DEF Nonce
  <2>5. receipts'[n][l + 1] \in Executed(n)'
    BY <2>4 DEF Executed
  <2> QED BY <2>1, <2>2, <2>3, <2>5
<1> QED BY <1>1, <1>2

LEMMA DueStays ==
  ASSUME NEW T, NEW more, NodesHold(T), NodesGo(T, more), OnlyMore(more), spends \in Nat,
         NEW tx, tx.net \in Network, \A m \in more : m.net = tx.net => m = tx, Due(tx)
  PROVE  Due(tx)'
<1>1. CASE spends > 0 \/ spends' > 0
  BY <1>1 DEF OnlyMore, Due
<1>2. CASE Receipt(tx) # {}
  BY <1>2, SuccessStays DEF Due
<1>3. CASE ~(spends > 0) /\ ~(spends' > 0) /\ tx.nonce = Nonce(tx.net) /\ \A p \in pool[tx.net] : p = tx
  <2>1. \A p \in pool'[tx.net] : p = tx
    <3>1. \A p \in pool'[tx.net] : p \in pool[tx.net] \cup more /\ p.net = tx.net
      BY <1>3 DEF OnlyMore, NodesGo, NodesHold
    <3> QED BY <1>3, <3>1
  <2>2. CASE Nonce(tx.net)' = Nonce(tx.net)
    BY <1>3, <2>1, <2>2 DEF Due
  <2>3. ASSUME NEW p \in pool[tx.net], NEW r \in Executed(tx.net)', r.tx = p PROVE Due(tx)'
    BY <1>3, <2>3 DEF Due, Receipt
  <2> QED BY <2>2, <2>3, NextIsExecuted
<1> QED BY <1>1, <1>2, <1>3 DEF Due, OnlyMore

LEMMA JournalStaysTrue ==
  ASSUME NEW more, NodesHold(GatewayTx), NodesGo(GatewayTx, more), OnlyMore(more), spends \in Nat,
         NEW j, JournalIsGood(j), JournalIsTrue(j),
         \A m \in more : /\ m.to \in Recipient /\ j.records[m.to].status = "pending"
                         /\ \E i \in Grants : m = j.records[m.to].grants[i]
  PROVE  \A a \in Recipient : /\ j.records[a].status = "confirmed" =>
                                   \A i \in Grants : Success(j.records[a].grants[i])'
                              /\ j.records[a].status = "pending" =>
                                   \A i \in Grants : Due(j.records[a].grants[i])'
<1> SUFFICES ASSUME NEW a \in Recipient, j.records[a] # NoRecord
             PROVE  /\ j.records[a].status = "confirmed" =>
                                   \A i \in Grants : Success(j.records[a].grants[i])'
                    /\ j.records[a].status = "pending" =>
                                   \A i \in Grants : Due(j.records[a].grants[i])'
  BY RecordIs
<1> DEFINE r == j.records[a]
<1>1. r \in JournalEntry /\ RecordIsGood(a, r) /\ RecordIsTrue(r)
  BY RecordIs DEF JournalIsTrue
<1>2. \A i \in Grants : r.grants[i].net = Networks[i] /\ r.grants[i].net \in Network
  BY <1>1, GrantIs
<1>3. ASSUME r.status = "confirmed", NEW i \in Grants PROVE Success(r.grants[i])'
  <2>1. PICK tx : tx = r.grants[i]
    OBVIOUS
  <2>2. Success(tx) /\ tx.net \in Network
    BY <1>1, <1>2, <1>3, <2>1 DEF RecordIsTrue
  <2>3. Success(tx)'
    BY <2>2, SuccessStays
  <2> QED BY <2>1, <2>3
<1>4. ASSUME r.status = "pending", NEW i \in Grants PROVE Due(r.grants[i])'
  <2>1. PICK tx : tx = r.grants[i]
    OBVIOUS
  <2>2. Due(tx) /\ tx.net \in Network
    BY <1>1, <1>2, <1>4, <2>1 DEF RecordIsTrue
  <2>3. ASSUME NEW m \in more, m.net = tx.net PROVE m = tx
    <3>1. m.to = a
      BY <1>4, RecordIs
    <3>2. PICK k \in Grants : m = r.grants[k]
      BY <3>1
    <3> QED BY <1>2, <2>1, <2>3, <3>2, NetworksAre
  <2>4. Due(tx)'
    BY <2>2, <2>3, DueStays
  <2> QED BY <2>1, <2>4
<1> QED BY <1>3, <1>4

LEMMA HeldStaysJournalled ==
  ASSUME NEW more, NodesHold(GatewayTx), NodesGo(GatewayTx, more), HeldIsJournalled,
         JournalIsGood(journal),
         \A a \in Recipient : journal.records[a] # NoRecord =>
            journal'.records[a] # NoRecord /\ journal'.records[a].grants = journal.records[a].grants,
         \A m \in more : m.to \in Recipient => IsJournalled(m.net, m)
  PROVE  HeldIsJournalled'
<1> SUFFICES ASSUME NEW n \in Network, NEW tx \in Held(n)', tx.to \in Recipient PROVE IsJournalled(n, tx)'
  BY DEF HeldIsJournalled
<1>1. tx \in Held(n) \cup more /\ tx.net = n
  BY HeldGo, RecipientAssumption
<1>2. IsJournalled(n, tx)
  BY <1>1 DEF HeldIsJournalled
<1>3. PICK a \in Recipient, i \in Grants :
        /\ Networks[i] = n /\ journal.records[a] # NoRecord /\ tx = journal.records[a].grants[i]
        /\ \A k \in 1 .. i - 1 : Success(journal.records[a].grants[k])
  BY <1>2 DEF IsJournalled
<1>4. journal'.records[a] # NoRecord /\ journal'.records[a].grants = journal.records[a].grants
  BY <1>3
<1>5. ASSUME NEW k \in 1 .. i - 1 PROVE Success(journal.records[a].grants[k])'
  <2>1. k \in Grants
    BY <1>3, NetworksAre
  <2>2. PICK q : q = journal.records[a].grants[k]
    OBVIOUS
  <2>3. q.net \in Network /\ Success(q)
    BY <1>3, <2>1, <2>2, RecordIs, GrantIs
  <2>4. Success(q)'
    BY <2>3, SuccessStays
  <2>5. journal'.records[a].grants[k] = q
    BY <1>4, <2>2
  <2> QED BY <2>4, <2>5
<1> QED BY <1>3, <1>4, <1>5 DEF IsJournalled

LEMMA NextStaysNext ==
  ASSUME NodesHold(GatewayTx), WalletNext, PoolIsNext
  PROVE  PoolIsNext'
<1>0. DOMAIN pool = Network /\ DOMAIN receipts = Network
  BY DEF NodesHold
<1>1. ASSUME NEW n \in Network, NEW success \in BOOLEAN, ExecuteTransfer(n, success) PROVE PoolIsNext'
  <2>1. PICK tx \in pool[n] :
          /\ tx.nonce = Nonce(n)
          /\ receipts' = [receipts EXCEPT ![n] = Append(@, [tx |-> tx, success |-> success])]
          /\ pool' = [pool EXCEPT ![n] = {p \in @ : p.nonce > tx.nonce}]
    BY <1>1 DEF ExecuteTransfer
  <2> DEFINE S == [tx : GatewayTx, success : BOOLEAN]
             new == [tx |-> tx, success |-> success]
  <2>2. receipts[n] \in Seq(S) /\ new \in S
    BY DEF NodesHold
  <2> HIDE DEF S
  <2>3. Len(Append(receipts[n], new)) = Len(receipts[n]) + 1 /\ Len(receipts[n]) \in Nat
    BY <2>2
  <2>4. Nonce(n)' = Nonce(n) + 1 /\ Nonce(n) \in Nat /\ \A m \in Network : m # n => Nonce(m)' = Nonce(m)
    BY <1>0, <2>1, <2>3 DEF Nonce
  <2>5. /\ \A p \in pool'[n] : p \in pool[n] /\ p.nonce > tx.nonce
        /\ \A m \in Network : m # n => pool'[m] = pool[m]
    BY <1>0, <2>1
  <2>6. \A p \in pool'[n] : p.nonce \in Nat
    BY <2>5 DEF NodesHold, GatewayTx
  <2>7. \A p \in pool'[n] : p.nonce >= Nonce(n)'
    BY <2>1, <2>4, <2>5, <2>6
  <2> QED BY <2>4, <2>5, <2>7 DEF PoolIsNext
<1>2. ASSUME NEW n \in Network, SpendOutside(n) PROVE PoolIsNext'
  <2> DEFINE tx == [net |-> n, nonce |-> Nonce(n), to |-> Outside]
  <2>1. pool' = [pool EXCEPT ![n] = @ \cup {tx}] /\ receipts' = receipts /\ tx.nonce = Nonce(n)
    BY <1>2 DEF SpendOutside, Submit
  <2> HIDE DEF tx
  <2>2. /\ pool'[n] = pool[n] \cup {tx} /\ \A m \in Network : m # n => pool'[m] = pool[m]
        /\ \A m \in Network : Nonce(m)' = Nonce(m)
    BY <1>0, <2>1 DEF Nonce
  <2>3. Nonce(n) \in Nat
    BY NonceIs
  <2> QED BY <2>1, <2>2, <2>3 DEF PoolIsNext
<1>3. ASSUME NEW n \in Network, NodeStops(n) PROVE PoolIsNext'
  BY <1>0, <1>3 DEF NodeStops, PoolIsNext, Nonce
<1> QED BY <1>1, <1>2, <1>3 DEF WalletNext

LEMMA PendingStays ==
  ASSUME NEW more, OnlyMore(more), spends \in Nat, PoolIsPending, journal'.pending = journal.pending,
         \A m \in more : m.to \in Recipient /\ journal.pending = m.to
  PROVE  PoolIsPending'
BY DEF PoolIsPending, OnlyMore

\* While no registration is pending the nodes hold nothing, so no nonce moves.
LEMMA NothingHeld ==
  ASSUME PoolIsPending, journal.pending = Nobody, NEW n \in Network
  PROVE  spends > 0 \/ pool[n] = {}
BY NobodyAssumption DEF PoolIsPending

\* The nodes go on, and get at most grants of the pending registration.
LEMMA JournalWaits ==
  ASSUME JournalInv, NEW more, NodesHold(GatewayTx), NodesGo(GatewayTx, more), OnlyMore(more),
         spends \in Nat, UNCHANGED <<state, journal, journalFailed>>, PoolIsNext',
         more = {} \/ state = journal,
         \A m \in more : m.to \in Recipient /\ journal.pending = m.to /\ IsJournalled(m.net, m)
  PROVE  JournalInv'
<1>0. /\ JournalIsGood(state) /\ JournalIsTrue(state) /\ JournalIsGood(journal) /\ JournalIsTrue(journal)
      /\ HeldIsJournalled /\ PoolIsPending
  BY DEF JournalInv
<1>1. PICK s, j : s = state /\ j = journal
  OBVIOUS
<1>2. ASSUME NEW m \in more
      PROVE  /\ m.to \in Recipient /\ journal.records[m.to].status = "pending"
             /\ \E i \in Grants : m = journal.records[m.to].grants[i]
  <2>1. PICK a \in Recipient, i \in Grants : journal.records[a] # NoRecord /\ m = journal.records[a].grants[i]
    BY <1>2 DEF IsJournalled
  <2>2. m.to = a
    BY <1>0, <2>1, RecordIs, GrantIs
  <2> QED BY <1>0, <1>2, <2>1, <2>2, RecordIs
<1>3. \A a \in Recipient : /\ j.records[a].status = "confirmed" =>
                                   \A i \in Grants : Success(j.records[a].grants[i])'
                           /\ j.records[a].status = "pending" =>
                                   \A i \in Grants : Due(j.records[a].grants[i])'
  BY <1>0, <1>1, <1>2, JournalStaysTrue
<1>4. \A a \in Recipient : /\ s.records[a].status = "confirmed" =>
                                   \A i \in Grants : Success(s.records[a].grants[i])'
                           /\ s.records[a].status = "pending" =>
                                   \A i \in Grants : Due(s.records[a].grants[i])'
  BY <1>0, <1>1, <1>2, JournalStaysTrue
<1>5. JournalIsTrue(j)' /\ JournalIsTrue(s)'
  BY <1>3, <1>4 DEF JournalIsTrue, RecordIsTrue
<1>6. JournalIsTrue(state)' /\ JournalIsTrue(journal)'
  BY <1>1, <1>5 DEF JournalIsTrue, RecordIsTrue
<1>7. HeldIsJournalled'
  BY <1>0, HeldStaysJournalled
<1>8. PoolIsPending'
  BY <1>0, PendingStays
<1>9. JournalIsGood(state)' /\ JournalIsGood(journal)'
  BY <1>0 DEF JournalIsGood
<1> QED BY <1>6, <1>7, <1>8, <1>9 DEF JournalInv

\* The call waits for the nodes.
LEMMA CallWaits ==
  ASSUME RegistrationInv, NEW T, NEW more, NodesHold(T), NodesGo(T, more), OnlyMore(more), spends \in Nat,
         UNCHANGED <<state, journal, journalFailed, call>>
  PROVE  CallIsGood'
<1>0. CallIsGood /\ JournalIsGood(state)
  BY DEF RegistrationInv, JournalInv
<1>1. CASE call = NoCall
  BY <1>1 DEF CallIsGood
<1>2. CASE ~journalFailed /\ call \in Beginning /\ Status(call.new) = "none" /\ state.pending = Nobody
  BY <1>2 DEF CallIsGood, Status
<1>3. CASE /\ ~journalFailed
           /\ call \in Gathering /\ Status(call.new) = "none" /\ state.pending = Nobody
           /\ AreGrants(call.new, call.grants) /\ Len(call.grants) < Len(Networks)
           /\ spends > 0 \/ \A i \in 1 .. Len(call.grants) :
                               call.grants[i].nonce = Nonce(Networks[i])
  <2>1. CASE spends > 0 \/ spends' > 0
    BY <1>3, <2>1 DEF CallIsGood, Status, OnlyMore
  <2>2. CASE ~(spends > 0) /\ ~(spends' > 0)
    <3>1. journal.pending = Nobody /\ PoolIsPending
      BY <1>3 DEF RegistrationInv, JournalInv
    <3>2. \A n \in Network : Nonce(n)' = Nonce(n)
      BY <2>2, <3>1, NothingHeld, NextIsExecuted
    <3>3. \A i \in 1 .. Len(call.grants) : Networks[i] \in Network
      <4>1. Len(call.grants) \in Nat
        <5> DEFINE S == Transfer
        <5>1. call.grants \in Seq(S)
          BY <1>3 DEF AreGrants
        <5> HIDE DEF S
        <5> QED BY <5>1
      <4> QED BY <1>3, <4>1, NetworksAre
    <3> QED BY <1>3, <2>2, <3>2, <3>3 DEF CallIsGood, Status
  <2> QED BY <2>1, <2>2
<1>4. CASE /\ ~journalFailed
           /\ call \in Finishing /\ state.pending = call.finishing
           /\ call.new # Nobody => Status(call.new) = "none"
           /\ \A k \in 1 .. call.grant - 1 : Success(state.records[call.finishing].grants[k])
  <2>1. call.finishing \in Recipient /\ call.grant \in Grants
    BY <1>4 DEF Finishing
  <2>2. PICK r : r = state.records[call.finishing]
    OBVIOUS
  <2>3. r \in JournalEntry /\ RecordIsGood(call.finishing, r)
    <3>1. r.status = "pending"
      BY <1>0, <1>4, <2>1, <2>2, RecordIs
    <3> QED BY <1>0, <2>1, <2>2, <3>1, RecordIs
  <2>4. ASSUME NEW k \in 1 .. call.grant - 1 PROVE Success(r.grants[k])'
    <3>1. PICK tx : tx = r.grants[k]
      OBVIOUS
    <3>2. k \in Grants
      BY <2>1, NetworksAre
    <3>3. tx.net \in Network /\ Success(tx)
      BY <1>4, <2>1, <2>2, <2>3, <3>1, <3>2, GrantIs
    <3>4. Success(tx)'
      BY <3>3, SuccessStays
    <3> QED BY <3>1, <3>4
  <2> QED BY <1>4, <2>2, <2>4 DEF CallIsGood, Status
<1> QED BY <1>0, <1>1, <1>2, <1>3, <1>4 DEF CallIsGood

-----------------------------------------------------------------------------
(* The steps of a registration.                                            *)
LEMMA WalletsRest ==
  ASSUME UNCHANGED walletVars, NodesHold(GatewayTx), spends \in Nat, PoolIsNext
  PROVE  /\ NodesGo(GatewayTx, {}) /\ OnlyMore({}) /\ PoolIsNext'
         /\ \A n \in Network : Nonce(n)' = Nonce(n) /\ pool'[n] = pool[n] /\ Executed(n)' = Executed(n)
<1>1. NodesGo(GatewayTx, {})
  BY NodesRest
<1>2. receipts' = receipts /\ pool' = pool /\ spends' = spends
  BY DEF walletVars
<1> QED BY <1>1, <1>2 DEF OnlyMore, PoolIsNext, Nonce, Executed

\* The call goes on; the journal stays.
LEMMA CallMoves ==
  ASSUME RegistrationInv, NodesHold(GatewayTx), spends \in Nat, UNCHANGED walletVars,
         UNCHANGED <<state, journal, journalFailed>>, CallIsGood'
  PROVE  RegistrationInv'
<1>1. NodesGo(GatewayTx, {}) /\ OnlyMore({}) /\ PoolIsNext'
  BY WalletsRest DEF RegistrationInv, JournalInv
<1>2. JournalInv'
  BY <1>1, JournalWaits DEF RegistrationInv
<1> QED BY <1>2 DEF RegistrationInv

LEMMA EndedKeeps ==
  ASSUME RegistrationInv, NodesHold(GatewayTx), spends \in Nat, UNCHANGED walletVars, call' = NoCall, KeepJournal
  PROVE  RegistrationInv'
<1>1. CallIsGood'
  BY DEF CallIsGood
<1> QED BY <1>1, CallMoves DEF KeepJournal

LEMMA RegisterKeeps ==
  ASSUME RegistrationInv, NodesHold(GatewayTx), spends \in Nat, UNCHANGED walletVars,
         NEW a \in Recipient, NEW s \in Source, Register(a, s)
  PROVE  RegistrationInv'
<1>1. UNCHANGED <<state, journal, journalFailed>> /\ ~journalFailed
  BY DEF Register, KeepJournal
<1>2. JournalIsGood(state)
  BY DEF RegistrationInv, JournalInv
<1>3. ASSUME NEW f \in Recipient, NEW new \in Recipient \cup {Nobody}, call' = Finish(f, new, s),
             state.pending = f, new # Nobody => Status(new) = "none"
      PROVE  CallIsGood'
  <2>1. /\ call' \in Finishing /\ call'.finishing = f /\ call'.new = new /\ call'.grant = 1
    BY <1>3, NetworksAre DEF Finish, Finishing
  <2>2. \A k \in 1 .. 1 - 1 : Success(state.records[f].grants[k])'
    OBVIOUS
  <2> QED BY <1>1, <1>3, <2>1, <2>2 DEF CallIsGood, Status
<1>4. ASSUME Status(a) = "pending", call' = Finish(a, Nobody, s) PROVE CallIsGood'
  BY <1>2, <1>3, <1>4, RecordIs DEF Status
<1>5. ASSUME Status(a) = "none", state.pending = Nobody, call' = Begin(a, s) PROVE CallIsGood'
  <2>1. call' \in Beginning /\ call'.new = a
    BY <1>5 DEF Begin, Beginning
  <2> QED BY <1>1, <1>5, <2>1 DEF CallIsGood, Status
<1>6. ASSUME Status(a) = "none", state.pending # Nobody, call' = Finish(state.pending, a, s) PROVE CallIsGood'
  <2>1. state.pending \in Recipient
    BY <1>2, <1>6 DEF JournalIsGood
  <2> QED BY <1>3, <1>6, <2>1
<1>7. CallIsGood'
  BY <1>3, <1>4, <1>5, <1>6 DEF Register
<1> QED BY <1>1, <1>7, CallMoves

LEMMA ExistingReadKeeps ==
  ASSUME RegistrationInv, NodesHold(GatewayTx), spends \in Nat, UNCHANGED walletVars, ExistingRead
  PROVE  RegistrationInv'
<1>1. UNCHANGED <<state, journal, journalFailed>> /\ call.at = "existing"
  BY DEF ExistingRead, KeepJournal
<1>2. ~journalFailed /\ call \in Beginning /\ Status(call.new) = "none" /\ state.pending = Nobody
  BY <1>1 DEF RegistrationInv, CallIsGood, NoCall, Gathering, Finishing
<1>3. CASE call' = NoCall
  BY <1>3, EndedKeeps DEF ExistingRead
<1>4. CASE call' = [at |-> "fund", new |-> call.new, source |-> call.source, grants |-> <<>>]
  <2> DEFINE S == Transfer
  <2>1. <<>> \in Seq(S) /\ Len(<<>>) = 0
    OBVIOUS
  <2>2. call' \in Gathering /\ call'.new = call.new /\ call'.grants = <<>>
    <3> HIDE DEF S
    <3>1. call' \in [at : {"fund"}, new : Recipient, source : Source, grants : Seq(S)]
      BY <1>2, <1>4, <2>1 DEF Beginning
    <3> QED BY <1>4, <3>1 DEF Gathering, S
  <2>3. AreGrants(call.new, <<>>) /\ Len(<<>>) < Len(Networks) /\ 1 .. Len(<<>>) = {}
    BY <2>1, NetworksAre DEF AreGrants
  <2>4. CallIsGood'
    BY <1>1, <1>2, <2>2, <2>3 DEF CallIsGood, Status
  <2> QED BY <1>1, <2>4, CallMoves
<1> QED BY <1>3, <1>4 DEF ExistingRead

\* The journal is written, or is not.
LEMMA SaveKeeps ==
  ASSUME JournalInv, ~journalFailed, NodesHold(GatewayTx), spends \in Nat, UNCHANGED walletVars,
         NEW new, Save(new), JournalIsGood(new), JournalIsTrue(new),
         \A a \in Recipient : state.records[a] # NoRecord =>
            new.records[a] # NoRecord /\ new.records[a].grants = state.records[a].grants,
         spends > 0 \/ \A n \in Network : pool[n] = {}
  PROVE  JournalInv' /\ state' = new
<1>1. /\ state = journal /\ JournalIsGood(journal) /\ HeldIsJournalled /\ PoolIsNext /\ JournalIsTrue(journal)
  BY DEF JournalInv
<1>2. /\ NodesGo(GatewayTx, {}) /\ PoolIsNext'
      /\ \A n \in Network : Nonce(n)' = Nonce(n) /\ pool'[n] = pool[n] /\ Executed(n)' = Executed(n)
  BY <1>1, WalletsRest
<1>3. /\ state' = new /\ (journal' = new \/ (journal' = journal /\ journalFailed' = TRUE))
      /\ journalFailed' \in BOOLEAN /\ (~journalFailed' => journal' = new)
  BY DEF Save, Fault, JournalInv
<1>4. ASSUME NEW j, JournalIsGood(j), JournalIsTrue(j) PROVE JournalIsTrue(j)'
  <2>1. ASSUME NEW a \in Recipient, j.records[a] # NoRecord, NEW i \in Grants
        PROVE  /\ Success(j.records[a].grants[i])' <=> Success(j.records[a].grants[i])
               /\ Due(j.records[a].grants[i]) => Due(j.records[a].grants[i])'
    <3>1. PICK tx : tx = j.records[a].grants[i]
      OBVIOUS
    <3>2. tx.net \in Network
      BY <1>4, <2>1, <3>1, RecordIs, GrantIs
    <3>3. spends' = spends
      BY DEF walletVars
    <3>4. (Success(tx)' <=> Success(tx)) /\ (Due(tx) => Due(tx)')
      BY <1>2, <3>2, <3>3 DEF Success, Due, Receipt
    <3> QED BY <3>1, <3>4
  <2>2. ASSUME NEW a \in Recipient, j.records[a] = NoRecord
        PROVE  j.records[a].status # "confirmed" /\ j.records[a].status # "pending"
    BY <2>2 DEF NoRecord
  <2> QED BY <1>4, <2>1, <2>2 DEF JournalIsTrue, RecordIsTrue
<1>5. PICK o : o = journal
  OBVIOUS
<1>6. JournalIsTrue(new)' /\ JournalIsTrue(o)'
  BY <1>1, <1>4, <1>5
<1>7. JournalIsTrue(state)' /\ JournalIsTrue(journal)'
  BY <1>3, <1>5, <1>6 DEF JournalIsTrue, RecordIsTrue
<1>8. JournalIsGood(state') /\ JournalIsGood(journal')
  BY <1>1, <1>3
<1>9. HeldIsJournalled'
  BY <1>1, <1>2, <1>3, HeldStaysJournalled
<1>10. PoolIsPending'
  BY <1>2 DEF PoolIsPending, walletVars
<1> QED BY <1>2, <1>3, <1>7, <1>8, <1>9, <1>10 DEF JournalInv, JournalIsGood

\* The next grant is signed with the nonce of its wallet.
LEMMA GrantAdded ==
  ASSUME NEW a \in Recipient, NEW grants, AreGrants(a, grants), Len(grants) < Len(Networks),
         NEW tx \in GrantTxs(a, Len(grants) + 1)
  PROVE  /\ AreGrants(a, Append(grants, tx)) /\ Len(Append(grants, tx)) = Len(grants) + 1
         /\ \A i \in 1 .. Len(grants) : Append(grants, tx)[i] = grants[i]
         /\ Append(grants, tx)[Len(grants) + 1] = tx
<1> DEFINE S == Transfer
           more == Append(grants, tx)
           l == Len(grants)
<1>1. grants \in Seq(S)
  BY DEF AreGrants
<1>2. l \in Nat
  <2> HIDE DEF S
  <2> QED BY <1>1
<1>3. l + 1 \in Grants /\ l + 1 <= Len(Networks)
  BY <1>2, NetworksAre
<1>4. tx \in S
  BY <1>3, NetworksAre DEF Transfer, GrantTxs
<1> HIDE DEF S
<1>5. more \in Seq(S) /\ Len(more) = l + 1 /\ more[l + 1] = tx /\ \A i \in 1 .. l : more[i] = grants[i]
  BY <1>1, <1>2, <1>4
<1>6. \A i \in 1 .. l + 1 : more[i] \in GrantTxs(a, i)
  <2> SUFFICES ASSUME NEW i \in 1 .. l + 1 PROVE more[i] \in GrantTxs(a, i)
    OBVIOUS
  <2>1. CASE i = l + 1
    BY <1>5, <2>1
  <2>2. CASE i # l + 1
    <3>1. i \in 1 .. l
      BY <1>2, <2>2
    <3> QED BY <1>5, <3>1 DEF AreGrants
  <2> QED BY <2>1, <2>2
<1> QED BY <1>3, <1>5, <1>6 DEF AreGrants, S

LEMMA FundedKeeps ==
  ASSUME RegistrationInv, NodesHold(GatewayTx), spends \in Nat, UNCHANGED walletVars, Funded
  PROVE  RegistrationInv'
<1>1. /\ ~journalFailed /\ call \in Gathering /\ Status(call.new) = "none" /\ state.pending = Nobody
      /\ AreGrants(call.new, call.grants) /\ Len(call.grants) < Len(Networks)
      /\ spends > 0 \/ \A i \in 1 .. Len(call.grants) : call.grants[i].nonce = Nonce(Networks[i])
  BY DEF Funded, RegistrationInv, CallIsGood, NoCall, Beginning, Finishing
<1>2. PICK a, given, l, n, grants :
        /\ a = call.new /\ given = call.grants /\ l = Len(given) /\ n = Networks[l + 1]
        /\ grants = Append(given, [net |-> n, nonce |-> Nonce(n), to |-> a])
  OBVIOUS
<1>3. a \in Recipient /\ AreGrants(a, given) /\ l < Len(Networks) /\ call.source \in Source
  BY <1>1, <1>2 DEF Gathering
<1>4. /\ AreGrants(a, grants) /\ Len(grants) = l + 1 /\ n \in Network
      /\ \A i \in 1 .. l : grants[i] = given[i]
      /\ grants[Len(grants)].nonce = Nonce(n)
  <2>1. PICK tx : tx = [net |-> n, nonce |-> Nonce(n), to |-> a]
    OBVIOUS
  <2>2. l \in Nat
    <3> DEFINE S == Transfer
    <3>1. given \in Seq(S)
      BY <1>3 DEF AreGrants
    <3> HIDE DEF S
    <3> QED BY <1>2, <3>1
  <2>3. n \in Network
    BY <1>2, <1>3, <2>2, NetworksAre
  <2>4. tx \in GrantTxs(a, l + 1) /\ tx.nonce = Nonce(n)
    BY <1>2, <2>1, <2>3, NonceIs DEF GrantTxs
  <2>5. grants = Append(given, tx)
    BY <1>2, <2>1
  <2> QED BY <1>2, <1>3, <2>3, <2>4, <2>5, GrantAdded
<1>5. l \in Nat /\ grants \in Seq(Transfer)
  <2> DEFINE S == Transfer
  <2>1. given \in Seq(S) /\ grants \in Seq(S)
    BY <1>3, <1>4 DEF AreGrants
  <2> HIDE DEF S
  <2>2. l \in Nat
    BY <1>2, <2>1
  <2> QED BY <2>1, <2>2 DEF S
<1>6. spends > 0 \/ \A i \in 1 .. l + 1 : grants[i].nonce = Nonce(Networks[i])
  <2>1. ASSUME ~(spends > 0), NEW i \in 1 .. l + 1 PROVE grants[i].nonce = Nonce(Networks[i])
    <3>1. CASE i = l + 1
      BY <1>2, <1>4, <3>1
    <3>2. CASE i # l + 1
      <4>1. i \in 1 .. l
        BY <1>5, <3>2
      <4> QED BY <1>1, <1>2, <1>4, <2>1, <4>1
    <3> QED BY <3>1, <3>2
  <2> QED BY <2>1
<1>7. PoolIsNext /\ JournalIsGood(state) /\ JournalIsTrue(state) /\ state = journal /\ PoolIsPending
  BY <1>1 DEF RegistrationInv, JournalInv
<1>8. \A m \in Network : Nonce(m)' = Nonce(m)
  BY <1>7, WalletsRest
<1>9. spends > 0 \/ \A m \in Network : pool[m] = {}
  BY <1>1, <1>7, NothingHeld
<1>10. CASE Balance(n) = 0 /\ call' = NoCall /\ KeepJournal
  BY <1>10, EndedKeeps
<1>11. CASE /\ Len(grants) < Len(Networks) /\ call' = [call EXCEPT !.grants = grants] /\ KeepJournal
  <2>1. call' \in Gathering /\ call'.new = a /\ call'.grants = grants
    <3> DEFINE S == Seq(Transfer)
    <3> HIDE DEF S
    <3>1. call \in [at : {"fund"}, new : Recipient, source : Source, grants : S] /\ grants \in S
      BY <1>1, <1>5 DEF Gathering, S
    <3>2. call' \in [at : {"fund"}, new : Recipient, source : Source, grants : S] /\ call'.new = a /\ call'.grants = grants
      BY <1>2, <1>11, <3>1
    <3> QED BY <3>2 DEF Gathering, S
  <2>2. UNCHANGED <<state, journal, journalFailed>>
    BY <1>11 DEF KeepJournal
  <2>3. spends' > 0 \/ \A i \in 1 .. Len(grants) : grants[i].nonce = Nonce(Networks[i])'
    <3>1. \A i \in 1 .. l + 1 : Networks[i] \in Network
      BY <1>3, <1>5, NetworksAre
    <3>2. spends' = spends
      BY DEF walletVars
    <3> QED BY <1>4, <1>6, <1>8, <3>1, <3>2
  <2>4. CallIsGood'
    BY <1>1, <1>2, <1>4, <1>11, <2>1, <2>2, <2>3 DEF CallIsGood, Status
  <2> QED BY <2>2, <2>4, CallMoves
<1>12. CASE /\ Len(grants) = Len(Networks)
            /\ Save([pending |-> a, ips |-> state.ips \cup {call.source},
                     records |-> [state.records EXCEPT ![a] = [status |-> "pending", grants |-> grants]]])
            /\ call' = IF journalFailed' THEN NoCall ELSE Finish(a, Nobody, call.source)
  <2>1. PICK new, record :
          /\ record = [status |-> "pending", grants |-> grants]
          /\ new = [pending |-> a, ips |-> state.ips \cup {call.source},
                    records |-> [state.records EXCEPT ![a] = record]]
    OBVIOUS
  <2>2. record \in JournalEntry /\ RecordIsGood(a, record) /\ record # NoRecord /\ record.status = "pending" /\ record.grants = grants
    <3> DEFINE S == Seq(Transfer)
    <3> HIDE DEF S
    <3>1. grants \in S
      BY <1>5 DEF S
    <3>2. record \in [status : {"pending", "confirmed", "failed"}, grants : S] /\ record.grants = grants /\ record.status = "pending"
      BY <2>1, <3>1
    <3>3. record # NoRecord
      BY <3>2 DEF NoRecord
    <3> QED BY <1>4, <1>12, <3>2, <3>3 DEF RecordIsGood, JournalEntry, S
  <2>3. /\ state \in [pending : Recipient \cup {Nobody}, ips : SUBSET Source, records : [Recipient -> JournalEntry \cup {NoRecord}]]
    BY <1>7 DEF JournalIsGood
  <2>4. /\ new \in [pending : Recipient \cup {Nobody}, ips : SUBSET Source, records : [Recipient -> JournalEntry \cup {NoRecord}]]
        /\ new.pending = a /\ new.records[a] = record
        /\ \A b \in Recipient : b # a => new.records[b] = state.records[b]
    <3> DEFINE S == JournalEntry \cup {NoRecord}
    <3> HIDE DEF S
    <3>1. record \in S /\ state.records \in [Recipient -> S] /\ state.ips \in SUBSET Source
      BY <2>2, <2>3 DEF S
    <3>2. PICK f : f = [state.records EXCEPT ![a] = record]
      OBVIOUS
    <3>3. f \in [Recipient -> S] /\ f[a] = record /\ \A b \in Recipient : b # a => f[b] = state.records[b]
      BY <1>3, <3>1, <3>2
    <3>4. new \in [pending : Recipient \cup {Nobody}, ips : SUBSET Source, records : [Recipient -> S]]
          /\ new.pending = a /\ new.records = f
      BY <1>3, <2>1, <3>1, <3>2, <3>3
    <3> QED BY <3>3, <3>4 DEF S
  <2>5. JournalIsGood(new)
    <3> SUFFICES ASSUME NEW b \in Recipient
                 PROVE RecordIsGood(b, new.records[b]) /\ (new.records[b].status = "pending" <=> new.pending = b)
      BY <2>4 DEF JournalIsGood
    <3>1. CASE b = a
      BY <2>2, <2>4, <3>1
    <3>2. CASE b # a
      BY <1>1, <1>7, <2>4, <3>2, RecordIs, NobodyAssumption
    <3> QED BY <3>1, <3>2
  <2>6. JournalIsTrue(new)
    <3>1. ASSUME NEW i \in Grants PROVE Due(grants[i])
      <4>1. i \in 1 .. l + 1 /\ i \in 1 .. Len(record.grants)
        BY <1>4, <1>12, <2>2, NetworksAre
      <4>2. grants[i].net = Networks[i] /\ Networks[i] \in Network
        BY <1>3, <2>2, GrantIs
      <4>3. spends > 0 \/ grants[i].nonce = Nonce(Networks[i])
        BY <1>6, <4>1
      <4> QED BY <1>9, <4>2, <4>3 DEF Due
    <3>2. RecordIsTrue(record)
      BY <2>2, <3>1 DEF RecordIsTrue
    <3> QED BY <1>7, <2>4, <3>2 DEF JournalIsTrue
  <2>7. \A b \in Recipient : state.records[b] # NoRecord =>
          new.records[b] # NoRecord /\ new.records[b].grants = state.records[b].grants
    <3>1. state.records[a] = NoRecord
      BY <1>1, <1>2, <1>3, <1>7, RecordIs DEF Status
    <3> QED BY <2>4, <3>1
  <2>8. Save(new)
    BY <1>12, <2>1
  <2>9. JournalInv' /\ state' = new
    BY <1>1, <1>9, <2>5, <2>6, <2>7, <2>8, SaveKeeps DEF RegistrationInv
  <2>10. CallIsGood'
    <3>1. CASE journalFailed'
      BY <1>12, <3>1 DEF CallIsGood
    <3>2. CASE ~journalFailed'
      <4>1. call' = Finish(a, Nobody, call.source)
        BY <1>12, <3>2
      <4>2. call' \in Finishing /\ call'.finishing = a /\ call'.new = Nobody /\ call'.grant = 1
        BY <1>3, <4>1, NetworksAre DEF Finish, Finishing
      <4>3. 1 .. 1 - 1 = {}
        OBVIOUS
      <4> QED BY <2>4, <2>9, <3>2, <4>2, <4>3 DEF CallIsGood
    <3> QED BY <3>1, <3>2
  <2> QED BY <2>9, <2>10 DEF RegistrationInv
<1> QED
  <2>1. \/ Balance(n) = 0 /\ call' = NoCall /\ KeepJournal
        \/ Len(grants) < Len(Networks) /\ call' = [call EXCEPT !.grants = grants] /\ KeepJournal
        \/ /\ Len(grants) = Len(Networks)
           /\ Save([pending |-> a, ips |-> state.ips \cup {call.source},
                     records |-> [state.records EXCEPT ![a] = [status |-> "pending", grants |-> grants]]])
           /\ call' = IF journalFailed' THEN NoCall ELSE Finish(a, Nobody, call.source)
    BY <1>2 DEF Funded
  <2> QED BY <2>1, <1>10, <1>11, <1>12

LEMMA FinishingIs ==
  ASSUME RegistrationInv, call.at \in {"receipt", "nonce", "submit", "wait"}
  PROVE  /\ ~journalFailed /\ state = journal /\ call \in Finishing
         /\ call.finishing \in Recipient /\ call.grant \in Grants /\ call.new \in Recipient \cup {Nobody}
         /\ call.source \in Source
         /\ state.pending = call.finishing
         /\ call.new # Nobody => Status(call.new) = "none" /\ call.new # call.finishing
         /\ state.records[call.finishing] \in JournalEntry /\ Status(call.finishing) = "pending"
         /\ RecordIsGood(call.finishing, state.records[call.finishing])
         /\ \A k \in 1 .. call.grant - 1 : Success(state.records[call.finishing].grants[k])
         /\ Grant \in GatewayTx /\ Grant.net = Networks[call.grant] /\ Grant.net \in Network
         /\ Grant.to = call.finishing /\ Grant.nonce \in Nat
<1>1. /\ ~journalFailed /\ call \in Finishing /\ state.pending = call.finishing
      /\ call.new # Nobody => Status(call.new) = "none"
      /\ \A k \in 1 .. call.grant - 1 : Success(state.records[call.finishing].grants[k])
  BY DEF RegistrationInv, CallIsGood, NoCall, Beginning, Gathering
<1>2. state = journal /\ JournalIsGood(state)
  BY <1>1 DEF RegistrationInv, JournalInv
<1>3. /\ call.finishing \in Recipient /\ call.grant \in Grants /\ call.new \in Recipient \cup {Nobody}
      /\ call.source \in Source
  BY <1>1 DEF Finishing
<1>4. state.records[call.finishing].status = "pending"
  BY <1>1, <1>2, <1>3, RecordIs
<1>5. state.records[call.finishing] \in JournalEntry /\ RecordIsGood(call.finishing, state.records[call.finishing])
  BY <1>2, <1>3, <1>4, RecordIs
<1>6. /\ Grant \in GatewayTx /\ Grant.net = Networks[call.grant] /\ Grant.net \in Network
      /\ Grant.to = call.finishing /\ Grant.nonce \in Nat
  BY <1>3, <1>5, GrantIs DEF Grant
<1> QED BY <1>1, <1>2, <1>3, <1>4, <1>5, <1>6 DEF Status

\* The call goes to another place, or to a later grant after a success.
LEMMA PlaceKeeps ==
  ASSUME RegistrationInv, NodesHold(GatewayTx), spends \in Nat, UNCHANGED walletVars,
         call.at \in {"receipt", "nonce", "submit", "wait"}, KeepJournal,
         NEW place \in {"receipt", "nonce", "submit", "wait"}, NEW grant \in Grants,
         call' = [call EXCEPT !.at = place, !.grant = grant],
         grant = call.grant \/ (grant = call.grant + 1 /\ Success(Grant))
  PROVE  RegistrationInv'
<1>1. /\ ~journalFailed /\ state.pending = call.finishing /\ call \in Finishing /\ call.grant \in Grants
      /\ call.new # Nobody => Status(call.new) = "none"
      /\ \A k \in 1 .. call.grant - 1 : Success(state.records[call.finishing].grants[k])
  BY FinishingIs
<1>2. UNCHANGED <<state, journal, journalFailed>>
  BY DEF KeepJournal
<1>3. /\ call' \in Finishing /\ call'.finishing = call.finishing /\ call'.new = call.new
      /\ call'.grant = grant
  BY <1>1 DEF Finishing
<1>4. \A k \in 1 .. grant - 1 : Success(state.records[call.finishing].grants[k])
  <2>1. ASSUME NEW k \in 1 .. grant - 1 PROVE k \in 1 .. call.grant - 1 \/ (k = call.grant /\ Success(Grant))
    BY <1>1, NetworksAre
  <2> QED BY <1>1, <2>1 DEF Grant
<1>5. PICK f, r : f = call.finishing /\ r = state.records[f]
  OBVIOUS
<1>6. ASSUME NEW k \in 1 .. grant - 1 PROVE Success(r.grants[k])'
  <2>1. PICK tx : tx = r.grants[k]
    OBVIOUS
  <2>2. Success(tx)
    BY <1>4, <1>5, <2>1
  <2>3. Success(tx)'
    BY <2>2 DEF Success, Receipt, Executed, Nonce, walletVars
  <2> QED BY <2>1, <2>3
<1>7. CallIsGood'
  <2>1. call'.finishing = f /\ state'.records[f] = r /\ state'.pending = f
    BY <1>1, <1>2, <1>3, <1>5
  <2>2. \A k \in 1 .. call'.grant - 1 : Success(r.grants[k])'
    BY <1>3, <1>6
  <2>3. (\A k \in 1 .. call.grant - 1 : Success(state.records[call.finishing].grants[k]))'
    BY <2>1, <2>2
  <2> QED BY <1>1, <1>2, <1>3, <2>1, <2>3 DEF CallIsGood, Status
<1> QED BY <1>2, <1>7, CallMoves

\* At its end a registration has nothing left in a mempool.
LEMMA NothingLeft ==
  ASSUME RegistrationInv, NodesHold(GatewayTx), spends \in Nat, call.at \in {"receipt", "nonce", "submit", "wait"},
         NEW receipt \in Receipt(Grant), ~receipt.success \/ call.grant = Len(Networks)
  PROVE  spends > 0 \/ \A n \in Network : pool[n] = {}
<1> SUFFICES ASSUME ~(spends > 0), NEW n \in Network, NEW tx \in pool[n] PROVE FALSE
  OBVIOUS
<1>1. PICK a, r, g : a = call.finishing /\ r = state.records[a] /\ g = call.grant
  OBVIOUS
<1>2. /\ state = journal /\ a \in Recipient /\ g \in Grants /\ state.pending = a
      /\ r \in JournalEntry /\ RecordIsGood(a, r) /\ Grant = r.grants[g] /\ Grant.net \in Network
      /\ \A k \in 1 .. g - 1 : Success(r.grants[k])
  BY <1>1, FinishingIs DEF Grant
<1>3. HeldIsJournalled /\ PoolIsNext /\ PoolIsPending /\ JournalIsGood(journal)
  BY DEF RegistrationInv, JournalInv
<1>4. tx.to = a /\ tx.nonce >= Nonce(n) /\ tx \in Held(n) /\ tx.to \in Recipient
  BY <1>2, <1>3 DEF PoolIsPending, PoolIsNext, Held
<1>5. PICK b \in Recipient, i \in Grants :
        /\ Networks[i] = n /\ journal.records[b] # NoRecord /\ tx = journal.records[b].grants[i]
        /\ \A k \in 1 .. i - 1 : Success(journal.records[b].grants[k])
  BY <1>3, <1>4 DEF HeldIsJournalled, IsJournalled
<1>6. b = a /\ tx = r.grants[i] /\ tx.net = n /\ tx.nonce \in Nat
  <2>1. tx.to = b /\ tx.net = n /\ tx.nonce \in Nat
    BY <1>3, <1>5, RecordIs, GrantIs
  <2> QED BY <1>1, <1>2, <1>4, <1>5, <2>1
<1>7. Receipt(tx) = {}
  <2>1. ASSUME NEW q \in Receipt(tx) PROVE FALSE
    <3>1. q \in Executed(n) /\ q.tx = tx
      BY <1>6 DEF Receipt
    <3>2. tx.nonce < Nonce(n) /\ Nonce(n) \in Nat
      BY <3>1, NonceIs
    <3> QED BY <1>4, <1>6, <3>2
  <2> QED BY <2>1
<1>8. i \notin 1 .. g - 1 /\ i # g
  <2>1. \A k \in 1 .. g - 1 : Receipt(r.grants[k]) # {}
    BY <1>2 DEF Success
  <2> QED BY <1>2, <1>6, <1>7, <2>1
<1>9. g \in 1 .. i - 1 /\ g # Len(Networks)
  BY <1>2, <1>8, NetworksAre
<1>10. Success(Grant) /\ ~receipt.success
  BY <1>1, <1>2, <1>5, <1>6, <1>9
<1>11. PICK q \in Receipt(Grant) : q.success
  BY <1>10 DEF Success
<1>12. q = receipt
  BY <1>2, <1>11, OneReceipt DEF Receipt
<1> QED BY <1>10, <1>11, <1>12

\* It is shown as failed, or as confirmed when every grant has succeeded.
LEMMA EndKeeps ==
  ASSUME RegistrationInv, NodesHold(GatewayTx), spends \in Nat, UNCHANGED walletVars,
         call.at \in {"receipt", "nonce", "submit", "wait"},
         NEW receipt \in Receipt(Grant), ~receipt.success \/ call.grant = Len(Networks),
         NEW status \in {"failed", "confirmed"}, EndOfFinish(status),
         status = "confirmed" => receipt.success /\ call.grant = Len(Networks)
  PROVE  RegistrationInv'
<1>1. PICK a, r, g, record, new :
        /\ a = call.finishing /\ r = state.records[a] /\ g = call.grant
        /\ record = [r EXCEPT !.status = status]
        /\ new = [state EXCEPT !.pending = Nobody, !.records[a].status = status]
  OBVIOUS
<1>2. /\ ~journalFailed /\ a \in Recipient /\ g \in Grants /\ state.pending = a
      /\ call.new \in Recipient \cup {Nobody} /\ call.source \in Source
      /\ call.new # Nobody => Status(call.new) = "none" /\ call.new # a
      /\ r \in JournalEntry /\ RecordIsGood(a, r) /\ Grant = r.grants[g] /\ Grant.net \in Network
      /\ \A k \in 1 .. g - 1 : Success(r.grants[k])
  BY <1>1, FinishingIs DEF Grant
<1>3. JournalIsGood(state) /\ JournalIsTrue(state) /\ JournalInv
  BY DEF RegistrationInv, JournalInv
<1>4. /\ record \in JournalEntry /\ record.status = status /\ record.grants = r.grants
      /\ RecordIsGood(a, record) /\ record # NoRecord
  <2>1. record \in JournalEntry /\ record.status = status /\ record.grants = r.grants
    <3> DEFINE S == Seq(Transfer)
    <3> HIDE DEF S
    <3>1. r \in [status : {"pending", "confirmed", "failed"}, grants : S]
      BY <1>2 DEF JournalEntry, S
    <3>2. /\ record \in [status : {"pending", "confirmed", "failed"}, grants : S]
          /\ record.status = status /\ record.grants = r.grants
      BY <1>1, <3>1
    <3> QED BY <3>2 DEF JournalEntry, S
  <2>2. r # NoRecord /\ record # NoRecord
    BY <1>2, <2>1 DEF JournalEntry, NoRecord
  <2> QED BY <1>2, <2>1, <2>2 DEF RecordIsGood
<1>5. /\ new \in [pending : Recipient \cup {Nobody}, ips : SUBSET Source, records : [Recipient -> JournalEntry \cup {NoRecord}]]
      /\ new.pending = Nobody /\ new.records[a] = record
      /\ \A b \in Recipient : b # a => new.records[b] = state.records[b]
  <2> DEFINE S == JournalEntry \cup {NoRecord}
  <2>1. record \in S /\ state \in [pending : Recipient \cup {Nobody}, ips : SUBSET Source, records : [Recipient -> S]]
    BY <1>3, <1>4 DEF JournalIsGood
  <2> HIDE DEF S
  <2>2. PICK f : f = [state.records EXCEPT ![a] = record]
    OBVIOUS
  <2>3. f \in [Recipient -> S] /\ f[a] = record /\ \A b \in Recipient : b # a => f[b] = state.records[b]
    BY <1>2, <2>1, <2>2
  <2>4. new = [state EXCEPT !.pending = Nobody, !.records = f]
    BY <1>1, <2>2
  <2>5. new \in [pending : Recipient \cup {Nobody}, ips : SUBSET Source, records : [Recipient -> S]]
        /\ new.pending = Nobody /\ new.records = f
    BY <2>1, <2>3, <2>4
  <2> QED BY <2>3, <2>5 DEF S
<1>6. JournalIsGood(new)
  <2> SUFFICES ASSUME NEW b \in Recipient
               PROVE RecordIsGood(b, new.records[b]) /\ (new.records[b].status = "pending" <=> new.pending = b)
    BY <1>5 DEF JournalIsGood
  <2>1. CASE b = a
    BY <1>4, <1>5, <2>1, NobodyAssumption
  <2>2. CASE b # a
    BY <1>2, <1>3, <1>5, <2>2, RecordIs, NobodyAssumption
  <2> QED BY <2>1, <2>2
<1>7. JournalIsTrue(new)
  <2>1. ASSUME status = "confirmed", NEW i \in Grants PROVE Success(r.grants[i])
    <3>1. i = g \/ i \in 1 .. g - 1
      BY <1>1, <1>2, <2>1, NetworksAre
    <3>2. Success(Grant)
      BY <2>1 DEF Success
    <3> QED BY <1>2, <3>1, <3>2
  <2>2. RecordIsTrue(record)
    BY <1>4, <2>1 DEF RecordIsTrue
  <2> QED BY <1>3, <1>5, <2>2 DEF JournalIsTrue
<1>8. \A b \in Recipient : state.records[b] # NoRecord =>
        new.records[b] # NoRecord /\ new.records[b].grants = state.records[b].grants
  BY <1>1, <1>4, <1>5
<1>9. spends > 0 \/ \A n \in Network : pool[n] = {}
  BY NothingLeft
<1>10. Save(new)
  BY <1>1 DEF EndOfFinish
<1>11. JournalInv' /\ state' = new
  BY <1>2, <1>3, <1>6, <1>7, <1>8, <1>9, <1>10, SaveKeeps
<1>12. CallIsGood'
  <2>1. CASE call' = NoCall
    BY <2>1 DEF CallIsGood
  <2>2. CASE call' # NoCall
    <3>1. ~journalFailed' /\ call.new # Nobody /\ call' = Begin(call.new, call.source)
      BY <2>2 DEF EndOfFinish
    <3>2. call' \in Beginning /\ call'.new = call.new
      BY <1>2, <3>1 DEF Begin, Beginning
    <3>3. new.records[call.new].status = "none"
      BY <1>2, <1>5, <3>1 DEF Status
    <3> QED BY <1>5, <1>11, <3>1, <3>2, <3>3 DEF CallIsGood, Status
  <2> QED BY <2>1, <2>2
<1> QED BY <1>11, <1>12 DEF RegistrationInv

\* A grant is sent, which the journal has, and no other is pending.
LEMMA GrantSubmittedKeeps ==
  ASSUME RegistrationInv, NodesHold(GatewayTx), spends \in Nat,
         NEW answerArrives \in BOOLEAN, GrantSubmitted(answerArrives)
  PROVE  RegistrationInv' /\ \E tx \in GatewayTx : NodesGo(GatewayTx, {tx}) /\ tx.to \in Recipient
<1>1. call.at = "submit"
  BY DEF GrantSubmitted
<1>2. PICK tx, a, r, g : tx = Grant /\ a = call.finishing /\ r = state.records[a] /\ g = call.grant
  OBVIOUS
<1>3. /\ ~journalFailed /\ state = journal /\ a \in Recipient /\ g \in Grants /\ state.pending = a
      /\ r \in JournalEntry /\ tx = r.grants[g] /\ call \in Finishing
      /\ \A k \in 1 .. g - 1 : Success(r.grants[k])
      /\ tx \in GatewayTx /\ tx.net = Networks[g] /\ tx.net \in Network /\ tx.to = a /\ tx.nonce \in Nat
      /\ call.new # Nobody => Status(call.new) = "none"
  BY <1>1, <1>2, FinishingIs DEF Grant
<1>4. /\ pool' = [pool EXCEPT ![tx.net] = @ \cup {tx}] /\ tx.nonce >= Nonce(tx.net)
      /\ UNCHANGED <<receipts, spends, state, journal, journalFailed>>
      /\ call' = [call EXCEPT !.at = "wait"] \/ call' = NoCall
  BY <1>2 DEF GrantSubmitted, Submit, Accepts, KeepJournal
<1>5. NodesGo(GatewayTx, {tx})
  BY <1>3, <1>4, SubmitGoes
<1>6. DOMAIN pool = Network
  BY DEF NodesHold
<1>7. /\ pool'[tx.net] = pool[tx.net] \cup {tx}
      /\ \A n \in Network : n # tx.net => pool'[n] = pool[n]
  BY <1>3, <1>4, <1>6
<1>8. OnlyMore({tx})
  BY <1>3, <1>4, <1>7 DEF OnlyMore
<1>9. PoolIsNext'
  BY <1>3, <1>4, <1>7 DEF RegistrationInv, JournalInv, PoolIsNext, Nonce
<1>10. IsJournalled(tx.net, tx)
  <2>1. journal.records[a] # NoRecord
    BY <1>2, <1>3 DEF JournalEntry, NoRecord
  <2> QED BY <1>2, <1>3, <2>1 DEF IsJournalled
<1>11. JournalInv'
  <2>1. \A m \in {tx} : m.to \in Recipient /\ journal.pending = m.to /\ IsJournalled(m.net, m)
    BY <1>3, <1>10
  <2> QED BY <1>3, <1>4, <1>5, <1>8, <1>9, <2>1, JournalWaits DEF RegistrationInv
<1>12. CallIsGood'
  <2>1. CASE call' = NoCall
    BY <2>1 DEF CallIsGood
  <2>2. CASE call' = [call EXCEPT !.at = "wait"]
    <3>1. call' \in Finishing /\ call'.finishing = a /\ call'.grant = g /\ call'.new = call.new
      BY <1>2, <1>3, <2>2 DEF Finishing
    <3>2. ASSUME NEW k \in 1 .. g - 1 PROVE Success(r.grants[k])'
      <4>1. PICK q : q = r.grants[k]
        OBVIOUS
      <4>2. Success(q)
        BY <1>3, <4>1
      <4>3. Success(q)'
        BY <1>4, <4>2 DEF Success, Receipt, Executed, Nonce
      <4> QED BY <4>1, <4>3
    <3>3. call'.finishing = a /\ state'.records[a] = r /\ state'.pending = a
      BY <1>2, <1>3, <1>4, <3>1
    <3>4. (\A k \in 1 .. call.grant - 1 : Success(state.records[call.finishing].grants[k]))'
      BY <3>1, <3>2, <3>3
    <3> QED BY <1>3, <1>4, <3>1, <3>3, <3>4 DEF CallIsGood, Status
  <2> QED BY <1>4, <2>1, <2>2
<1> QED BY <1>3, <1>5, <1>11, <1>12 DEF RegistrationInv

LEMMA ReceiptFoundKeeps ==
  ASSUME RegistrationInv, NodesHold(GatewayTx), spends \in Nat, UNCHANGED walletVars, ReceiptFound
  PROVE  RegistrationInv'
<1>1. call.at \in {"receipt", "nonce", "submit", "wait"}
  BY DEF ReceiptFound
<1>2. PICK receipt \in Receipt(Grant) : GrantExecuted(receipt)
  BY DEF ReceiptFound
<1>3. CASE ~receipt.success
  <2>1. EndOfFinish("failed")
    BY <1>2, <1>3 DEF GrantExecuted
  <2> QED BY <1>1, <1>3, <2>1, EndKeeps
<1>4. CASE receipt.success /\ call.grant = Len(Networks)
  <2>1. EndOfFinish("confirmed")
    BY <1>2, <1>4 DEF GrantExecuted
  <2> QED BY <1>1, <1>4, <2>1, EndKeeps
<1>5. CASE receipt.success /\ call.grant # Len(Networks)
  <2>1. PICK grant : grant = call.grant + 1
    OBVIOUS
  <2>2. call' = [call EXCEPT !.at = "receipt", !.grant = grant] /\ KeepJournal
    BY <1>2, <1>5, <2>1 DEF GrantExecuted
  <2>3. grant \in Grants
    BY <1>1, <1>5, <2>1, FinishingIs, NetworksAre
  <2>4. Success(Grant)
    BY <1>5 DEF Success
  <2> QED BY <1>1, <2>1, <2>2, <2>3, <2>4, PlaceKeeps
<1> QED BY <1>3, <1>4, <1>5

LEMMA PlaceMoves ==
  ASSUME RegistrationInv, NodesHold(GatewayTx), spends \in Nat, UNCHANGED walletVars,
         call.at \in {"receipt", "nonce"}, KeepJournal,
         NEW place \in {"nonce", "submit"}, call' = [call EXCEPT !.at = place]
  PROVE  RegistrationInv'
<1>1. PICK grant : grant = call.grant
  OBVIOUS
<1>2. call \in Finishing /\ grant \in Grants
  BY <1>1, FinishingIs
<1>3. call' = [call EXCEPT !.at = place, !.grant = grant]
  BY <1>1, <1>2 DEF Finishing
<1> QED BY <1>1, <1>2, <1>3, PlaceKeeps

\* The journal is read again: memory is the file.
LEMMA ReopenKeeps ==
  ASSUME RegistrationInv, NodesHold(GatewayTx), spends \in Nat, UNCHANGED walletVars, Reopen
  PROVE  RegistrationInv'
<1>1. state' = journal /\ journal' = journal /\ journalFailed' = FALSE /\ call' = NoCall
  BY DEF Reopen
<1>2. /\ JournalIsGood(journal) /\ JournalIsTrue(journal) /\ HeldIsJournalled /\ PoolIsNext /\ PoolIsPending
  BY DEF RegistrationInv, JournalInv
<1>3. NodesGo(GatewayTx, {}) /\ OnlyMore({}) /\ PoolIsNext'
  BY <1>2, WalletsRest
<1>4. PICK j : j = journal
  OBVIOUS
<1>5. \A a \in Recipient : /\ j.records[a].status = "confirmed" =>
                                   \A i \in Grants : Success(j.records[a].grants[i])'
                           /\ j.records[a].status = "pending" =>
                                   \A i \in Grants : Due(j.records[a].grants[i])'
  BY <1>2, <1>3, <1>4, JournalStaysTrue
<1>6. JournalIsTrue(j)'
  BY <1>5 DEF JournalIsTrue, RecordIsTrue
<1>7. JournalIsTrue(state)' /\ JournalIsTrue(journal)'
  BY <1>1, <1>4, <1>6 DEF JournalIsTrue, RecordIsTrue
<1>8. HeldIsJournalled'
  BY <1>1, <1>2, <1>3, HeldStaysJournalled
<1>9. PoolIsPending'
  BY <1>1, <1>2, <1>3, PendingStays
<1>10. JournalIsGood(state') /\ JournalIsGood(journal')
  BY <1>1, <1>2
<1> QED BY <1>1, <1>3, <1>7, <1>8, <1>9, <1>10 DEF RegistrationInv, JournalInv, JournalIsGood, CallIsGood

\* The end of a cool-down leaves the records alone.
LEMMA CooldownEndsKeeps ==
  ASSUME RegistrationInv, NodesHold(GatewayTx), spends \in Nat, UNCHANGED walletVars,
         NEW source \in Source, CooldownEnds(source)
  PROVE  RegistrationInv'
<1>1. /\ JournalIsGood(journal) /\ JournalIsTrue(journal) /\ JournalIsGood(state) /\ JournalIsTrue(state)
      /\ HeldIsJournalled /\ PoolIsNext /\ PoolIsPending
      /\ journalFailed \in BOOLEAN /\ (~journalFailed => state = journal)
  BY DEF RegistrationInv, JournalInv
<1>2. NodesGo(GatewayTx, {}) /\ OnlyMore({}) /\ PoolIsNext'
  BY <1>1, WalletsRest
<1>3. ASSUME NEW j, NEW k, JournalIsGood(j), k = [j EXCEPT !.ips = @ \ {source}]
      PROVE  JournalIsGood(k) /\ k.records = j.records /\ k.pending = j.pending
  <2> DEFINE S == [Recipient -> JournalEntry \cup {NoRecord}]
  <2>1. j \in [pending : Recipient \cup {Nobody}, ips : SUBSET Source, records : S]
    BY <1>3 DEF JournalIsGood
  <2> HIDE DEF S
  <2>2. /\ k \in [pending : Recipient \cup {Nobody}, ips : SUBSET Source, records : S]
        /\ k.records = j.records /\ k.pending = j.pending
    BY <1>3, <2>1
  <2> QED BY <1>3, <2>2 DEF JournalIsGood, S
<1>4. /\ state' = [state EXCEPT !.ips = @ \ {source}] /\ journal' = [journal EXCEPT !.ips = @ \ {source}]
      /\ journalFailed' = journalFailed /\ call' = call
  BY DEF CooldownEnds
<1>5. /\ JournalIsGood(state') /\ state'.records = state.records /\ state'.pending = state.pending
      /\ JournalIsGood(journal') /\ journal'.records = journal.records /\ journal'.pending = journal.pending
  BY <1>1, <1>3, <1>4
<1>6. PICK s, j : s = state /\ j = journal
  OBVIOUS
<1>7. /\ \A a \in Recipient : /\ j.records[a].status = "confirmed" =>
                                   \A i \in Grants : Success(j.records[a].grants[i])'
                              /\ j.records[a].status = "pending" =>
                                   \A i \in Grants : Due(j.records[a].grants[i])'
  BY <1>1, <1>2, <1>6, JournalStaysTrue
<1>8. /\ \A a \in Recipient : /\ s.records[a].status = "confirmed" =>
                                   \A i \in Grants : Success(s.records[a].grants[i])'
                              /\ s.records[a].status = "pending" =>
                                   \A i \in Grants : Due(s.records[a].grants[i])'
  BY <1>1, <1>2, <1>6, JournalStaysTrue
<1>9. JournalIsTrue(j)' /\ JournalIsTrue(s)'
  BY <1>7, <1>8 DEF JournalIsTrue, RecordIsTrue
<1>10. JournalIsTrue(state)' /\ JournalIsTrue(journal)'
  BY <1>5, <1>6, <1>9 DEF JournalIsTrue, RecordIsTrue
<1>11. HeldIsJournalled'
  BY <1>1, <1>2, <1>5, HeldStaysJournalled
<1>12. PoolIsPending'
  BY <1>1, <1>2, <1>5, PendingStays
<1>13. JournalInv'
  BY <1>1, <1>2, <1>4, <1>5, <1>10, <1>11, <1>12 DEF JournalInv, JournalIsGood
<1>14. CallIsGood'
  <2>1. spends' = spends /\ receipts' = receipts
    BY DEF walletVars
  <2>2. \A a : Status(a)' = Status(a)
    BY <1>5 DEF Status
  <2>3. ASSUME NEW tx, Success(tx) PROVE Success(tx)'
    BY <2>1, <2>3 DEF Success, Receipt, Executed, Nonce
  <2>4. (\A k \in 1 .. call.grant - 1 : Success(state.records[call.finishing].grants[k])) =>
        (\A k \in 1 .. call.grant - 1 : Success(state.records[call.finishing].grants[k]))'
    <3>1. PICK f, r, g : f = call.finishing /\ r = state.records[f] /\ g = call.grant
      OBVIOUS
    <3>2. ASSUME NEW k, Success(r.grants[k]) PROVE Success(r.grants[k])'
      <4>1. PICK q : q = r.grants[k]
        OBVIOUS
      <4> QED BY <2>3, <3>2, <4>1
    <3>3. call'.finishing = f /\ state'.records[f] = r /\ call'.grant = g
      BY <1>4, <1>5, <3>1
    <3> QED BY <3>1, <3>2, <3>3
  <2>5. \A n : Nonce(n)' = Nonce(n)
    BY <2>1 DEF Nonce
  <2>6. CallIsGood
    BY DEF RegistrationInv
  <2> QED BY <1>4, <1>5, <2>1, <2>2, <2>4, <2>5, <2>6 DEF CallIsGood
<1> QED BY <1>13, <1>14 DEF RegistrationInv

LEMMA RegistrationStarts == RegistrationInit /\ WalletInit => RegistrationInv
<1> SUFFICES ASSUME RegistrationInit, WalletInit PROVE RegistrationInv
  OBVIOUS
<1>1. \A n \in Network : Held(n) = {} /\ pool[n] = {}
  BY NodesStart
<1>2. /\ state = EmptyJournal /\ journal = EmptyJournal /\ journalFailed = FALSE /\ call = NoCall
  BY DEF RegistrationInit
<1>3. JournalIsGood(EmptyJournal) /\ \A a \in Recipient : EmptyJournal.records[a] = NoRecord
  <2> DEFINE S == JournalEntry \cup {NoRecord}
  <2>1. NoRecord \in S
    OBVIOUS
  <2> HIDE DEF S
  <2>2. /\ EmptyJournal \in [pending : Recipient \cup {Nobody}, ips : SUBSET Source, records : [Recipient -> S]]
        /\ EmptyJournal.pending = Nobody
        /\ \A a \in Recipient : EmptyJournal.records[a] = NoRecord
    BY <2>1 DEF EmptyJournal
  <2>3. NoRecord.status = "none"
    BY DEF NoRecord
  <2> QED BY <2>2, <2>3, NobodyAssumption DEF JournalIsGood, RecordIsGood, S
<1>4. \A a \in Recipient : RecordIsTrue(EmptyJournal.records[a])
  BY <1>3 DEF RecordIsTrue, NoRecord
<1> QED BY <1>1, <1>2, <1>3, <1>4 DEF RegistrationInv, JournalInv, JournalIsTrue, HeldIsJournalled,
                                      PoolIsNext, PoolIsPending, CallIsGood

LEMMA RegistrationWaits ==
  ASSUME RegistrationInv, NodesHold(GatewayTx), spends \in Nat, WalletNext, UNCHANGED registrationVars
  PROVE  RegistrationInv'
<1>1. UNCHANGED <<state, journal, journalFailed, call>>
  BY DEF registrationVars
<1>2. NodesGo(GatewayTx, {}) /\ OnlyMore({})
  BY WalletGoes, OthersSpend, OnlyOthersSpend
<1>3. PoolIsNext'
  BY NextStaysNext DEF RegistrationInv, JournalInv
<1>4. JournalInv'
  BY <1>1, <1>2, <1>3, JournalWaits DEF RegistrationInv
<1>5. CallIsGood'
  BY <1>1, <1>2, CallWaits
<1> QED BY <1>4, <1>5 DEF RegistrationInv

\* A step of a registration keeps its invariant; the nodes get at most a grant.
LEMMA RegistrationStepKeeps ==
  ASSUME RegistrationInv, NodesHold(GatewayTx), spends \in Nat, RegistrationNext
  PROVE  /\ RegistrationInv' /\ spends' \in Nat
         /\ \E more : NodesGo(GatewayTx, more) /\ \A tx \in more : tx.to \in Recipient
<1>1. CASE UNCHANGED walletVars
  <2>1. NodesGo(GatewayTx, {}) /\ spends' = spends
    BY <1>1, NodesRest DEF walletVars
  <2>2. ASSUME NEW a \in Recipient, NEW s \in Source, Register(a, s) PROVE RegistrationInv'
    BY <1>1, <2>2, RegisterKeeps
  <2>3. ASSUME ExistingRead PROVE RegistrationInv'
    BY <1>1, <2>3, ExistingReadKeeps
  <2>4. ASSUME Funded PROVE RegistrationInv'
    BY <1>1, <2>4, FundedKeeps
  <2>5. ASSUME ReceiptFound PROVE RegistrationInv'
    BY <1>1, <2>5, ReceiptFoundKeeps
  <2>6. ASSUME ReceiptMissing PROVE RegistrationInv'
    BY <1>1, <2>6, PlaceMoves DEF ReceiptMissing
  <2>7. ASSUME NonceRead PROVE RegistrationInv'
    <3>1. CASE Nonce(Grant.net) > Grant.nonce
      BY <1>1, <2>7, <3>1, EndedKeeps DEF NonceRead
    <3>2. CASE ~(Nonce(Grant.net) > Grant.nonce)
      BY <1>1, <2>7, <3>2, PlaceMoves DEF NonceRead
    <3> QED BY <3>1, <3>2
  <2>8. ASSUME GrantRefused \/ WaitTimesOut \/ CallFails PROVE RegistrationInv'
    BY <1>1, <2>8, EndedKeeps DEF GrantRefused, WaitTimesOut, CallFails
  <2>9. ASSUME NEW s \in Source, CooldownEnds(s) PROVE RegistrationInv'
    BY <1>1, <2>9, CooldownEndsKeeps
  <2>10. ASSUME GatewayRestarts \/ JournalRepaired PROVE RegistrationInv'
    BY <1>1, <2>10, ReopenKeeps DEF GatewayRestarts, JournalRepaired
  <2>11. ASSUME NEW answerArrives \in BOOLEAN, GrantSubmitted(answerArrives) PROVE RegistrationInv'
    BY <2>11, GrantSubmittedKeeps
  <2>12. RegistrationInv'
    BY <2>2, <2>3, <2>4, <2>5, <2>6, <2>7, <2>8, <2>9, <2>10, <2>11 DEF RegistrationNext
  <2> QED BY <2>1, <2>12
<1>2. ASSUME NEW answerArrives \in BOOLEAN, GrantSubmitted(answerArrives)
      PROVE  /\ RegistrationInv' /\ spends' \in Nat
             /\ \E more : NodesGo(GatewayTx, more) /\ \A tx \in more : tx.to \in Recipient
  <2>1. RegistrationInv' /\ spends' = spends
    BY <1>2, GrantSubmittedKeeps DEF GrantSubmitted
  <2>2. PICK tx \in GatewayTx : NodesGo(GatewayTx, {tx}) /\ tx.to \in Recipient
    BY <1>2, GrantSubmittedKeeps
  <2>3. \A x \in {tx} : x.to \in Recipient
    BY <2>2
  <2> QED BY <2>1, <2>2, <2>3
<1> QED BY <1>1, <1>2 DEF RegistrationNext

LEMMA RegistrationFollows ==
  ASSUME RegistrationInv, NodesHold(GatewayTx), spends \in Nat
  PROVE  GrantedOnce /\ PendingIsPayable
<1>0. /\ JournalIsGood(state) /\ JournalIsTrue(state) /\ JournalIsGood(journal)
      /\ HeldIsJournalled /\ PoolIsNext
  BY DEF RegistrationInv, JournalInv
<1>1. ASSUME NEW a \in Recipient, NEW n \in Network
      PROVE  Cardinality({r \in Executed(n) : r.tx.to = a}) <= 1
  <2>1. ASSUME NEW r \in Executed(n), r.tx.to = a
        PROVE  \E i \in Grants : Networks[i] = n /\ r.tx = journal.records[a].grants[i]
    <3>1. r.tx \in Held(n)
      BY DEF Held
    <3>2. PICK b \in Recipient, i \in Grants :
            /\ Networks[i] = n /\ journal.records[b] # NoRecord /\ r.tx = journal.records[b].grants[i]
      BY <1>0, <2>1, <3>1 DEF HeldIsJournalled, IsJournalled
    <3>3. b = a
      BY <1>0, <2>1, <3>2, RecordIs, GrantIs
    <3> QED BY <3>2, <3>3
  <2>2. ASSUME NEW r \in Executed(n), NEW q \in Executed(n), r.tx.to = a, q.tx.to = a PROVE r = q
    <3>1. PICK i \in Grants : Networks[i] = n /\ r.tx = journal.records[a].grants[i]
      BY <2>1, <2>2
    <3>2. PICK k \in Grants : Networks[k] = n /\ q.tx = journal.records[a].grants[k]
      BY <2>1, <2>2
    <3>3. i = k
      BY <3>1, <3>2, NetworksAre
    <3>4. r.tx = q.tx
      BY <3>1, <3>2, <3>3
    <3> QED BY <3>4, OneReceipt
  <2>3. \A r, q \in {x \in Executed(n) : x.tx.to = a} : r = q
    BY <2>2
  <2> QED BY <2>3, AtMostOne
<1>2. ASSUME NEW a \in Recipient, Status(a) = "confirmed", NEW n \in Network
      PROVE  \E r \in Succeeded(n) : r.tx.to = a
  <2>1. PICK i \in Grants : Networks[i] = n
    BY NetworksAre
  <2>2. state.records[a] \in JournalEntry /\ RecordIsGood(a, state.records[a])
    BY <1>0, <1>2, RecordIs, NobodyAssumption DEF Status
  <2>3. PICK tx : tx = state.records[a].grants[i]
    OBVIOUS
  <2>4. tx.net = n /\ tx.to = a /\ Success(tx)
    BY <1>0, <1>2, <2>1, <2>2, <2>3, GrantIs DEF JournalIsTrue, RecordIsTrue, Status
  <2> QED BY <2>4 DEF Success, Receipt, Succeeded
<1>3. ASSUME NEW a \in Recipient, Status(a) = "pending", NEW i \in 1 .. Len(Networks)
      PROVE  LET grant == state.records[a].grants[i] IN
             Receipt(grant) # {} \/ Accepts(grant) \/ spends > 0
  <2>1. i \in Grants
    BY NetworksAre
  <2>2. state.records[a] \in JournalEntry /\ RecordIsGood(a, state.records[a])
    BY <1>0, <1>3, RecordIs, NobodyAssumption DEF Status
  <2>3. PICK tx : tx = state.records[a].grants[i]
    OBVIOUS
  <2>4. tx.net \in Network /\ tx.nonce \in Nat /\ Due(tx)
    BY <1>0, <1>3, <2>1, <2>2, <2>3, GrantIs DEF JournalIsTrue, RecordIsTrue, Status
  <2>5. Receipt(tx) # {} \/ Accepts(tx) \/ spends > 0
    BY <2>4, NonceIs DEF Due, Accepts
  <2> QED BY <2>3, <2>5
<1> QED BY <1>1, <1>2, <1>3 DEF GrantedOnce, PendingIsPayable

-----------------------------------------------------------------------------
(* Gateway: PromisesKept, GrantsKept and DeploysOnce for any services'     *)
(* constants.  A behaviour follows one service, and the others rest; with  *)
(* accounts no request reaches a faucet (NoClaims).                        *)
NoClaims == \A n : ~Reached("claim", n)

GatewayInv ==
  /\ service \in Service /\ accounts = (service = "accounts") /\ (accounts => NoClaims)
  /\ NodesHold(GatewayTx) /\ spends \in Nat
  /\ FaucetInv /\ (service # "faucet" => answered = {})
  /\ service = "accounts" => RegistrationInv
  /\ service # "accounts" => state = EmptyJournal
  /\ BootInv

LEMMA ApiRouteClaims ==
  ASSUME accounts, NEW method, NEW path, NEW net
  PROVE  ApiRoute(method, path, net).handler # "claim"
<1>1. \A handler, n : To(handler, n).handler = handler
  BY DEF To
<1>2. PICK explorer, faucet, second :
        /\ explorer = ExplorerRoute(method, path, net) /\ faucet = FaucetRoute(method, net)
        /\ second = To(path[2], net)
  OBVIOUS
<1>3. faucet.handler # "claim"
  <2>1. faucet \in {To("faucet disabled", net), To("faucet info", net), NotFound}
    BY <1>2 DEF FaucetRoute
  <2>2. /\ To("faucet disabled", net).handler = "faucet disabled"
        /\ To("faucet info", net).handler = "faucet info" /\ NotFound.handler = "404"
    BY <1>1 DEF NotFound
  <2> QED BY <2>1, <2>2
<1>4. explorer.handler # "claim"
  BY <1>1, <1>2 DEF ExplorerRoute, NotFound
<1>5. PICK answer : answer = ApiRoute(method, path, net)
  OBVIOUS
<1>6. CASE path[2] \notin {"connect", "config", "head"} /\ path[2] \notin {"account", "tx"}
  <2>1. answer \in {explorer, faucet, To("app details", net), To("submit", net),
                    To("contract state", net), NotFound}
    BY <1>2, <1>5, <1>6 DEF ApiRoute
  <2>2. answer.handler # "claim"
    BY ONLY <1>1, <1>3, <1>4, <2>1 DEF NotFound
  <2> QED BY <1>5, <2>2
<1>7. CASE path[2] \in {"connect", "config", "head", "account", "tx"}
  <2>1. second.handler # "claim"
    BY <1>1, <1>2, <1>7
  <2>2. answer \in {explorer, faucet, second, To("app details", net), To("submit", net),
                    To("contract state", net), NotFound}
    BY <1>2, <1>5 DEF ApiRoute
  <2>3. answer.handler # "claim"
    BY ONLY <1>1, <1>3, <1>4, <2>1, <2>2 DEF NotFound
  <2> QED BY <1>5, <2>3
<1> QED BY <1>6, <1>7

LEMMA NoRouteClaims ==
  ASSUME accounts, NEW request
  PROVE  Route(request).handler # "claim"
<1>1. \A handler, n : To(handler, n).handler = handler
  BY DEF To
<1>2. AccountsRoute(request.method, request.path).handler # "claim"
  BY <1>1 DEF AccountsRoute, NotFound
<1> QED BY <1>1, <1>2, ApiRouteClaims DEF Route, NotFound

LEMMA GatewayStarts == Init => GatewayInv
<1> SUFFICES ASSUME Init PROVE GatewayInv
  OBVIOUS
<1>1. NodesHold(GatewayTx) /\ spends \in Nat
  BY NodesStart DEF Init, WalletInit
<1>2. FaucetInv /\ answered = {}
  BY FaucetStarts DEF Init, FaucetInit
<1>3. RegistrationInv /\ state = EmptyJournal
  BY RegistrationStarts DEF Init, RegistrationInit
<1>4. BootInv
  BY BootStarts DEF Init
<1>5. accounts => NoClaims
  <2> SUFFICES ASSUME accounts, NEW n, To("claim", n) \in reached PROVE FALSE
    BY DEF NoClaims, Reached
  <2>1. PICK request \in Requests : To("claim", n) = Route(request)
    BY DEF Init
  <2>2. To("claim", n).handler = "claim"
    BY DEF To
  <2> QED BY <2>1, <2>2, NoRouteClaims
<1> QED BY <1>1, <1>2, <1>3, <1>4, <1>5 DEF Init, GatewayInv

\* The faucet rests, and has promised nothing.
LEMMA FaucetRests ==
  ASSUME FaucetInv, answered = {}, UNCHANGED faucetVars
  PROVE  FaucetInv' /\ answered' = {}
BY DEF FaucetInv, faucetVars, FaucetTxs, ClaimIsGood

LEMMA ServiceStays ==
  ASSUME GatewayInv, UNCHANGED serviceVars
  PROVE  service' \in Service /\ accounts' = (service' = "accounts") /\ (accounts' => NoClaims') /\ service' = service
BY DEF GatewayInv, serviceVars, NoClaims, Reached

LEMMA RegisteringKeeps ==
  ASSUME GatewayInv, Registering
  PROVE  GatewayInv'
<1>1. /\ service = "accounts" /\ RegistrationNext
      /\ UNCHANGED <<serviceVars, faucetVars, boot, signed>>
  BY DEF Registering, bootVars
<1>2. RegistrationInv /\ NodesHold(GatewayTx) /\ spends \in Nat /\ FaucetInv /\ answered = {} /\ BootInv
  BY <1>1 DEF GatewayInv
<1>3. RegistrationInv' /\ spends' \in Nat
  BY <1>1, <1>2, RegistrationStepKeeps
<1>4. PICK more : NodesGo(GatewayTx, more) /\ \A tx \in more : tx.to \in Recipient
  BY <1>1, <1>2, RegistrationStepKeeps
<1>5. \A tx \in more : tx.to \notin StepNames
  BY <1>4, StepsAssumption DEF StepNames
<1>6. BootInv'
  BY <1>1, <1>2, <1>4, <1>5, BootWaits
<1>7. FaucetInv' /\ answered' = {}
  BY <1>1, <1>2, FaucetRests
<1> QED BY <1>1, <1>3, <1>4, <1>6, <1>7, ServiceStays DEF GatewayInv, NodesGo

LEMMA ClaimingKeeps ==
  ASSUME GatewayInv, Claiming
  PROVE  GatewayInv'
<1>1. /\ service \in {"accounts", "faucet"} /\ Reached("claim", faucetNet) /\ FaucetNext
      /\ UNCHANGED <<serviceVars, boot, signed, state>>
  BY DEF Claiming, bootVars, registrationVars
<1>2. service = "faucet"
  BY <1>1 DEF GatewayInv, NoClaims
<1>3. NodesHold(GatewayTx) /\ spends \in Nat /\ FaucetInv /\ BootInv /\ state = EmptyJournal
  BY <1>2 DEF GatewayInv
<1>4. FaucetInv' /\ spends' \in Nat
  BY <1>1, <1>3, FaucetStepKeeps
<1>5. PICK more : NodesGo(GatewayTx, more) /\ more \subseteq FaucetTxs
  BY <1>1, <1>3, FaucetStepKeeps
<1>6. \A tx \in more : tx.to \notin StepNames
  BY <1>5, StepsAssumption DEF StepNames, FaucetTxs
<1>7. BootInv'
  BY <1>1, <1>3, <1>5, <1>6, BootWaits
<1> QED BY <1>1, <1>2, <1>3, <1>4, <1>5, <1>7, ServiceStays DEF GatewayInv, NodesGo

LEMMA FundingKeeps ==
  ASSUME GatewayInv, Funding
  PROVE  GatewayInv'
<1>1. WalletNext /\ UNCHANGED <<serviceVars, faucetVars, registrationVars, boot, signed, state>>
  BY DEF Funding, bootVars, registrationVars
<1>2. NodesHold(GatewayTx) /\ spends \in Nat /\ FaucetInv /\ BootInv
  BY DEF GatewayInv
<1>3. NodesGo(GatewayTx, {}) /\ OnlyMore({})
  BY <1>1, <1>2, WalletGoes, OthersSpend, OnlyOthersSpend
<1>4. spends' \in Nat /\ NodesHold(GatewayTx)'
  BY <1>3 DEF OnlyMore, NodesGo
<1>5. FaucetInv' /\ answered' = answered
  BY <1>1, <1>2, <1>3, FaucetWaits DEF faucetVars
<1>6. BootInv'
  BY <1>1, <1>2, <1>3, BootWaits
<1>7. service = "accounts" => RegistrationInv'
  BY <1>1, <1>2, RegistrationWaits DEF GatewayInv
<1> QED BY <1>1, <1>4, <1>5, <1>6, <1>7, ServiceStays DEF GatewayInv

LEMMA StartingKeeps ==
  ASSUME GatewayInv, Starting
  PROVE  GatewayInv'
<1>1. /\ service = "demos" /\ BootNext /\ UNCHANGED <<serviceVars, faucetVars, state>>
  BY DEF Starting, registrationVars
<1>2. FaucetInv /\ answered = {} /\ BootInv /\ state = EmptyJournal /\ spends \in Nat
  BY <1>1 DEF GatewayInv
<1>3. BootInv'
  BY <1>1, <1>2, BootStepKeeps
<1>4. spends' = spends
  BY <1>1 DEF BootNext, BootStep, OpenJournal, SignStep, ReadReceipt, Receipted, ReadNonce, SubmitStep,
              ReadWaited, BootTimesOut, Crash, CrashInIdentity, Throws, ProcessEnds, walletVars
<1>5. FaucetInv' /\ answered' = {}
  BY <1>1, <1>2, FaucetRests
<1> QED BY <1>1, <1>2, <1>3, <1>4, <1>5, ServiceStays DEF GatewayInv, BootInv

\* What shares no state with the rest, and a stutter.
LEMMA RestKeeps ==
  ASSUME GatewayInv, UNCHANGED <<serviceVars, walletVars, faucetVars, registrationVars, bootVars>>
  PROVE  GatewayInv'
<1>1. /\ boot' = boot /\ signed' = signed /\ answered' = answered /\ spends' = spends
      /\ state' = state
  BY DEF bootVars, faucetVars, walletVars, registrationVars
<1>2. NodesHold(GatewayTx) /\ spends \in Nat /\ FaucetInv /\ BootInv
  BY DEF GatewayInv
<1>3. NodesGo(GatewayTx, {})
  BY <1>2, NodesRest
<1>4. \A n \in Network : pool'[n] \subseteq pool[n] \cup {}
  BY DEF walletVars
<1>5. OnlyMore({})
  BY <1>1, <1>2, <1>4 DEF OnlyMore
<1>6. FaucetInv'
  BY <1>2, <1>3, <1>5, FaucetWaits
<1>7. BootInv'
  BY <1>1, <1>2, <1>3, BootWaits
<1>8. service = "accounts" => RegistrationInv'
  <2> SUFFICES ASSUME service = "accounts" PROVE RegistrationInv'
    OBVIOUS
  <2>1. UNCHANGED <<state, journal, journalFailed, call>> /\ RegistrationInv
    BY DEF registrationVars, GatewayInv
  <2>2. CallIsGood'
    BY <1>2, <1>3, <1>5, <2>1, CallWaits
  <2> QED BY <1>2, <2>1, <2>2, CallMoves
<1>9. NodesHold(GatewayTx)'
  BY <1>3 DEF NodesGo
<1> QED BY <1>1, <1>2, <1>6, <1>7, <1>8, <1>9, ServiceStays DEF GatewayInv

LEMMA GatewayStepKeeps == GatewayInv /\ [Next]_gatewayVars => GatewayInv'
<1> SUFFICES ASSUME GatewayInv, [Next]_gatewayVars PROVE GatewayInv'
  OBVIOUS
<1>1. ASSUME ReadingApps \/ Relaying \/ Posting \/ UNCHANGED gatewayVars
      PROVE  UNCHANGED <<serviceVars, walletVars, faucetVars, registrationVars, bootVars>>
  BY <1>1 DEF ReadingApps, Relaying, Posting, gatewayVars
<1> QED BY <1>1, RegisteringKeeps, ClaimingKeeps, FundingKeeps, StartingKeeps, RestKeeps DEF Next

(***************************************************************************)
(* What the faucet, the accounts and the demos keep at every step of       *)
(* whatever service runs: the nodes hold their transactions only, an       *)
(* answered claim is still due, the journal tells what was sent, the       *)
(* demos' files what was done.                                             *)
(***************************************************************************)
THEOREM GatewayInvariant == Spec => []GatewayInv
BY GatewayStarts, GatewayStepKeeps, PTL DEF Spec

LEMMA NothingPends == state = EmptyJournal => PendingIsPayable
BY DEF PendingIsPayable, Status, EmptyJournal, NoRecord

(***************************************************************************)
(* A visitor who was told "submitted", and an account whose registration   *)
(* is pending, is paid or can still be.                                    *)
(***************************************************************************)
THEOREM GatewayKeepsItsPromises == Spec => []PromisesKept
<1>1. GatewayInv => PromisesKept
  <2> SUFFICES ASSUME GatewayInv PROVE PromisesKept
    OBVIOUS
  <2>1. FaucetPromises
    BY FaucetFollows DEF GatewayInv
  <2>2. PendingIsPayable
    BY RegistrationFollows, NothingPends DEF GatewayInv
  <2> QED BY <2>1, <2>2 DEF PromisesKept
<1> QED BY <1>1, GatewayInvariant, PTL

(***************************************************************************)
(* With accounts, a visitor gets at most one grant of a network.           *)
(***************************************************************************)
THEOREM GatewayGrantsOnce == Spec => []GrantsKept
<1>1. GatewayInv => GrantsKept
  BY RegistrationFollows DEF GatewayInv, GrantsKept
<1> QED BY <1>1, GatewayInvariant, PTL

(***************************************************************************)
(* An interrupted start of the demos deploys nothing twice.                *)
(***************************************************************************)
THEOREM DemosDeployOnce == Spec => []DeploysOnce
<1>1. GatewayInv => DeploysOnce
  BY DeploysOnceFollows DEF GatewayInv
<1> QED BY <1>1, GatewayInvariant, PTL

-----------------------------------------------------------------------------
(* Gateway, the rooms: RoomHistorySurvives for any wallets, appends and    *)
(* faults.  An append reads the history before two awaits and writes it    *)
(* after them; that it still is the history then is what the queue is for: *)
(* only the append at its head is past `queued`.                           *)
Judged == [at : {"wager", "write"}, m : Signed, history : Seq(Signed)]
IsActive(w) == w.at \in {"wager", "write", "sync"}

Plays(history) ==
  /\ Replay(history).valid /\ Replay(history).white = Creator
  /\ Replay(history).black \in {NoOne, wager.opponent}

AppendIsGood(s) ==
  /\ IsActive(work[s]) => tail # <<>> /\ Head(tail) = s
  /\ work[s].at = "queued" => work[s].m \in Signed
  /\ work[s].at \in {"wager", "write"} =>
       /\ work[s] \in Judged /\ work[s].history = room
       /\ Replay(Append(room, work[s].m)).valid
  /\ work[s].at = "write" => Plays(Append(room, work[s].m))

FilesAreSound ==
  /\ room \in roomDisk /\ roomDisk \subseteq Seq(Signed)
  /\ settled \in Seq(Signed) /\ doubtful \in Seq(Signed)
  /\ IsPrefix(doubtful, room)
  /\ \A h \in roomDisk : IsPrefix(settled, h) /\ (h # <<>> => Plays(h))

WagerIsGood ==
  /\ wager \in [phase : {"none", "open", "active", "over"}, opponent : {NoOne, Opponent}]
  /\ wager.phase \in {"none", "open"} => wager.opponent = NoOne

RoomsInv ==
  /\ DOMAIN work = Slot /\ tail \in Seq(Slot) /\ \A s \in Slot : AppendIsGood(s)
  /\ FilesAreSound /\ WagerIsGood

\* Prefixes.
LEMMA PrefixOf ==
  ASSUME NEW S, NEW q \in Seq(S)
  PROVE  /\ IsPrefix(<<>>, q) /\ IsPrefix(q, q)
         /\ \A e \in S : IsPrefix(q, Append(q, e)) /\ Append(q, e) \in Seq(S)
BY DEF IsPrefix

LEMMA PrefixOfPrefix ==
  ASSUME NEW S, NEW p \in Seq(S), NEW q \in Seq(S), NEW r \in Seq(S), IsPrefix(p, q), IsPrefix(q, r)
  PROVE  IsPrefix(p, r)
BY DEF IsPrefix

LEMMA RoomsStart == RoomsInit => RoomsInv
<1> SUFFICES ASSUME RoomsInit PROVE RoomsInv
  OBVIOUS
<1>1. /\ room = <<>> /\ roomDisk = {<<>>} /\ settled = <<>> /\ doubtful = <<>> /\ tail = <<>>
      /\ DOMAIN work = Slot /\ \A s \in Slot : work[s] = NoWork
  BY DEF RoomsInit
<1>2. \A s \in Slot : AppendIsGood(s)
  BY <1>1 DEF AppendIsGood, IsActive, NoWork
<1>3. room \in Seq(Signed) /\ tail \in Seq(Slot)
  BY <1>1
<1>4. FilesAreSound
  BY <1>1, <1>3, PrefixOf DEF FilesAreSound
<1>5. WagerIsGood
  BY DEF RoomsInit, WagerIsGood
<1> QED BY <1>1, <1>2, <1>3, <1>4, <1>5 DEF RoomsInv

\* While one append is past the queue, no other is.
LEMMA OneActive ==
  ASSUME RoomsInv, NEW s \in Slot, NEW q \in Slot, q # s, tail # <<>>, Head(tail) = s
  PROVE  ~IsActive(work[q])
BY DEF RoomsInv, AppendIsGood

\* The append at the head leaves; what the room is may have changed.
LEMMA LeavingKeeps ==
  ASSUME RoomsInv, NEW s \in Slot, tail # <<>>, Head(tail) = s, Leave(s)
  PROVE  DOMAIN work' = Slot /\ tail' \in Seq(Slot) /\ \A q \in Slot : AppendIsGood(q)'
<1>1. DOMAIN work = Slot /\ tail \in Seq(Slot)
  BY DEF RoomsInv
<1>2. /\ DOMAIN work' = Slot /\ tail' = Tail(tail)
      /\ \A q \in Slot : work'[q] = IF q = s THEN NoWork ELSE work[q]
  BY <1>1 DEF Leave
<1>3. \A q \in Slot : /\ work'[q].at \notin {"wager", "write", "sync"}
                      /\ work'[q].at = "queued" => work'[q].m \in Signed
  <2> SUFFICES ASSUME NEW q \in Slot
               PROVE  /\ work'[q].at \notin {"wager", "write", "sync"}
                      /\ work'[q].at = "queued" => work'[q].m \in Signed
    OBVIOUS
  <2>1. CASE q = s
    BY <1>2, <2>1 DEF NoWork
  <2>2. CASE q # s
    BY <1>2, <2>2, OneActive DEF IsActive, RoomsInv, AppendIsGood
  <2> QED BY <2>1, <2>2
<1>4. ASSUME NEW q \in Slot PROVE AppendIsGood(q)'
  <2>1. /\ ~(work'[q].at \in {"wager", "write", "sync"}) /\ work'[q].at # "write"
        /\ work'[q].at = "queued" => work'[q].m \in Signed
    BY <1>3
  <2> QED BY <2>1 DEF AppendIsGood, IsActive
<1> QED BY <1>1, <1>2, <1>4

\* An append changes and the files and the wager do not.
LEMMA OneAppends ==
  ASSUME RoomsInv, NEW s \in Slot, NEW w, work' = [work EXCEPT ![s] = w],
         tail' \in Seq(Slot), tail # <<>> => tail' # <<>> /\ Head(tail') = Head(tail),
         UNCHANGED <<room, wager>>,
         IsActive(w) => tail # <<>> /\ Head(tail) = s,
         w.at = "queued" => w.m \in Signed,
         w.at \in {"wager", "write"} =>
           w \in Judged /\ w.history = room /\ Replay(Append(room, w.m)).valid,
         w.at = "write" => Plays(Append(room, w.m))
  PROVE  DOMAIN work' = Slot /\ \A q \in Slot : AppendIsGood(q)'
<1>1. DOMAIN work' = Slot /\ \A q \in Slot : work'[q] = IF q = s THEN w ELSE work[q]
  BY DEF RoomsInv
<1>2. ASSUME NEW q \in Slot PROVE AppendIsGood(q)'
  <2>1. AppendIsGood(q)
    BY DEF RoomsInv
  <2>2. CASE q = s
    <3>1. work'[q] = w
      BY <1>1, <2>2
    <3> QED BY <2>2, <3>1 DEF AppendIsGood, IsActive, Plays
  <2>3. CASE q # s
    <3>1. work'[q] = work[q]
      BY <1>1, <2>3
    <3> QED BY <2>1, <3>1 DEF AppendIsGood, IsActive, Plays
  <2> QED BY <2>2, <2>3
<1> QED BY <1>1, <1>2

LEMMA FilesStay ==
  ASSUME RoomsInv, UNCHANGED <<room, wager, roomDisk, settled, doubtful>>
  PROVE  FilesAreSound' /\ WagerIsGood'
BY DEF RoomsInv, FilesAreSound, WagerIsGood, Plays

LEMMA CallAppendKeeps ==
  ASSUME RoomsInv, NEW s \in Slot, NEW m \in Signed, NEW after, CallAppend(s, m, after)
  PROVE  RoomsInv'
<1> DEFINE w == [at |-> "queued", m |-> m, after |-> after]
<1>1. /\ work' = [work EXCEPT ![s] = w] /\ tail' = Append(tail, s)
      /\ UNCHANGED <<room, wager, roomDisk, settled, doubtful>>
  BY DEF CallAppend
<1>2. tail' \in Seq(Slot) /\ (tail # <<>> => tail' # <<>> /\ Head(tail') = Head(tail))
  BY <1>1 DEF RoomsInv
<1>3. ~IsActive(w) /\ w.at \notin {"wager", "write"} /\ w.m \in Signed
  BY DEF IsActive
<1> HIDE DEF w
<1>4. DOMAIN work' = Slot /\ \A q \in Slot : AppendIsGood(q)'
  BY <1>1, <1>2, <1>3, OneAppends
<1> QED BY <1>1, <1>2, <1>4, FilesStay DEF RoomsInv

\* What is answered from the file is in it, and settled if nothing of it can be undone.
LEMMA AnsweredFromFile ==
  ASSUME RoomsInv, UNCHANGED <<room, wager, roomDisk>>, AnswerFromFile
  PROVE  FilesAreSound' /\ WagerIsGood'
<1>1. /\ room \in roomDisk /\ roomDisk \subseteq Seq(Signed) /\ settled \in Seq(Signed)
      /\ doubtful \in Seq(Signed) /\ IsPrefix(doubtful, room) /\ IsPrefix(room, room)
      /\ \A h \in roomDisk : IsPrefix(settled, h) /\ (h # <<>> => Plays(h))
  BY PrefixOf DEF RoomsInv, FilesAreSound
<1>2. settled' \in Seq(Signed) /\ doubtful' \in Seq(Signed) /\ IsPrefix(doubtful', room)
  BY <1>1 DEF AnswerFromFile
<1>3. \A h \in roomDisk : IsPrefix(settled', h)
  BY <1>1 DEF AnswerFromFile
<1>4. WagerIsGood' /\ \A h : Plays(h) => Plays(h)'
  BY DEF RoomsInv, WagerIsGood, Plays
<1> QED BY <1>1, <1>2, <1>3, <1>4 DEF FilesAreSound

LEMMA ReadHistoryKeeps ==
  ASSUME RoomsInv, NEW s \in Slot, ReadHistory(s)
  PROVE  RoomsInv'
<1>1. /\ work[s].at = "queued" /\ tail # <<>> /\ Head(tail) = s
      /\ UNCHANGED <<room, wager, roomDisk>>
  BY DEF ReadHistory, Turn
<1>2. CASE Leave(s)
  <2>1. DOMAIN work' = Slot /\ tail' \in Seq(Slot) /\ \A q \in Slot : AppendIsGood(q)'
    BY <1>1, <1>2, LeavingKeeps
  <2>2. \/ UNCHANGED <<settled, doubtful>>
        \/ AnswerFromFile
        \/ work' = [work EXCEPT ![s] = [at |-> "wager", m |-> work[s].m, history |-> room]]
    BY DEF ReadHistory
  <2>3. ~(work' = [work EXCEPT ![s] = [at |-> "wager", m |-> work[s].m, history |-> room]])
    BY <1>2 DEF Leave, NoWork, RoomsInv
  <2>4. FilesAreSound' /\ WagerIsGood'
    BY <1>1, <2>2, <2>3, FilesStay, AnsweredFromFile
  <2> QED BY <2>1, <2>4 DEF RoomsInv
<1>3. CASE ~Leave(s)
  <2> DEFINE w == [at |-> "wager", m |-> work[s].m, history |-> room]
  <2>1. /\ work' = [work EXCEPT ![s] = w] /\ UNCHANGED <<tail, settled, doubtful>>
        /\ Replay(Append(room, work[s].m)).valid
    BY <1>3 DEF ReadHistory
  <2>2. work[s].m \in Signed
    BY <1>1 DEF RoomsInv, AppendIsGood
  <2>3. w \in Judged /\ w.history = room /\ w.m = work[s].m /\ w.at = "wager"
    BY <2>2 DEF Judged, RoomsInv, FilesAreSound
  <2> HIDE DEF w
  <2>4. tail' \in Seq(Slot) /\ (tail # <<>> => tail' # <<>> /\ Head(tail') = Head(tail))
    BY <2>1 DEF RoomsInv
  <2>5. DOMAIN work' = Slot /\ \A q \in Slot : AppendIsGood(q)'
    BY <1>1, <2>1, <2>3, <2>4, OneAppends
  <2> QED BY <1>1, <2>1, <2>4, <2>5, FilesStay DEF RoomsInv
<1> QED BY <1>2, <1>3

LEMMA ReadWagerKeeps ==
  ASSUME RoomsInv, NEW s \in Slot, ReadWager(s)
  PROVE  RoomsInv'
<1>1. /\ work[s].at = "wager" /\ tail # <<>> /\ Head(tail) = s
      /\ work[s] \in Judged /\ work[s].history = room /\ Replay(Append(room, work[s].m)).valid
      /\ UNCHANGED <<room, wager, roomDisk, settled, doubtful>>
  BY DEF ReadWager, RoomsInv, AppendIsGood, IsActive
<1>2. CASE Backed(work[s].m, work[s].history)
  <2> DEFINE w == [work[s] EXCEPT !.at = "write"]
  <2>1. work' = [work EXCEPT ![s] = w] /\ UNCHANGED tail
    BY <1>2 DEF ReadWager, RoomsInv
  <2>2. w \in Judged /\ w.at = "write" /\ w.m = work[s].m /\ w.history = room
    BY <1>1 DEF Judged
  <2>3. Plays(Append(room, work[s].m))
    BY <1>1, <1>2 DEF Backed, Plays
  <2> HIDE DEF w
  <2>4. tail' \in Seq(Slot) /\ (tail # <<>> => tail' # <<>> /\ Head(tail') = Head(tail))
    BY <2>1 DEF RoomsInv
  <2>5. DOMAIN work' = Slot /\ \A q \in Slot : AppendIsGood(q)'
    BY <1>1, <2>1, <2>2, <2>3, <2>4, OneAppends
  <2> QED BY <1>1, <2>4, <2>5, FilesStay DEF RoomsInv
<1>3. CASE ~Backed(work[s].m, work[s].history)
  <2>1. Leave(s)
    BY <1>3 DEF ReadWager
  <2> QED BY <1>1, <2>1, LeavingKeeps, FilesStay DEF RoomsInv
<1> QED BY <1>2, <1>3

LEMMA RenameFileKeeps ==
  ASSUME RoomsInv, NEW s \in Slot, RenameFile(s)
  PROVE  RoomsInv'
<1>1. /\ work[s].at = "write" /\ tail # <<>> /\ Head(tail) = s
      /\ work[s].m \in Signed /\ work[s].history = room /\ Plays(Append(room, work[s].m))
  BY DEF RenameFile, RoomsInv, AppendIsGood, IsActive, Judged
<1>2. /\ room' = Append(room, work[s].m) /\ work' = [work EXCEPT ![s] = [at |-> "sync"]]
      /\ roomDisk' = roomDisk \cup {room'} /\ UNCHANGED <<wager, tail, settled, doubtful>>
  BY <1>1 DEF RenameFile
<1>3. DOMAIN work' = Slot /\ \A q \in Slot : work'[q] = IF q = s THEN [at |-> "sync"] ELSE work[q]
  BY <1>2 DEF RoomsInv
<1>4. \A q \in Slot : AppendIsGood(q)'
  <2> SUFFICES ASSUME NEW q \in Slot PROVE AppendIsGood(q)'
    OBVIOUS
  <2>1. CASE q = s
    BY <1>1, <1>2, <1>3, <2>1 DEF AppendIsGood, IsActive
  <2>2. CASE q # s
    <3>1. ~IsActive(work[q]) /\ work'[q] = work[q]
      BY <1>1, <1>3, <2>2, OneActive
    <3> QED BY <3>1 DEF AppendIsGood, IsActive, RoomsInv
  <2> QED BY <2>1, <2>2
<1>5. room \in Seq(Signed) /\ room' \in Seq(Signed) /\ IsPrefix(room, room')
  BY <1>1, <1>2, PrefixOf DEF RoomsInv, FilesAreSound
<1>6. IsPrefix(settled, room') /\ IsPrefix(doubtful, room')
  BY <1>5, PrefixOfPrefix DEF RoomsInv, FilesAreSound
<1>7. WagerIsGood' /\ \A h : Plays(h) => Plays(h)'
  BY <1>2 DEF RoomsInv, WagerIsGood, Plays
<1>8. \A h \in roomDisk' : IsPrefix(settled, h) /\ (h # <<>> => Plays(h)')
  BY <1>1, <1>2, <1>6, <1>7 DEF RoomsInv, FilesAreSound
<1>9. FilesAreSound'
  BY <1>2, <1>5, <1>6, <1>8 DEF RoomsInv, FilesAreSound
<1> QED BY <1>2, <1>3, <1>4, <1>7, <1>9 DEF RoomsInv

LEMMA SyncDirectoryKeeps ==
  ASSUME RoomsInv, NEW s \in Slot, SyncDirectory(s)
  PROVE  RoomsInv'
<1>1. /\ tail # <<>> /\ Head(tail) = s /\ Leave(s)
      /\ roomDisk' = {room} /\ settled' = room /\ doubtful' = <<>> /\ UNCHANGED <<room, wager>>
  BY DEF SyncDirectory, RoomsInv, AppendIsGood, IsActive
<1>2. room \in Seq(Signed) /\ IsPrefix(room, room) /\ IsPrefix(<<>>, room) /\ <<>> \in Seq(Signed)
      /\ (room # <<>> => Plays(room))
  BY PrefixOf DEF RoomsInv, FilesAreSound
<1>3. WagerIsGood' /\ \A h : Plays(h) => Plays(h)'
  BY <1>1 DEF RoomsInv, WagerIsGood, Plays
<1>4. FilesAreSound'
  BY <1>1, <1>2, <1>3 DEF FilesAreSound
<1> QED BY <1>1, <1>3, <1>4, LeavingKeeps DEF RoomsInv

LEMMA AppendFailsKeeps ==
  ASSUME RoomsInv, NEW s \in Slot, AppendFails(s)
  PROVE  RoomsInv'
<1>1. /\ tail # <<>> /\ Head(tail) = s /\ Leave(s)
      /\ UNCHANGED <<room, wager, roomDisk, settled, doubtful>>
  BY DEF AppendFails, RoomsInv, AppendIsGood, IsActive
<1> QED BY <1>1, LeavingKeeps, FilesStay DEF RoomsInv

LEMMA RelayStopsKeeps ==
  ASSUME RoomsInv, RelayStops
  PROVE  /\ DOMAIN work' = Slot /\ tail' \in Seq(Slot) /\ \A s \in Slot : AppendIsGood(s)'
         /\ UNCHANGED <<wager, settled>>
<1>1. work' = [s \in Slot |-> NoWork] /\ tail' = <<>> /\ UNCHANGED <<wager, settled>>
  BY DEF RelayStops
<1>2. \A q \in Slot : AppendIsGood(q)'
  BY <1>1 DEF AppendIsGood, IsActive, NoWork
<1> QED BY <1>1, <1>2

LEMMA RelayProcessStopsKeeps ==
  ASSUME RoomsInv, RelayProcessStops
  PROVE  RoomsInv'
BY RelayStopsKeeps, FilesStay DEF RelayProcessStops, RoomsInv

\* What a power failure leaves has what was settled.
LEMMA RelayPowerFailsKeeps ==
  ASSUME RoomsInv, RelayPowerFails
  PROVE  RoomsInv'
<1>1. room' \in roomDisk /\ roomDisk' = {room'} /\ doubtful' = <<>> /\ UNCHANGED <<wager, settled>>
  BY RelayStopsKeeps DEF RelayPowerFails
<1>2. room' \in Seq(Signed) /\ settled \in Seq(Signed) /\ IsPrefix(settled, room')
      /\ IsPrefix(<<>>, room') /\ <<>> \in Seq(Signed) /\ (room' # <<>> => Plays(room'))
  BY <1>1, PrefixOf DEF RoomsInv, FilesAreSound
<1>3. WagerIsGood' /\ \A h : Plays(h) => Plays(h)'
  BY <1>1 DEF RoomsInv, WagerIsGood, Plays
<1>4. FilesAreSound'
  BY <1>1, <1>2, <1>3 DEF FilesAreSound
<1> QED BY <1>3, <1>4, RelayStopsKeeps DEF RelayPowerFails, RoomsInv

\* The contract names an opponent once, when no room has one.
LEMMA WagerMovesKeeps ==
  ASSUME RoomsInv, WagerMoves
  PROVE  RoomsInv'
<1>1. UNCHANGED <<room, work, tail, roomDisk, settled, doubtful>>
  BY DEF WagerMoves
<1>2. WagerIsGood' /\ (wager.opponent # NoOne => wager'.opponent = wager.opponent)
  BY DEF WagerMoves, RoomsInv, WagerIsGood
<1>3. \A h : Plays(h) => Plays(h)'
  BY <1>2 DEF Plays
<1>4. \A s \in Slot : AppendIsGood(s)'
  BY <1>1, <1>3 DEF RoomsInv, AppendIsGood, IsActive, Plays
<1>5. FilesAreSound'
  BY <1>1, <1>3 DEF RoomsInv, FilesAreSound, Plays
<1> QED BY <1>1, <1>2, <1>4, <1>5 DEF RoomsInv

LEMMA RoomsStepKeeps == RoomsInv /\ (RoomsNext \/ UNCHANGED roomVars) => RoomsInv'
<1>1. ASSUME RoomsInv, UNCHANGED roomVars PROVE RoomsInv'
  BY <1>1 DEF roomVars, RoomsInv, AppendIsGood, IsActive, FilesAreSound, WagerIsGood, Plays
<1> QED
  BY <1>1, CallAppendKeeps, ReadHistoryKeeps, ReadWagerKeeps, RenameFileKeeps, SyncDirectoryKeeps,
     AppendFailsKeeps, RelayProcessStopsKeeps, RelayPowerFailsKeeps, WagerMovesKeeps DEF RoomsNext

LEMMA RoomsFollow == RoomsInv => RoomHistorySurvives
<1> SUFFICES ASSUME RoomsInv PROVE RoomHistorySurvives
  OBVIOUS
<1> QED BY DEF RoomsInv, FilesAreSound, Plays, RoomHistorySurvives

-----------------------------------------------------------------------------
(* Gateway, the feed: FeedSurvives for any posts, payments and faults.     *)
(* Memory is behind the file, not ahead of it: the file, and the change    *)
(* that is being saved, have all that memory has (Extends), so that either *)
(* may take its place.  What was answered is in memory; and, but for what   *)
(* is doubted, in everything that a power failure may leave.               *)
Verdicts == {Pending, "confirmed", "failed"}
Tip == [tx : Payment, post : Post, status : Verdicts]
FeedState == [posts : Seq(Post), tips : Seq(Tip), hidden : SUBSET Post,
              blocked : SUBSET (Payment \cup {Author})]
Item == [place : Nat, post : Post] \cup [tx : Payment, post : Post]
Saving == [at : {"write", "sync"}, next : FeedState, item : Item \cup {NoItem}]

TipsAreTrue(tips) ==
  /\ \A i \in 1 .. Len(tips) : tips[i].status \in {Pending, payments[tips[i].tx]}
  /\ \A i, j \in 1 .. Len(tips) : tips[i].tx = tips[j].tx => i = j

StateIsGood(s) == s \in FeedState /\ TipsAreTrue(s.tips)

ExtendsPosts(new, old) ==
  Len(old) <= Len(new) /\ \A i \in 1 .. Len(old) : new[i] = old[i]
ExtendsTips(new, old) ==
  /\ Len(old) <= Len(new)
  /\ \A i \in 1 .. Len(old) : new[i].tx = old[i].tx /\ new[i].post = old[i].post
Extends(new, old) == ExtendsPosts(new.posts, old.posts) /\ ExtendsTips(new.tips, old.tips)

SavingIsGood ==
  \/ saving = NotSaving
  \/ /\ saving \in Saving /\ feed # Unloaded
     /\ StateIsGood(saving.next) /\ Extends(saving.next, Load)
     /\ saving.item # NoItem => Has(saving.next, saving.item)
     /\ saving.at = "sync" => file = saving.next

ResolvingIsGood ==
  \/ resolving = NotResolving
  \/ /\ resolving = [at |-> "probing", waits |-> resolving.waits, checked |-> resolving.checked]
     /\ \A c \in resolving.checked :
          /\ c.tx \in Payment /\ c.status = payments[c.tx]
          /\ payments[c.tx] # Pending

FilesExtend ==
  /\ feed = Unloaded \/ StateIsGood(feed)
  /\ file \in feedDisk /\ Extends(file, Load)
  /\ \A s \in feedDisk : StateIsGood(s)

AnswersAreKept ==
  /\ \A item \in acked \cup doubted : Has(Load, item)
  /\ \A item \in acked : \A s \in feedDisk : Has(s, item)

FeedInv ==
  /\ offer \in Offers /\ payments \in [Payment -> Verdicts]
  /\ FilesExtend /\ SavingIsGood /\ ResolvingIsGood /\ AnswersAreKept

LEMMA StateIs ==
  ASSUME NEW s \in FeedState
  PROVE  /\ s # Unloaded
         /\ s.posts \in Seq(Post) /\ s.tips \in Seq(Tip)
         /\ DOMAIN s.posts = 1 .. Len(s.posts) /\ DOMAIN s.tips = 1 .. Len(s.tips)
         /\ \A p : p \in Range(s.posts) <=> \E i \in 1 .. Len(s.posts) : s.posts[i] = p
         /\ \A t : t \in Range(s.tips) <=> \E i \in 1 .. Len(s.tips) : s.tips[i] = t
         /\ \A i \in 1 .. Len(s.tips) : s.tips[i] \in Tip
<1>1. s.posts \in Seq(Post) /\ s.tips \in Seq(Tip)
  BY DEF FeedState
<1>2. s # Unloaded
  <2>1. "tips" \in DOMAIN s
    BY DEF FeedState
  <2>2. "tips" \notin DOMAIN Unloaded
    BY DEF Unloaded
  <2> QED BY <2>1, <2>2
<1>3. DOMAIN s.posts = 1 .. Len(s.posts) /\ DOMAIN s.tips = 1 .. Len(s.tips)
  BY <1>1
<1>4. \A i \in 1 .. Len(s.tips) : s.tips[i] \in Tip
  BY <1>1
<1> QED BY <1>1, <1>2, <1>3, <1>4 DEF Range

LEMMA LoadIs == ASSUME FeedInv PROVE StateIsGood(Load)
BY DEF FeedInv, FilesExtend, Load

\* What is in a state is in any that extends it.
LEMMA HasMore ==
  ASSUME NEW s \in FeedState, NEW t \in FeedState, Extends(t, s), NEW item, Has(s, item)
  PROVE  Has(t, item)
<1>1. ExtendsPosts(t.posts, s.posts) /\ ExtendsTips(t.tips, s.tips)
  BY DEF Extends
<1>2. Len(s.posts) \in Nat /\ Len(t.posts) \in Nat /\ Len(s.tips) \in Nat /\ Len(t.tips) \in Nat
  BY StateIs
<1>3. CASE "place" \in DOMAIN item
  <2>1. item.place \in 1 .. Len(s.posts) /\ s.posts[item.place] = item.post
    BY <1>3, StateIs DEF Has
  <2>2. item.place \in 1 .. Len(t.posts) /\ t.posts[item.place] = item.post
    BY <1>1, <1>2, <2>1 DEF ExtendsPosts
  <2> QED BY <1>3, <2>2, StateIs DEF Has
<1>4. CASE "place" \notin DOMAIN item
  <2>1. PICK u \in Range(s.tips) : u.tx = item.tx /\ u.post = item.post
    BY <1>4 DEF Has
  <2>2. PICK i \in 1 .. Len(s.tips) : u = s.tips[i]
    BY <2>1, StateIs
  <2>3. i \in 1 .. Len(t.tips) /\ t.tips[i].tx = item.tx /\ t.tips[i].post = item.post
    BY <1>1, <1>2, <2>1, <2>2 DEF ExtendsTips
  <2>4. t.tips[i] \in Range(t.tips)
    BY <2>3, StateIs
  <2> QED BY <1>4, <2>3, <2>4 DEF Has
<1> QED BY <1>3, <1>4

LEMMA ExtendsItself == ASSUME NEW s \in FeedState PROVE Extends(s, s)
BY StateIs DEF Extends, ExtendsPosts, ExtendsTips

LEMMA FeedStarts == FeedInit => FeedInv
<1> SUFFICES ASSUME FeedInit PROVE FeedInv
  OBVIOUS
<1>1. /\ feed = Unloaded /\ file = Empty /\ feedDisk = {Empty} /\ saving = NotSaving
      /\ payments = [p \in Payment |-> Pending] /\ resolving = NotResolving
      /\ offer \in Offers /\ acked = {} /\ doubted = {} /\ Load = Empty
  BY DEF FeedInit, Load
<1>2. Empty \in FeedState
  BY DEF Empty, FeedState
<1>3. Empty.tips = <<>> /\ 1 .. Len(Empty.tips) = {}
  BY DEF Empty
<1>4. StateIsGood(Empty)
  BY <1>2, <1>3 DEF StateIsGood, TipsAreTrue
<1>5. Extends(Empty, Empty)
  BY <1>2, ExtendsItself
<1>6. payments \in [Payment -> Verdicts]
  BY <1>1 DEF Verdicts
<1>7. FilesExtend
  BY <1>1, <1>4, <1>5 DEF FilesExtend
<1> QED BY <1>1, <1>6, <1>7 DEF FeedInv, SavingIsGood, ResolvingIsGood, AnswersAreKept

\* The files and payments rest while a change begins, or is answered without one.
LEMMA ChangeBegins ==
  ASSUME FeedInv, saving = NotSaving, feed' = Load, UNCHANGED <<file, feedDisk, payments, offer>>,
         ResolvingIsGood', \A item \in acked' \cup doubted' : Has(Load, item),
         \A item \in acked' : \A s \in feedDisk : Has(s, item),
         \/ saving' = NotSaving
         \/ /\ saving' \in Saving /\ saving'.at = "write"
            /\ StateIsGood(saving'.next) /\ Extends(saving'.next, Load)
            /\ saving'.item # NoItem => Has(saving'.next, saving'.item)
  PROVE  FeedInv'
<1>1. StateIsGood(Load) /\ Load \in FeedState
  BY LoadIs DEF StateIsGood
<1>2. feed' # Unloaded /\ Load' = Load
  BY <1>1, StateIs DEF Load
<1>3. ASSUME NEW s PROVE StateIsGood(s)' <=> StateIsGood(s)
  BY DEF StateIsGood, TipsAreTrue
<1>4. FilesExtend'
  BY <1>1, <1>2, <1>3 DEF FeedInv, FilesExtend, StateIsGood, TipsAreTrue
<1>5. SavingIsGood'
  BY <1>2 DEF SavingIsGood, StateIsGood, TipsAreTrue
<1>6. offer' \in Offers /\ payments' \in [Payment -> Verdicts]
  BY DEF FeedInv
<1>7. AnswersAreKept'
  BY <1>2 DEF AnswersAreKept
<1> QED BY <1>4, <1>5, <1>6, <1>7 DEF FeedInv

LEMMA PostedAgain ==
  ASSUME FeedInv, NEW i \in DOMAIN Load.posts
  PROVE  Has(Load, PostAt(i, Load))
<1>1. PostAt(i, Load) = [place |-> i, post |-> Load.posts[i]]
  BY DEF PostAt
<1>2. "place" \in DOMAIN PostAt(i, Load)
  BY <1>1
<1> QED BY <1>1, <1>2 DEF Has

LEMMA PostAdded ==
  ASSUME NEW s \in FeedState, StateIsGood(s), NEW p \in Post
  PROVE  LET t == [s EXCEPT !.posts = Append(@, p)]
             item == [place |-> Len(s.posts) + 1, post |-> p]
         IN  StateIsGood(t) /\ Extends(t, s) /\ item \in Item /\ Has(t, item)
<1> DEFINE t == [s EXCEPT !.posts = Append(@, p)]
           item == [place |-> Len(s.posts) + 1, post |-> p]
<1>1. s.posts \in Seq(Post) /\ Len(s.posts) \in Nat
  BY StateIs
<1>2. t \in FeedState /\ t.posts = Append(s.posts, p) /\ t.tips = s.tips
  <2>1. Append(s.posts, p) \in Seq(Post)
    BY <1>1
  <2> DEFINE S == Seq(Post)
             R == Seq(Tip)
             q == Append(s.posts, p)
  <2>2. s \in [posts : S, tips : R, hidden : SUBSET Post, blocked : SUBSET (Payment \cup {Author})]
    BY DEF FeedState
  <2> HIDE DEF S, R, q
  <2>3. [s EXCEPT !.posts = q] \in [posts : S, tips : R, hidden : SUBSET Post,
                                   blocked : SUBSET (Payment \cup {Author})]
        /\ [s EXCEPT !.posts = q].posts = q /\ [s EXCEPT !.posts = q].tips = s.tips
    BY <2>1, <2>2 DEF q, S
  <2> QED BY <2>3 DEF FeedState, S, R, q
<1>3. StateIsGood(t)
  BY <1>2 DEF StateIsGood
<1>4. /\ Len(t.posts) = Len(s.posts) + 1 /\ t.posts[Len(s.posts) + 1] = p
      /\ \A i \in 1 .. Len(s.posts) : t.posts[i] = s.posts[i]
  BY <1>1, <1>2
<1>5. Extends(t, s)
  <2>1. ExtendsPosts(t.posts, s.posts)
    BY <1>1, <1>4 DEF ExtendsPosts
  <2>2. ExtendsTips(t.tips, s.tips)
    BY <1>2, StateIs DEF ExtendsTips
  <2> QED BY <2>1, <2>2 DEF Extends
<1>6. item \in Item /\ "place" \in DOMAIN item /\ item.place = Len(s.posts) + 1 /\ item.post = p
  BY <1>1 DEF Item
<1>7. item.place \in DOMAIN t.posts
  BY <1>1, <1>2, <1>4, <1>6, StateIs
<1>8. Has(t, item)
  BY <1>4, <1>6, <1>7 DEF Has
<1> QED BY <1>3, <1>5, <1>6, <1>8

LEMMA TipAdded ==
  ASSUME NEW s \in FeedState, StateIsGood(s), NEW p \in Post, NEW tx \in Payment,
         tx \notin Attributed(s), payments \in [Payment -> Verdicts]
  PROVE  LET t == [s EXCEPT !.tips = Append(@, [tx |-> tx, post |-> p, status |-> Pending])]
             item == [tx |-> tx, post |-> p]
         IN  StateIsGood(t) /\ Extends(t, s) /\ item \in Item /\ Has(t, item)
<1> DEFINE tip == [tx |-> tx, post |-> p, status |-> Pending]
           t == [s EXCEPT !.tips = Append(@, tip)]
           item == [tx |-> tx, post |-> p]
<1>1. s.tips \in Seq(Tip) /\ Len(s.tips) \in Nat /\ Len(s.posts) \in Nat
  BY StateIs
<1>2. tip \in Tip /\ tip.tx = tx /\ tip.post = p /\ tip.status = Pending
  BY DEF Tip, Verdicts
<1>3. t \in FeedState /\ t.tips = Append(s.tips, tip) /\ t.posts = s.posts
  <2> HIDE DEF tip
  <2>1. Append(s.tips, tip) \in Seq(Tip)
    BY <1>1, <1>2
  <2> QED BY <2>1 DEF FeedState
<1>4. /\ Len(t.tips) = Len(s.tips) + 1 /\ t.tips[Len(s.tips) + 1] = tip
      /\ \A i \in 1 .. Len(s.tips) : t.tips[i] = s.tips[i]
  <2> HIDE DEF tip
  <2> QED BY <1>1, <1>3
<1>5. \A i \in 1 .. Len(s.tips) : s.tips[i].tx # tx
  <2> SUFFICES ASSUME NEW i \in 1 .. Len(s.tips) PROVE s.tips[i].tx # tx
    OBVIOUS
  <2>1. s.tips[i] \in Range(s.tips)
    BY StateIs
  <2> QED BY <2>1 DEF Attributed
<1> HIDE DEF tip, t
<1>6. TipsAreTrue(t.tips)
  <2>1. TipsAreTrue(s.tips)
    BY DEF StateIsGood
  <2>2. ASSUME NEW i \in 1 .. Len(t.tips) PROVE t.tips[i].status \in {Pending, payments[t.tips[i].tx]}
    <3>1. CASE i = Len(s.tips) + 1
      BY <1>2, <1>4, <3>1
    <3>2. CASE i \in 1 .. Len(s.tips)
      BY <1>4, <2>1, <3>2 DEF TipsAreTrue
    <3> QED BY <1>1, <1>4, <3>1, <3>2
  <2>3. ASSUME NEW i \in 1 .. Len(t.tips), NEW j \in 1 .. Len(t.tips), t.tips[i].tx = t.tips[j].tx
        PROVE  i = j
    <3>1. CASE i \in 1 .. Len(s.tips) /\ j \in 1 .. Len(s.tips)
      BY <1>4, <2>1, <2>3, <3>1 DEF TipsAreTrue
    <3>2. CASE i = Len(s.tips) + 1 /\ j \in 1 .. Len(s.tips)
      BY <1>2, <1>4, <1>5, <2>3, <3>2
    <3>3. CASE i \in 1 .. Len(s.tips) /\ j = Len(s.tips) + 1
      BY <1>2, <1>4, <1>5, <2>3, <3>3
    <3>4. CASE i = Len(s.tips) + 1 /\ j = Len(s.tips) + 1
      BY <3>4
    <3> QED BY <1>1, <1>4, <3>1, <3>2, <3>3, <3>4
  <2> QED BY <2>2, <2>3 DEF TipsAreTrue
<1>7. Extends(t, s)
  <2>1. ExtendsTips(t.tips, s.tips)
    BY <1>1, <1>4 DEF ExtendsTips
  <2>2. ExtendsPosts(t.posts, s.posts)
    BY <1>1, <1>3 DEF ExtendsPosts
  <2> QED BY <2>1, <2>2 DEF Extends
<1>8. item \in Item /\ "place" \notin DOMAIN item /\ item.tx = tx /\ item.post = p
  BY DEF Item
<1>9. Has(t, item)
  <2>1. Len(s.tips) + 1 \in 1 .. Len(t.tips) /\ t.tips[Len(s.tips) + 1] = tip
    BY <1>1, <1>4
  <2>2. tip \in Range(t.tips)
    BY <1>3, <2>1, StateIs
  <2> QED BY <1>2, <1>8, <2>2 DEF Has
<1>10. StateIsGood(t)
  BY <1>3, <1>6 DEF StateIsGood
<1> QED BY <1>7, <1>8, <1>9, <1>10 DEF t, tip

\* Resolving changes the status of tips and nothing else.
LEMMA TipsResolved ==
  ASSUME NEW s \in FeedState, StateIsGood(s), NEW checked, payments \in [Payment -> Verdicts],
         \A c \in checked : c.tx \in Payment /\ c.status = payments[c.tx] /\ payments[c.tx] # Pending
  PROVE  LET t == [s EXCEPT !.tips = [i \in DOMAIN @ |-> Resolved(@[i], checked)]]
         IN  StateIsGood(t) /\ Extends(t, s)
<1> DEFINE tips == [i \in DOMAIN s.tips |-> Resolved(s.tips[i], checked)]
           t == [s EXCEPT !.tips = tips]
<1>1. s.tips \in Seq(Tip) /\ Len(s.tips) \in Nat /\ DOMAIN s.tips = 1 .. Len(s.tips) /\ TipsAreTrue(s.tips)
  BY StateIs DEF StateIsGood
<1>2. ASSUME NEW i \in 1 .. Len(s.tips)
      PROVE  LET r == Resolved(s.tips[i], checked) IN
             /\ r \in Tip /\ r.tx = s.tips[i].tx /\ r.post = s.tips[i].post
             /\ r.status \in {Pending, payments[r.tx]}
  <2>1. s.tips[i] \in Tip /\ s.tips[i].status \in {Pending, payments[s.tips[i].tx]}
    BY <1>1, StateIs DEF TipsAreTrue
  <2>2. CASE s.tips[i].status = Pending /\ \E c \in checked : c.tx = s.tips[i].tx
    <3> DEFINE c == CHOOSE c \in checked : c.tx = s.tips[i].tx
    <3>1. c \in checked /\ c.tx = s.tips[i].tx
      BY <2>2
    <3>2. c.status = payments[s.tips[i].tx] /\ c.status \in Verdicts
      BY <2>1, <3>1 DEF Tip
    <3>3. Resolved(s.tips[i], checked) = [s.tips[i] EXCEPT !.status = c.status]
      BY <2>2 DEF Resolved
    <3> HIDE DEF c
    <3> QED BY <2>1, <3>2, <3>3 DEF Tip
  <2>3. CASE ~(s.tips[i].status = Pending /\ \E c \in checked : c.tx = s.tips[i].tx)
    <3>1. Resolved(s.tips[i], checked) = s.tips[i]
      BY <2>3 DEF Resolved
    <3> QED BY <2>1, <3>1
  <2> QED BY <2>2, <2>3
<1>3. tips \in Seq(Tip) /\ Len(tips) = Len(s.tips) /\ \A i \in 1 .. Len(s.tips) : tips[i] = Resolved(s.tips[i], checked)
  <2>1. tips \in [1 .. Len(s.tips) -> Tip]
    BY <1>1, <1>2
  <2>2. tips \in Seq(Tip) /\ Len(tips) = Len(s.tips)
    BY <1>1, <2>1, IsASeq, LenProperties
  <2> QED BY <1>1, <2>2
<1>4. t = [s EXCEPT !.tips = [i \in DOMAIN @ |-> Resolved(@[i], checked)]]
  OBVIOUS
<1> HIDE DEF tips
<1>5. t \in FeedState /\ t.tips = tips /\ t.posts = s.posts
  BY <1>3 DEF FeedState
<1> HIDE DEF t
<1>6. TipsAreTrue(t.tips)
  <2>1. \A i \in 1 .. Len(t.tips) : t.tips[i].tx = s.tips[i].tx /\ t.tips[i].status \in {Pending, payments[t.tips[i].tx]}
    BY <1>2, <1>3, <1>5
  <2> QED BY <1>1, <1>3, <1>5, <2>1 DEF TipsAreTrue
<1>7. Extends(t, s)
  <2>1. ExtendsTips(t.tips, s.tips)
    BY <1>1, <1>2, <1>3, <1>5 DEF ExtendsTips
  <2>2. ExtendsPosts(t.posts, s.posts)
    BY <1>5, StateIs DEF ExtendsPosts
  <2> QED BY <2>1, <2>2 DEF Extends
<1> QED BY <1>4, <1>5, <1>6, <1>7 DEF StateIsGood

LEMMA OfferIs ==
  ASSUME FeedInv
  PROVE  offer.posts \subseteq Post /\ offer.payments \subseteq Payment
BY OffersAssumption DEF FeedInv

LEMMA SavingIs ==
  ASSUME NEW next \in FeedState, NEW item \in Item \cup {NoItem}, SaveFeed(next, item)
  PROVE  /\ saving' \in Saving /\ saving'.at = "write" /\ saving'.next = next
         /\ saving'.item = item /\ UNCHANGED <<acked, doubted>>
BY DEF SaveFeed, Saving

LEMMA ItemIsOne == NoItem \notin Item
<1>1. DOMAIN NoItem = {"item"}
  BY DEF NoItem
<1>2. \A x \in Item : "post" \in DOMAIN x
  BY DEF Item
<1> QED BY <1>1, <1>2

\* A change that is saved leaves the answers and the timer's run alone.
LEMMA SaveBegins ==
  ASSUME FeedInv, Begins, UNCHANGED <<file, feedDisk, payments, offer>>, ResolvingIsGood',
         NEW next, NEW item \in Item \cup {NoItem}, SaveFeed(next, item),
         StateIsGood(next), Extends(next, Load), item # NoItem => Has(next, item)
  PROVE  FeedInv'
<1>1. /\ saving' \in Saving /\ saving'.at = "write" /\ saving'.next = next
      /\ saving'.item = item /\ UNCHANGED <<acked, doubted>>
  BY SavingIs DEF StateIsGood
<1>2. /\ saving = NotSaving /\ feed' = Load /\ \A x \in acked' \cup doubted' : Has(Load, x)
      /\ \A x \in acked' : \A s \in feedDisk : Has(s, x)
  BY <1>1 DEF Begins, FeedInv, AnswersAreKept
<1>3. StateIsGood(saving'.next) /\ Extends(saving'.next, Load)
      /\ (saving'.item # NoItem => Has(saving'.next, saving'.item))
  BY <1>1
<1> QED BY <1>1, <1>2, <1>3, ChangeBegins

LEMMA AnswersAgain ==
  ASSUME FeedInv, Begins, UNCHANGED <<file, feedDisk, payments, offer, resolving, saving>>,
         NEW item, Has(Load, item), Acknowledge(item)
  PROVE  FeedInv'
<1>1. saving = NotSaving /\ feed' = Load /\ saving' = NotSaving
  BY DEF Begins
<1>2. /\ \A x \in acked' \cup doubted' : Has(Load, x)
      /\ \A x \in acked' : \A s \in feedDisk : Has(s, x)
  BY DEF Acknowledge, FeedInv, AnswersAreKept
<1>3. ResolvingIsGood'
  BY DEF FeedInv, ResolvingIsGood
<1> QED BY <1>1, <1>2, <1>3, ChangeBegins

LEMMA TimerStays ==
  ASSUME FeedInv, UNCHANGED <<resolving, payments>>
  PROVE  ResolvingIsGood'
BY DEF FeedInv, ResolvingIsGood

LEMMA PublishKeeps ==
  ASSUME FeedInv, NEW p \in offer.posts, Publish(p)
  PROVE  FeedInv'
<1>1. p \in Post /\ Load \in FeedState /\ StateIsGood(Load)
  BY OfferIs, LoadIs DEF StateIsGood
<1>2. Begins /\ UNCHANGED <<file, feedDisk, payments, offer, resolving>>
  BY DEF Publish, BeginKeeps
<1>3. CASE p \in Posted(Load)
  <2>1. PICK i \in DOMAIN Load.posts : Acknowledge(PostAt(i, Load)) /\ UNCHANGED saving
    BY <1>3 DEF Publish
  <2> QED BY <1>2, <2>1, PostedAgain, AnswersAgain
<1>4. CASE p \notin Posted(Load)
  <2> DEFINE next == [Load EXCEPT !.posts = Append(@, p)]
             item == [place |-> Len(Load.posts) + 1, post |-> p]
  <2>1. SaveFeed(next, item)
    BY <1>4 DEF Publish
  <2>2. StateIsGood(next) /\ Extends(next, Load) /\ item \in Item /\ Has(next, item)
    BY <1>1, PostAdded
  <2>3. ResolvingIsGood'
    BY <1>2, TimerStays
  <2> HIDE DEF next, item
  <2> QED BY <1>2, <2>1, <2>2, <2>3, SaveBegins
<1> QED BY <1>3, <1>4

LEMMA AddTipKeeps ==
  ASSUME FeedInv, NEW p \in offer.posts, NEW tx \in offer.payments, AddTip(tx, p)
  PROVE  FeedInv'
<1>1. p \in Post /\ tx \in Payment /\ Load \in FeedState /\ StateIsGood(Load)
  BY OfferIs, LoadIs DEF StateIsGood
<1>2. Begins /\ UNCHANGED <<file, feedDisk, payments, offer, resolving>>
  BY DEF AddTip, BeginKeeps
<1> DEFINE item == [tx |-> tx, post |-> p]
<1>3. CASE tx \in Attributed(Load)
  <2>1. TipOf(tx, Load).post = p /\ Acknowledge(item) /\ UNCHANGED saving
    BY <1>3 DEF AddTip
  <2>2. TipOf(tx, Load) \in Range(Load.tips) /\ TipOf(tx, Load).tx = tx
    BY <1>3 DEF Attributed, TipOf
  <2>3. "place" \notin DOMAIN item /\ item.tx = tx /\ item.post = p
    OBVIOUS
  <2>4. Has(Load, item)
    BY <2>1, <2>2, <2>3 DEF Has
  <2> HIDE DEF item
  <2> QED BY <1>2, <2>1, <2>4, AnswersAgain
<1>4. CASE tx \notin Attributed(Load)
  <2> DEFINE next == [Load EXCEPT !.tips = Append(@, [tx |-> tx, post |-> p, status |-> Pending])]
  <2>1. SaveFeed(next, item)
    BY <1>4 DEF AddTip
  <2>2. StateIsGood(next) /\ Extends(next, Load) /\ item \in Item /\ Has(next, item)
    BY <1>1, <1>4, TipAdded DEF FeedInv
  <2>3. ResolvingIsGood'
    BY <1>2, TimerStays
  <2> HIDE DEF next, item
  <2> QED BY <1>2, <2>1, <2>2, <2>3, SaveBegins
<1> QED BY <1>3, <1>4

\* Moderation changes neither posts nor tips.
LEMMA ModeratedKeeps ==
  ASSUME FeedInv, Begins, BeginKeeps, NEW next \in FeedState, SaveFeed(next, NoItem),
         next.posts = Load.posts, next.tips = Load.tips
  PROVE  FeedInv'
<1>1. Load \in FeedState /\ StateIsGood(Load)
  BY LoadIs DEF StateIsGood
<1>2. StateIsGood(next) /\ Extends(next, Load)
  BY <1>1, ExtendsItself DEF StateIsGood, Extends
<1>3. ResolvingIsGood' /\ UNCHANGED <<file, feedDisk, payments, offer>>
  BY TimerStays DEF BeginKeeps
<1> QED BY <1>2, <1>3, SaveBegins

LEMMA HideKeeps ==
  ASSUME FeedInv, NEW p \in offer.posts, Hide(p)
  PROVE  FeedInv'
<1>1. p \in Post /\ Load \in FeedState
  BY OfferIs, LoadIs DEF StateIsGood
<1> DEFINE next == [Load EXCEPT !.hidden = @ \cup {p}]
<1>2. next \in FeedState /\ next.posts = Load.posts /\ next.tips = Load.tips
  <2> DEFINE S == Seq(Post)
             R == Seq(Tip)
  <2>1. Load \in [posts : S, tips : R, hidden : SUBSET Post, blocked : SUBSET (Payment \cup {Author})]
    BY <1>1 DEF FeedState
  <2> HIDE DEF S, R
  <2>2. next \in [posts : S, tips : R, hidden : SUBSET Post, blocked : SUBSET (Payment \cup {Author})]
        /\ next.posts = Load.posts /\ next.tips = Load.tips
    BY <1>1, <2>1
  <2> QED BY <2>2 DEF FeedState, S, R
<1>3. Begins /\ BeginKeeps /\ SaveFeed(next, NoItem)
  BY DEF Hide
<1> HIDE DEF next
<1> QED BY <1>2, <1>3, ModeratedKeeps

LEMMA BlockKeeps ==
  ASSUME FeedInv, NEW w \in offer.payments \cup {Author}, Block(w)
  PROVE  FeedInv'
<1>1. w \in Payment \cup {Author} /\ Load \in FeedState
  BY OfferIs, LoadIs DEF StateIsGood
<1> DEFINE next == [Load EXCEPT !.blocked = @ \cup {w}]
<1>2. next \in FeedState /\ next.posts = Load.posts /\ next.tips = Load.tips
  <2> DEFINE S == Seq(Post)
             R == Seq(Tip)
  <2>1. Load \in [posts : S, tips : R, hidden : SUBSET Post, blocked : SUBSET (Payment \cup {Author})]
    BY <1>1 DEF FeedState
  <2> HIDE DEF S, R
  <2>2. next \in [posts : S, tips : R, hidden : SUBSET Post, blocked : SUBSET (Payment \cup {Author})]
        /\ next.posts = Load.posts /\ next.tips = Load.tips
    BY <1>1, <2>1
  <2> QED BY <2>2 DEF FeedState, S, R
<1>3. Begins /\ BeginKeeps /\ SaveFeed(next, NoItem)
  BY DEF Block
<1> HIDE DEF next
<1> QED BY <1>2, <1>3, ModeratedKeeps

\* Neither what was decided nor what was answered moves.
LEMMA SameTruth ==
  ASSUME UNCHANGED payments
  PROVE  /\ \A s : StateIsGood(s)' <=> StateIsGood(s)
         /\ UNCHANGED resolving /\ ResolvingIsGood => ResolvingIsGood'
<1>1. ASSUME NEW s PROVE StateIsGood(s)' <=> StateIsGood(s)
  BY DEF StateIsGood, TipsAreTrue
<1>2. UNCHANGED resolving /\ ResolvingIsGood => ResolvingIsGood'
  BY DEF ResolvingIsGood
<1> QED BY <1>1, <1>2

LEMMA InProgress ==
  ASSUME FeedInv, saving # NotSaving
  PROVE  /\ saving \in Saving /\ feed # Unloaded /\ feed \in FeedState /\ Load = feed
         /\ saving.next \in FeedState /\ StateIsGood(saving.next) /\ Extends(saving.next, feed)
         /\ saving.item # NoItem => Has(saving.next, saving.item)
         /\ saving.at = "sync" => file = saving.next
BY DEF FeedInv, SavingIsGood, StateIsGood, FilesExtend, Load

LEMMA FileRenamedKeeps ==
  ASSUME FeedInv, FileRenamed
  PROVE  FeedInv'
<1>1. /\ saving.at = "write" /\ file' = saving.next /\ saving' = [saving EXCEPT !.at = "sync"]
      /\ feedDisk' = feedDisk \cup {saving.next}
      /\ UNCHANGED <<feed, payments, resolving, acked, doubted, offer>>
  BY DEF FileRenamed
<1>2. saving # NotSaving
  BY <1>1 DEF NotSaving
<1>3. /\ saving \in Saving /\ feed # Unloaded /\ feed \in FeedState /\ Load = feed
      /\ saving.next \in FeedState /\ StateIsGood(saving.next) /\ Extends(saving.next, feed)
      /\ saving.item # NoItem => Has(saving.next, saving.item)
  BY <1>2, InProgress
<1>4. Load' = feed
  BY <1>1, <1>3 DEF Load
<1>5. saving' \in Saving /\ saving'.next = saving.next /\ saving'.item = saving.item
  BY <1>1, <1>3 DEF Saving
<1>6. SavingIsGood'
  BY <1>1, <1>3, <1>4, <1>5 DEF SavingIsGood, StateIsGood, TipsAreTrue
<1>7. FilesExtend'
  BY <1>1, <1>3, <1>4 DEF FeedInv, FilesExtend, StateIsGood, TipsAreTrue
<1>8. ResolvingIsGood'
  BY <1>1, TimerStays
<1>9. \A item \in acked : Has(saving.next, item)
  BY <1>3, HasMore DEF FeedInv, AnswersAreKept
<1>10. AnswersAreKept'
  BY <1>1, <1>3, <1>4, <1>9 DEF FeedInv, AnswersAreKept
<1> QED BY <1>1, <1>6, <1>7, <1>8, <1>10 DEF FeedInv

LEMMA DirectorySyncedKeeps ==
  ASSUME FeedInv, DirectorySynced
  PROVE  FeedInv'
<1>1. /\ saving.at = "sync" /\ feedDisk' = {file} /\ feed' = saving.next /\ saving' = NotSaving
      /\ acked' = acked \cup doubted \cup ({saving.item} \ {NoItem}) /\ doubted' = {}
      /\ UNCHANGED <<file, payments, resolving, offer>>
  BY DEF DirectorySynced
<1>2. saving # NotSaving
  BY <1>1 DEF NotSaving
<1>3. /\ feed \in FeedState /\ Load = feed /\ file = saving.next
      /\ saving.next \in FeedState /\ StateIsGood(saving.next) /\ Extends(saving.next, feed)
      /\ saving.item # NoItem => Has(saving.next, saving.item)
  BY <1>1, <1>2, InProgress
<1>4. Load' = saving.next /\ feed' # Unloaded
  BY <1>1, <1>3, StateIs DEF Load
<1>5. FilesExtend'
  BY <1>1, <1>3, <1>4, ExtendsItself DEF FilesExtend, StateIsGood, TipsAreTrue
<1>6. \A item \in acked' : Has(saving.next, item)
  BY <1>1, <1>3, HasMore DEF FeedInv, AnswersAreKept
<1>7. AnswersAreKept'
  BY <1>1, <1>3, <1>4, <1>6 DEF AnswersAreKept
<1>8. ResolvingIsGood' /\ SavingIsGood'
  BY <1>1, TimerStays DEF SavingIsGood
<1> QED BY <1>1, <1>5, <1>7, <1>8 DEF FeedInv

LEMMA SaveFailsKeeps ==
  ASSUME FeedInv, SaveFails
  PROVE  FeedInv'
<1>1. /\ saving' = NotSaving
      /\ UNCHANGED <<feed, file, feedDisk, payments, resolving, acked, doubted, offer>>
  BY DEF SaveFails
<1>2. Load' = Load
  BY <1>1 DEF Load
<1>3. FilesExtend' /\ SavingIsGood' /\ ResolvingIsGood'
  BY <1>1, <1>2, TimerStays DEF FeedInv, FilesExtend, SavingIsGood, StateIsGood, TipsAreTrue
<1>4. AnswersAreKept'
  BY <1>1, <1>2 DEF FeedInv, AnswersAreKept
<1> QED BY <1>1, <1>3, <1>4 DEF FeedInv

\* The file takes the place of memory.
LEMMA FeedProcessStopsKeeps ==
  ASSUME FeedInv, FeedProcessStops
  PROVE  FeedInv'
<1>1. /\ feed' = Unloaded /\ saving' = NotSaving /\ resolving' = NotResolving
      /\ UNCHANGED <<file, feedDisk, payments, acked, doubted, offer>>
  BY DEF FeedProcessStops, FeedStops
<1>2. /\ Load' = file /\ file \in FeedState /\ Extends(file, Load) /\ Load \in FeedState
  BY <1>1, LoadIs DEF FeedInv, FilesExtend, StateIsGood, Load
<1>3. FilesExtend'
  BY <1>1, <1>2, ExtendsItself DEF FeedInv, FilesExtend, StateIsGood, TipsAreTrue
<1>4. \A item \in acked \cup doubted : Has(file, item)
  BY <1>2, HasMore DEF FeedInv, AnswersAreKept
<1>5. AnswersAreKept'
  BY <1>1, <1>2, <1>4 DEF FeedInv, AnswersAreKept
<1>6. SavingIsGood' /\ ResolvingIsGood'
  BY <1>1 DEF SavingIsGood, ResolvingIsGood
<1> QED BY <1>1, <1>3, <1>5, <1>6 DEF FeedInv

LEMMA FeedPowerFailsKeeps ==
  ASSUME FeedInv, FeedPowerFails
  PROVE  FeedInv'
<1>1. /\ feed' = Unloaded /\ saving' = NotSaving /\ resolving' = NotResolving
      /\ file' \in feedDisk /\ feedDisk' = {file'} /\ doubted' = {}
      /\ UNCHANGED <<payments, acked, offer>>
  BY DEF FeedPowerFails, FeedStops
<1>2. /\ Load' = file' /\ file' \in FeedState /\ StateIsGood(file')
  BY <1>1 DEF FeedInv, FilesExtend, StateIsGood, Load
<1>3. FilesExtend'
  BY <1>1, <1>2, ExtendsItself DEF FilesExtend, StateIsGood, TipsAreTrue
<1>4. \A item \in acked : Has(file', item)
  BY <1>1 DEF FeedInv, AnswersAreKept
<1>5. AnswersAreKept'
  BY <1>1, <1>2, <1>4 DEF AnswersAreKept
<1>6. SavingIsGood' /\ ResolvingIsGood'
  BY <1>1 DEF SavingIsGood, ResolvingIsGood
<1> QED BY <1>1, <1>3, <1>5, <1>6 DEF FeedInv

LEMMA StartResolvingKeeps ==
  ASSUME FeedInv, StartResolving
  PROVE  FeedInv'
<1>1. /\ saving = NotSaving /\ feed' = Load
      /\ \E W : resolving' = [at |-> "probing", waits |-> W, checked |-> {}]
      /\ UNCHANGED <<file, feedDisk, saving, payments, acked, doubted, offer>>
  BY DEF StartResolving
<1>2. ResolvingIsGood'
  BY <1>1 DEF ResolvingIsGood
<1>3. /\ \A item \in acked' \cup doubted' : Has(Load, item)
      /\ \A item \in acked' : \A s \in feedDisk : Has(s, item)
  BY <1>1 DEF FeedInv, AnswersAreKept
<1> QED BY <1>1, <1>2, <1>3, ChangeBegins

LEMMA OnlyTimer ==
  ASSUME FeedInv, ResolvingIsGood', UNCHANGED <<feed, file, feedDisk, saving, payments, acked, doubted, offer>>
  PROVE  FeedInv'
<1>1. Load' = Load
  BY DEF Load
<1>2. FilesExtend' /\ SavingIsGood'
  BY <1>1 DEF FeedInv, FilesExtend, SavingIsGood, StateIsGood, TipsAreTrue
<1>3. AnswersAreKept'
  BY <1>1 DEF FeedInv, AnswersAreKept
<1> QED BY <1>2, <1>3 DEF FeedInv

LEMMA ProbeIs ==
  ASSUME NEW W, NEW K, NEW X, NEW Y, NEW r, r = [at |-> "probing", waits |-> W, checked |-> K]
  PROVE  [r EXCEPT !.waits = X, !.checked = Y] = [at |-> "probing", waits |-> X, checked |-> Y]
<1>1. r \in [at : {"probing"}, waits : {W}, checked : {K}]
  OBVIOUS
<1>2. [r EXCEPT !.waits = X, !.checked = Y] \in [at : {"probing"}, waits : {X}, checked : {Y}]
  BY <1>1
<1>3. ASSUME NEW q \in [at : {"probing"}, waits : {X}, checked : {Y}]
      PROVE  q = [at |-> "probing", waits |-> X, checked |-> Y]
  OBVIOUS
<1> QED BY <1>2, <1>3

LEMMA ProbeEndsKeeps ==
  ASSUME FeedInv, NEW tx \in offer.payments, NEW arrives \in BOOLEAN, ProbeEnds(tx, arrives)
  PROVE  FeedInv'
<1> DEFINE news == IF arrives /\ payments[tx] # Pending
                   THEN {[tx |-> tx, status |-> payments[tx]]} ELSE {}
<1>1. UNCHANGED <<feed, file, feedDisk, saving, payments, acked, doubted, offer>>
  BY DEF ProbeEnds
<1>2. CASE resolving.at # "probing" \/ tx \notin resolving.waits
  <2>1. UNCHANGED resolving
    BY <1>2 DEF ProbeEnds
  <2> QED BY <1>1, <2>1, TimerStays, OnlyTimer
<1>3. CASE ~(resolving.at # "probing" \/ tx \notin resolving.waits)
  <2>1. resolving' = [resolving EXCEPT !.waits = @ \ {tx}, !.checked = @ \cup news]
    BY <1>3 DEF ProbeEnds
  <2>2. resolving # NotResolving
    BY <1>3 DEF NotResolving
  <2>3. \A c \in news : c.tx \in Payment /\ c.status = payments[c.tx] /\ payments[c.tx] # Pending
    BY OfferIs
  <2>4. /\ resolving = [at |-> "probing", waits |-> resolving.waits, checked |-> resolving.checked]
        /\ \A c \in resolving.checked :
             c.tx \in Payment /\ c.status = payments[c.tx] /\ payments[c.tx] # Pending
    BY <2>2 DEF FeedInv, ResolvingIsGood
  <2> HIDE DEF news
  <2>5. resolving' = [at |-> "probing", waits |-> resolving.waits \ {tx}, checked |-> resolving.checked \cup news]
    <3> DEFINE W == resolving.waits
               K == resolving.checked
    <3>1. resolving = [at |-> "probing", waits |-> W, checked |-> K]
      BY <2>4
    <3>2. resolving' = [resolving EXCEPT !.waits = W \ {tx}, !.checked = K \cup news]
      BY <2>1
    <3> HIDE DEF W, K
    <3>3. resolving' = [at |-> "probing", waits |-> W \ {tx}, checked |-> K \cup news]
      BY <3>1, <3>2, ProbeIs
    <3> QED BY <3>3 DEF W, K
  <2>6. ResolvingIsGood'
    BY <1>1, <2>3, <2>4, <2>5 DEF ResolvingIsGood
  <2> QED BY <1>1, <2>6, OnlyTimer
<1> QED BY <1>2, <1>3

LEMMA GiveUpKeeps ==
  ASSUME FeedInv, NEW tx, GiveUp(tx)
  PROVE  FeedInv'
<1>1. /\ resolving.at = "probing" /\ resolving' = [resolving EXCEPT !.waits = @ \ {tx}]
      /\ UNCHANGED <<feed, file, feedDisk, saving, payments, acked, doubted, offer>>
  BY DEF GiveUp
<1>2. resolving # NotResolving
  BY <1>1 DEF NotResolving
<1>3. /\ resolving = [at |-> "probing", waits |-> resolving.waits, checked |-> resolving.checked]
      /\ \A c \in resolving.checked :
           c.tx \in Payment /\ c.status = payments[c.tx] /\ payments[c.tx] # Pending
  BY <1>2 DEF FeedInv, ResolvingIsGood
<1>4. resolving' = [at |-> "probing", waits |-> resolving.waits \ {tx}, checked |-> resolving.checked]
  BY <1>1, <1>3
<1>5. ResolvingIsGood'
  BY <1>1, <1>3, <1>4 DEF ResolvingIsGood
<1> QED BY <1>1, <1>5, OnlyTimer

LEMMA MergeResultsKeeps ==
  ASSUME FeedInv, MergeResults
  PROVE  FeedInv'
<1>1. /\ resolving.at = "probing" /\ resolving' = NotResolving
      /\ UNCHANGED <<file, feedDisk, payments, offer>>
  BY DEF MergeResults
<1>2. ResolvingIsGood'
  BY <1>1 DEF ResolvingIsGood
<1>3. CASE resolving.checked = {}
  <2>1. UNCHANGED <<saving, acked, doubted, feed>>
    BY <1>3 DEF MergeResults
  <2> QED BY <1>1, <1>2, <2>1, OnlyTimer
<1>4. CASE resolving.checked # {}
  <2> DEFINE next == [Load EXCEPT !.tips = [i \in DOMAIN @ |-> Resolved(@[i], resolving.checked)]]
  <2>1. Begins /\ SaveFeed(next, NoItem)
    BY <1>4 DEF MergeResults
  <2>2. resolving # NotResolving
    BY <1>1 DEF NotResolving
  <2>3. \A c \in resolving.checked : c.tx \in Payment /\ c.status = payments[c.tx] /\ payments[c.tx] # Pending
    BY <2>2 DEF FeedInv, ResolvingIsGood
  <2>4. Load \in FeedState /\ StateIsGood(Load) /\ payments \in [Payment -> Verdicts]
    BY LoadIs DEF StateIsGood, FeedInv
  <2>5. StateIsGood(next) /\ Extends(next, Load)
    BY <2>3, <2>4, TipsResolved
  <2> HIDE DEF next
  <2> QED BY <1>1, <1>2, <2>1, <2>5, SaveBegins
<1> QED BY <1>3, <1>4

\* The chain decides what was pending; what a probe has brought was decided before.
LEMMA PaymentExecutedKeeps ==
  ASSUME FeedInv, NEW tx \in offer.payments, NEW status \in {"confirmed", "failed"},
         PaymentExecuted(tx, status)
  PROVE  FeedInv'
<1>1. /\ payments[tx] = Pending /\ payments' = [payments EXCEPT ![tx] = status] /\ tx \in Payment
      /\ UNCHANGED <<feed, file, feedDisk, saving, resolving, acked, doubted, offer>>
  BY OfferIs DEF PaymentExecuted
<1>2. /\ payments' \in [Payment -> Verdicts]
      /\ \A q \in Payment : payments[q] # Pending => payments'[q] = payments[q]
  BY <1>1 DEF FeedInv, Verdicts
<1>3. ASSUME NEW s, StateIsGood(s) PROVE StateIsGood(s)'
  <2>1. \A i \in 1 .. Len(s.tips) : s.tips[i].tx \in Payment
    BY <1>3, StateIs DEF StateIsGood, Tip
  <2> QED BY <1>2, <1>3, <2>1 DEF StateIsGood, TipsAreTrue
<1>4. Load' = Load
  BY <1>1 DEF Load
<1>5. FilesExtend'
  BY <1>1, <1>3, <1>4 DEF FeedInv, FilesExtend
<1>6. SavingIsGood'
  BY <1>1, <1>3, <1>4 DEF FeedInv, SavingIsGood
<1>7. ResolvingIsGood'
  BY <1>1, <1>2 DEF FeedInv, ResolvingIsGood
<1>8. AnswersAreKept'
  BY <1>1, <1>4 DEF FeedInv, AnswersAreKept
<1> QED BY <1>1, <1>2, <1>5, <1>6, <1>7, <1>8 DEF FeedInv

LEMMA FeedStepKeeps == FeedInv /\ (FeedNext \/ UNCHANGED feedVars) => FeedInv'
<1>1. ASSUME FeedInv, UNCHANGED feedVars PROVE FeedInv'
  BY <1>1, TimerStays, OnlyTimer DEF feedVars
<1> QED
  BY <1>1, PublishKeeps, AddTipKeeps, HideKeeps, BlockKeeps, FileRenamedKeeps, DirectorySyncedKeeps,
     SaveFailsKeeps, FeedProcessStopsKeeps, FeedPowerFailsKeeps, StartResolvingKeeps, ProbeEndsKeeps, GiveUpKeeps,
     MergeResultsKeeps, PaymentExecutedKeeps DEF FeedNext

LEMMA FeedFollows == FeedInv => FeedSurvives
<1> SUFFICES ASSUME FeedInv PROVE FeedSurvives
  OBVIOUS
<1>1. /\ StateIsGood(Load) /\ StateIsGood(file) /\ Extends(file, Load)
      /\ \A s \in feedDisk : StateIsGood(s)
  BY LoadIs DEF FeedInv, FilesExtend
<1>2. /\ \A item \in acked \cup doubted : Has(Load, item) /\ Has(file, item)
      /\ \A item \in acked : \A s \in feedDisk : Has(s, item)
  BY <1>1, HasMore DEF FeedInv, AnswersAreKept, StateIsGood
<1>3. ASSUME NEW s, StateIsGood(s)
      PROVE  /\ \A t \in Range(s.tips) : t.status \in {Pending, payments[t.tx]}
             /\ \A i, j \in DOMAIN s.tips : s.tips[i].tx = s.tips[j].tx => i = j
  <2>1. s \in FeedState /\ TipsAreTrue(s.tips)
    BY <1>3 DEF StateIsGood
  <2>2. DOMAIN s.tips = 1 .. Len(s.tips)
    BY <2>1, StateIs
  <2>3. ASSUME NEW t \in Range(s.tips) PROVE t.status \in {Pending, payments[t.tx]}
    <3>1. PICK i \in 1 .. Len(s.tips) : s.tips[i] = t
      BY <2>1, StateIs
    <3> QED BY <2>1, <3>1 DEF TipsAreTrue
  <2> QED BY <2>1, <2>2, <2>3 DEF TipsAreTrue
<1> QED BY <1>1, <1>2, <1>3 DEF FeedSurvives

-----------------------------------------------------------------------------
\* The other services leave rooms and feed alone.
LEMMA ClientsElsewhere ==
  [Next]_gatewayVars => /\ RoomsNext \/ UNCHANGED roomVars
                        /\ FeedNext \/ UNCHANGED feedVars
BY DEF Next, gatewayVars, Registering, Claiming, Funding, ReadingApps, Relaying, Posting, Starting

(***************************************************************************)
(* Only the append at the head of the queue is between its awaits, with    *)
(* the history it read; the feed's file has what memory has; and whatever a *)
(* power failure may leave of either file has what was answered from a      *)
(* synced one.                                                             *)
(***************************************************************************)
THEOREM ClientsInvariant == Spec => [](RoomsInv /\ FeedInv)
<1>1. Init => RoomsInv /\ FeedInv
  BY RoomsStart, FeedStarts DEF Init
<1>2. RoomsInv /\ FeedInv /\ [Next]_gatewayVars => (RoomsInv /\ FeedInv)'
  BY ClientsElsewhere, RoomsStepKeeps, FeedStepKeeps
<1> QED BY <1>1, <1>2, PTL DEF Spec

(***************************************************************************)
(* What a client of the rooms or the feed was told is stored stays stored: *)
(* through failed saves and process stops in any case, and through power    *)
(* failures if it was answered from a file whose directory was synced.      *)
(***************************************************************************)
THEOREM AcknowledgedIsKept == Spec => []AcknowledgedSurvives
<1>1. RoomsInv /\ FeedInv => AcknowledgedSurvives
  BY RoomsFollow, FeedFollows DEF AcknowledgedSurvives
<1> QED BY <1>1, ClientsInvariant, PTL
=============================================================================
