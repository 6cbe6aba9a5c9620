----------------------- MODULE FacilitatorMoneyProofs -----------------------
(***************************************************************************)
(* Where the money goes, for any number of calls, channels, prices,        *)
(* failures and restarts: what clients lose they have signed for, what     *)
(* merchants get was settled for them, and each channel moves as the       *)
(* abstract payment channel does.                                          *)
(*                                                                         *)
(* MoneyInv says what the node knows of the facilitator's transactions;    *)
(* ChannelInv, that a channel is one coin.  The second is kept because a   *)
(* step of the chain is a settle, which MoneyInv and SettleInv describe,   *)
(* or leaves every channel alone.                                          *)
(***************************************************************************)
EXTENDS FacilitatorProofs, SumProofs

-----------------------------------------------------------------------------
(* Transactions of the signing wallet.                                     *)

LEMMA WalletIsNoChannel ==
    ASSUME NEW owner
    PROVE  ~ IsChannelAddress(WalletAddress(owner)) /\ ~ IsChannelAddress(SigningAddress)
  BY DEF IsChannelAddress, WalletAddress, SigningAddress

LEMMA HotWalletOnly ==
    ASSUME NEW id, NEW owner, NEW amount,
           NEW tx \in HotWalletTxs(id, WalletAddress(owner), amount)
    PROVE  WalletOnly(tx) /\ tx.outs[1] = Pay(WalletAddress(owner), amount)
<1>1. PICK coins \in SUBSET CoinsAt(SigningAddress), change \in 0 .. Supply :
         tx = WalletTx(id, coins, Pay(WalletAddress(owner), amount), SigningAddress, change)
  BY DEF HotWalletTxs, WalletTxs, Selections
<1> DEFINE payment == Pay(WalletAddress(owner), amount)
           rest == Pay(SigningAddress, change)
<1>2. tx.ins = coins /\ (tx.outs = << payment >> \/ tx.outs = << payment, rest >>)
  BY <1>1 DEF WalletTx
<1>3. \A coin \in tx.ins : coin.address = SigningAddress
  BY <1>2 DEF CoinsAt
<1>4. \A vout \in DOMAIN tx.outs :
         tx.outs[vout].address \in {SigningAddress, WalletAddress(owner)}
  BY <1>2 DEF Pay
<1> QED
  BY <1>2, <1>3, <1>4, WalletIsNoChannel DEF WalletOnly

LEMMA SweepOnly ==
    ASSUME NEW s, NEW entries, NEW tx \in SweepTxs(s, entries)
    PROVE  WalletOnly(tx)
  BY HotWalletOnly DEF SweepTxs

-----------------------------------------------------------------------------
(* How a step moves the drafts of the wallet.                              *)

WalletSubmits == {"forwardSubmit", "sweepSubmit"}

\* A handler is where it was, or nowhere that it matters.
Rests(g) ==
    \/ pc'[g] \notin Awaits
    \/ /\ pc'[g] = pc[g] /\ draft'[g] = draft[g]
       /\ g \in Requests => req'[g] = req[g]

\* It goes on with its request and, from a lookup to a submit, with what the
\* wallet has built for it.
Proceeds(g) ==
    /\ g \in Requests => pc[g] \in Awaits /\ req'[g] = req[g]
    /\ pc'[g] \in WalletSubmits => WalletOnly(draft'[g])
    /\ pc'[g] = "forwardSubmit" => \E tx : tx = draft'[g] /\ Forwards(g, tx)

\* It has begun.
Begins(g) == pc'[g] \notin WalletSubmits

Drafts(g) == Rests(g) \/ Proceeds(g) \/ Begins(g)

LEMMA UntouchedDrafts ==
    ASSUME NEW g, Untouched(g)
    PROVE  Drafts(g)
  BY DEF Untouched, Drafts, Rests

LEMMA RespondDrafts ==
    ASSUME TypeInv, NEW h \in Handlers, NEW answer, Respond(h, answer)
    PROVE  \A g \in Handlers : Drafts(g)
<1>1. "done" \notin Awaits
  BY DEF Awaits, ConfirmPoints, ForwardPoints, SweepPoints
<1> QED
  BY <1>1, RespondUntouched, UntouchedDrafts DEF Drafts, Rests

\* A handler that moves on without a draft of the wallet.
LEMMA GotoDrafts ==
    ASSUME TypeInv, NEW h \in Handlers, pc[h] \in Awaits \/ h \notin Requests,
           NEW point, point \notin WalletSubmits, Goto(h, point),
           UNCHANGED << req, outcome >>,
           \A g \in Handlers : g # h => draft'[g] = draft[g]
    PROVE  \A g \in Handlers : Drafts(g)
<1> USE HandlerKinds
<1>1. pc'[h] = point /\ \A g \in Handlers : g # h => pc'[g] = pc[g]
  BY GotoUntouched
<1>2. Drafts(h)
  BY <1>1 DEF Drafts, Proceeds, WalletSubmits
<1>3. \A g \in Handlers : g # h => Untouched(g)
  BY <1>1 DEF Untouched
<1> QED
  BY <1>2, <1>3, UntouchedDrafts

\* A handler that has been given its transaction by the wallet.
LEMMA BuiltDrafts ==
    ASSUME TypeInv, NEW h \in Handlers, pc[h] \in Awaits,
           NEW point, Goto(h, point), UNCHANGED << req, outcome >>,
           NEW tx, draft' = [draft EXCEPT ![h] = tx], WalletOnly(tx),
           point = "forwardSubmit" => Forwards(h, tx)
    PROVE  \A g \in Handlers : Drafts(g)
<1> USE HandlerKinds
<1>1. pc'[h] = point /\ \A g \in Handlers : g # h => pc'[g] = pc[g]
  BY GotoUntouched
<1>2. draft'[h] = tx /\ \A g \in Handlers : g # h => draft'[g] = draft[g]
  BY DEF TypeInv, TypeOK
<1>3. Drafts(h)
  BY <1>1, <1>2 DEF Drafts, Proceeds, WalletSubmits
<1>4. \A g \in Handlers : g # h => Untouched(g)
  BY <1>1, <1>2 DEF Untouched
<1> QED
  BY <1>3, <1>4, UntouchedDrafts

LEMMA DraftsStep ==
    ASSUME TypeInv, [Next]_vars
    PROVE  \A g \in Handlers : Drafts(g)
<1> USE HandlerKinds
<1> DEFINE Summary == \A g \in Handlers : Drafts(g)
<1>0. /\ {"verify", "lookup", "submit", "start", "confirm", "forwardLookup",
          "forwardSubmit", "sweepLookup", "sweepSubmit"} \subseteq Awaits
      /\ {"idle", "done", "lost"} \cap Awaits = {}
  BY DEF Awaits, ConfirmPoints, ForwardPoints, SweepPoints
<1>1. ASSUME \A g \in Handlers : Untouched(g)
      PROVE  Summary
  BY <1>1, UntouchedDrafts
<1>2. CASE NodeStep \/ DaaAdvance \/ UNCHANGED vars
  <2>1. UNCHANGED << pc, req, draft, outcome >>
    BY <1>2 DEF NodeStep, DaaAdvance, vars, handlers
  <2> QED
    BY <1>1, <2>1 DEF Untouched
<1>3. ASSUME NEW r \in Requests, Receive(r)
      PROVE  Summary
  <2>1. PICK body : ReceiveBody(r, body)
    BY <1>3 DEF Receive
  <2>2. /\ pc[r] = "idle" /\ UNCHANGED draft
        /\ \/ /\ req' = [req EXCEPT ![r] = body]
              /\ Goto(r, "verify") /\ UNCHANGED outcome
           \/ /\ Goto(r, "done") /\ UNCHANGED req
              /\ outcome' = [outcome EXCEPT ![r] = Refusal(r)]
    BY <2>1 DEF ReceiveBody
  <2>3. /\ \A q \in Requests : q # r => req'[q] = req[q]
        /\ \A g \in Handlers : g # r => outcome'[g] = outcome[g]
    BY <2>2 DEF TypeInv, TypeOK
  <2>4. \A g \in Handlers : g # r => Untouched(g)
    BY <2>2, <2>3, GotoUntouched DEF Untouched
  <2>5. CASE Goto(r, "verify")
    <3>1. pc'[r] = "verify"
      BY <2>5, GotoUntouched
    <3> QED
      BY <2>4, <2>5, <3>1, UntouchedDrafts DEF Drafts, Begins, WalletSubmits
  <2>6. CASE Goto(r, "done")
    <3>1. pc'[r] = "done"
      BY <2>6, GotoUntouched
    <3> QED
      BY <1>0, <2>4, <3>1, UntouchedDrafts DEF Drafts, Rests
  <2> QED
    BY <2>2, <2>5, <2>6
<1>4. ASSUME NEW r \in Requests, VerifyLookup(r)
      PROVE  Summary
  BY <1>0, <1>4, RespondDrafts, GotoDrafts DEF VerifyLookup, WalletSubmits
<1>5. ASSUME NEW r \in Settles, SettleLookup(r)
      PROVE  Summary
  <2>1. CASE Respond(r, "refused")
    BY <2>1, RespondDrafts
  <2>2. ASSUME NEW tx, draft' = [draft EXCEPT ![r] = tx], pc[r] = "lookup",
               Goto(r, "submit"), UNCHANGED << req, outcome >>
        PROVE  Summary
    <3>1. \A g \in Handlers : g # r => draft'[g] = draft[g]
      BY <2>2 DEF TypeInv, TypeOK
    <3> QED
      BY <1>0, <2>2, <3>1, GotoDrafts DEF WalletSubmits
  <2> QED
    BY <1>5, <2>1, <2>2 DEF SettleLookup
<1>6. ASSUME NEW r \in Settles, SettleSubmit(r)
      PROVE  Summary
  <2>1. CASE Respond(r, "error")
    BY <2>1, RespondDrafts
  <2>2. CASE /\ pc[r] = "submit" /\ Goto(r, "start") /\ UNCHANGED << req, outcome >>
             /\ draft' = [draft EXCEPT ![r] = None]
    <3>1. \A g \in Handlers : g # r => draft'[g] = draft[g]
      BY <2>2 DEF TypeInv, TypeOK
    <3> QED
      BY <1>0, <2>2, <3>1, GotoDrafts DEF WalletSubmits
  <2> QED
    BY <1>6, <2>1, <2>2 DEF SettleSubmit
<1>7. ASSUME NEW r \in Settles, StartConfirmation(r)
      PROVE  Summary
  BY <1>0, <1>7, GotoDrafts DEF StartConfirmation, WalletSubmits
<1>8. ASSUME NEW r \in Settles, Confirmed(r)
      PROVE  Summary
  BY <1>0, <1>8, RespondDrafts, GotoDrafts DEF Confirmed, WalletSubmits
<1>9. ASSUME NEW r \in Settles, ForwardLookup(r)
      PROVE  Summary
  <2>1. CASE UNCHANGED << pc, req, draft, waited, outcome >>
    BY <1>1, <2>1 DEF Untouched
  <2>2. CASE Respond(r, "success")
    BY <2>2, RespondDrafts
  <2>3. ASSUME NEW tx \in HotWalletTxs(<< "forward", r >>,
                                 WalletAddress(req[r].required.payTo),
                                 req[r].required.amount),
               draft' = [draft EXCEPT ![r] = tx], Goto(r, "forwardSubmit"),
               UNCHANGED << req, waited, polls, outcome >>
        PROVE  Summary
    <3>1. WalletOnly(tx) /\ Forwards(r, tx)
      BY HotWalletOnly DEF Forwards
    <3>2. pc[r] \in Awaits
      BY <1>0, <1>9 DEF ForwardLookup
    <3> QED
      BY <2>3, <3>1, <3>2, BuiltDrafts
  <2> QED
    BY <1>9, <2>1, <2>2, <2>3 DEF ForwardLookup
<1>10. ASSUME NEW s \in Sweeps, SweepCall(s)
       PROVE  Summary
  BY <1>10, GotoDrafts DEF SweepCall, WalletSubmits
<1>11. ASSUME NEW s \in Sweeps, SweepLookup(s)
       PROVE  Summary
  <2>1. CASE Respond(s, "nothing") \/ Respond(s, "error")
    BY <2>1, RespondDrafts
  <2>2. ASSUME NEW entries, NEW tx \in SweepTxs(s, entries),
               draft' = [draft EXCEPT ![s] = tx], Goto(s, "sweepSubmit"),
               UNCHANGED << req, waited, polls, outcome >>
        PROVE  Summary
    <3>1. WalletOnly(tx)
      BY SweepOnly
    <3>2. pc[s] \in Awaits /\ "sweepSubmit" # "forwardSubmit" /\ s \in Handlers
      BY <1>0, <1>11 DEF SweepLookup
    <3>3. UNCHANGED << req, outcome >>
      BY <2>2
    <3> QED
      BY <2>2, <3>1, <3>2, <3>3, BuiltDrafts
  <2> QED
    BY <1>11, <2>1, <2>2 DEF SweepLookup
<1>12. ASSUME NEW h \in Handlers,
              \/ h \in Settles /\ ForwardSubmit(h)
              \/ h \in Sweeps /\ SweepSubmit(h)
              \/ RpcFails(h) \/ SubmitAnswerLost(h)
       PROVE  Summary
  BY <1>12, RespondDrafts DEF ForwardSubmit, SweepSubmit, RpcFails, SubmitAnswerLost
<1>13. CASE Crash
  <2>1. \A g \in Handlers : pc'[g] \notin Awaits
    BY <1>0, <1>13 DEF Crash
  <2> QED
    BY <2>1 DEF Drafts, Rests
<1> QED
  BY <1>2, <1>3, <1>4, <1>5, <1>6, <1>7, <1>8, <1>9, <1>10, <1>11, <1>12, <1>13
  DEF Next, Progress, SettleStep, SweepStep

-----------------------------------------------------------------------------
(* The node.                                                               *)

\* The node takes what these handlers are submitting: one handler, or those
\* whose submits were under way when the process died.
Submitted(S) ==
    /\ S \subseteq Handlers /\ IsFiniteSet(S)
    /\ \A h \in S : Submittable(h)
    /\ \A g, h \in S : g # h => draft[g].ins \cap draft[h].ins = {}
    /\ chain' = chain /\ mempool' = mempool \cup { draft[h] : h \in S }

LEMMA OneSubmitted ==
    ASSUME NEW h \in Handlers, pc[h] \in SubmitPoints,
           NodeAccepts(draft[h], SigsOf(h, draft[h])), Enqueue(draft[h])
    PROVE  Submitted({h})
<1>1. { draft[g] : g \in {h} } = {draft[h]}
  OBVIOUS
<1> QED
  BY <1>1, FS_Singleton DEF Submitted, Submittable, Enqueue

LEMMA NodeCases ==
    ASSUME [Next]_vars
    PROVE  \/ UNCHANGED node
           \/ \E tx \in mempool : Accept(tx)
           \/ \E S : Submitted(S)
<1> USE HandlerKinds
<1> DEFINE Summary == \/ UNCHANGED node
                      \/ \E tx \in mempool : Accept(tx)
                      \/ \E S : Submitted(S)
<1>1. CASE UNCHANGED vars \/ DaaAdvance \/ NodeStep
  BY <1>1 DEF vars, node, DaaAdvance, NodeStep
<1>2. ASSUME NEW r \in Requests, Receive(r) \/ VerifyLookup(r)
      PROVE  Summary
  BY <1>2 DEF Receive, ReceiveBody, VerifyLookup
<1>3. ASSUME NEW r \in Settles,
             \/ SettleLookup(r) \/ StartConfirmation(r) \/ Confirmed(r) \/ ForwardLookup(r)
      PROVE  Summary
  BY <1>3 DEF SettleLookup, StartConfirmation, Confirmed, ForwardLookup
<1>4. ASSUME NEW r \in Settles, SettleSubmit(r) \/ ForwardSubmit(r)
      PROVE  Summary
  BY <1>4, OneSubmitted DEF SettleSubmit, ForwardSubmit, SubmitPoints
<1>5. ASSUME NEW s \in Sweeps, SweepCall(s) \/ SweepLookup(s) \/ SweepSubmit(s)
      PROVE  Summary
  BY <1>5, OneSubmitted DEF SweepCall, SweepLookup, SweepSubmit, SubmitPoints
<1>6. ASSUME NEW h \in Handlers, RpcFails(h) \/ SubmitAnswerLost(h)
      PROVE  Summary
  BY <1>6, OneSubmitted DEF RpcFails, SubmitAnswerLost
<1>7. CASE Crash
  BY <1>7 DEF Crash, Submitted
<1> QED
  BY <1>1, <1>2, <1>3, <1>4, <1>5, <1>6, <1>7
  DEF Next, Progress, SettleStep, SweepStep

LEMMA SubmittedKnown ==
    ASSUME NEW S, Submitted(S)
    PROVE  Known' = Known \cup { draft[h] : h \in S }
  BY DEF Submitted, Known

LEMMA AcceptedKnown ==
    ASSUME NEW tx \in mempool, Accept(tx)
    PROVE  /\ Known' = Known /\ chain' = chain \cup {tx}
           /\ mempool' = mempool \ {tx}
  BY DEF Accept, Known

\* A transaction that is accepted brings new coins and takes unspent ones.
LEMMA AcceptedCoins ==
    ASSUME NodeInv, UniqueIds, NEW tx \in mempool, Accept(tx)
    PROVE  /\ OutputsOf(tx) \cap Created = {}
           /\ Created' = Created \cup OutputsOf(tx)
           /\ Consumed' = Consumed \cup tx.ins
           /\ Utxo' = (Utxo \ tx.ins) \cup OutputsOf(tx)
           /\ tx.ins \subseteq Utxo
<1>1. ASSUME NEW coin \in OutputsOf(tx), coin \in Created
      PROVE  FALSE
  <2>1. PICK u \in chain : coin \in OutputsOf(u)
    BY <1>1 DEF Created
  <2>2. PICK i : coin = Coin(tx, i)
    BY DEF OutputsOf
  <2>3. PICK j : coin = Coin(u, j)
    BY <2>1 DEF OutputsOf
  <2>4. << tx.id, i >> = << u.id, j >>
    BY <2>2, <2>3 DEF Coin
  <2>5. tx = u
    BY <2>1, <2>4 DEF UniqueIds, Known
  <2> QED
    BY <2>1, <2>5 DEF NodeInv
<1>2. Created' = Created \cup OutputsOf(tx) /\ Consumed' = Consumed \cup tx.ins
  BY AcceptedKnown DEF Created, Consumed
<1>3. tx.ins \subseteq Utxo /\ Consumed \subseteq Created
  BY DEF NodeInv
<1>4. Utxo' = Created' \ Consumed'
  BY DEF Utxo
<1> QED
  BY <1>1, <1>2, <1>3, <1>4 DEF Utxo

LEMMA NodeInvStep ==
    ASSUME TypeInv, SettleInv, NodeInv, [Next]_vars
    PROVE  NodeInv'
<1>1. CASE UNCHANGED node
  BY <1>1 DEF node, NodeInv, Utxo, Created, Consumed
<1>2. ASSUME NEW S, Submitted(S)
      PROVE  NodeInv'
  <2>1. ASSUME NEW h \in S
        PROVE  draft[h] \notin chain /\ draft[h].ins \subseteq Utxo
    <3>1. h \in Handlers /\ pc[h] \in SubmitPoints
          /\ NodeAccepts(draft[h], SigsOf(h, draft[h]))
      BY <1>2 DEF Submitted, Submittable
    <3>2. draft[h] \notin chain
      BY <3>1, SubmittedIsFresh DEF SettleInv, Known
    <3> QED
      BY <3>1, <3>2 DEF NodeAccepts
  <2>2. /\ chain' = chain /\ mempool' = mempool \cup { draft[h] : h \in S }
        /\ Utxo' = Utxo /\ Created' = Created /\ Consumed' = Consumed
    BY <1>2 DEF Submitted, Utxo, Created, Consumed
  <2> QED
    BY <2>1, <2>2 DEF NodeInv
<1>3. ASSUME NEW tx \in mempool, Accept(tx)
      PROVE  NodeInv'
  <2>1. UniqueIds /\ NoDoubleSpend
    BY DEF SettleInv
  <2>2. chain' = chain \cup {tx} /\ mempool' = mempool \ {tx}
    BY <1>3, AcceptedKnown
  <2>3. /\ Created' = Created \cup OutputsOf(tx)
        /\ Consumed' = Consumed \cup tx.ins
        /\ Utxo' = (Utxo \ tx.ins) \cup OutputsOf(tx)
        /\ tx.ins \subseteq Utxo
    BY <1>3, <2>1, AcceptedCoins
  <2>4. \A u \in mempool' : u.ins \subseteq Utxo'
    <3> SUFFICES ASSUME NEW u \in mempool' PROVE u.ins \subseteq Utxo'
      OBVIOUS
    <3>1. u \in mempool /\ u # tx
      BY <2>2
    <3>2. u.ins \subseteq Utxo /\ u.ins \cap tx.ins = {}
      BY <2>1, <3>1 DEF NodeInv, NoDoubleSpend, Known
    <3> QED
      BY <2>3, <3>2
  <2>5. Consumed' \subseteq Created'
    BY <2>3 DEF NodeInv, Utxo
  <2>6. mempool' \cap chain' = {} /\ \A ch \in Channels : FundTx(ch) \in chain'
    BY <2>2 DEF NodeInv
  <2>7. \A ch \in Channels : FundTx(ch)' = FundTx(ch)
    BY DEF FundTx
  <2> QED
    BY <2>4, <2>5, <2>6, <2>7 DEF NodeInv
<1> QED
  BY <1>1, <1>2, <1>3, NodeCases

-----------------------------------------------------------------------------
(* What the node knows of the facilitator's transactions.                  *)

LEMMA MoneyInit == Init => MoneyInv
<1> SUFFICES ASSUME Init PROVE MoneyInv
  OBVIOUS
<1>1. /\ mempool = {} /\ Known = chain
      /\ \A tx \in chain : (\E ch \in Channels : tx = FundTx(ch)) \/ tx = FloatTx
      /\ \A ch \in Channels : FundTx(ch) \in chain
      /\ \A h \in Handlers : pc[h] = "idle"
  BY DEF Init, Known
<1>2. \A ch \in Channels : FundTx(ch).id[1] = "fund" /\ FundTx(ch).ins = {}
  BY DEF FundTx
<1>3. FloatTx.id[1] = "float" /\ FloatTx.ins = {} /\ WalletOnly(FloatTx)
  BY WalletIsNoChannel DEF FloatTx, WalletOnly, Pay
<1>4. WalletDrafts
  BY <1>1, HandlerKinds
  DEF WalletDrafts, Awaits, ConfirmPoints, ForwardPoints, SweepPoints
<1>5. Kinds /\ ForwardsBacked
  BY <1>1, <1>2, <1>3 DEF Kinds, ForwardsBacked
<1>6. NodeInv
  <2>1. Consumed = {}
    BY <1>1, <1>2, <1>3 DEF Consumed
  <2> QED
    BY <1>1, <2>1 DEF NodeInv
<1>7. Moves = {}
  BY <1>1, <1>2, <1>3 DEF Moves
<1> QED
  BY <1>4, <1>5, <1>6, <1>7, FS_EmptySet DEF MoneyInv

\* What the contract accepts the channel affords.
LEMMA AcceptedIsAffordable ==
    ASSUME TypeInv, NEW r \in Settles, pc[r] = "submit", Settlement(r, draft[r]),
           NodeAccepts(draft[r], SigsOf(r, draft[r]))
    PROVE  \A coin \in draft[r].ins : Affordable(coin.amount, req[r].required.amount)
<1>0. req[r] \in Bodies /\ req[r].required.amount \in Nat
  BY HandlerKinds, FacilitatorAssumption DEF TypeInv, Control, Awaits, Bodies, Terms
<1>1. PICK coin \in Created : /\ draft[r].ins = {coin}
                              /\ coin.address = ChannelAddress(req[r].params)
  BY <1>0, SettlementOutputs
<1>2. draft[r].outs[1] = Pay(SigningAddress, req[r].required.amount)
  BY <1>0, SettlementOutputs
<1>3. IsChannelAddress(coin.address) /\ Unlocks(coin, draft[r], SigsOf(r, draft[r]))
  BY <1>1 DEF NodeAccepts, ChannelAddress, IsChannelAddress
<1>4. SettleValid(coin.address.params, coin.amount, draft[r].outs)
  BY <1>3 DEF Unlocks, SettleAccepts
<1>5. req[r].required.amount + Fee <= coin.amount
  BY <1>2, <1>4 DEF SettleValid, Pay
<1>6. coin.amount \in Nat
  BY CreatedTyped DEF TypeInv, TypeOK, Coins
<1> QED
  BY <1>0, <1>1, <1>5, <1>6, FeeAssumption DEF Affordable

LEMMA MoneyStep ==
    ASSUME TypeInv, SettleInv, MoneyInv, [Next]_vars
    PROVE  MoneyInv'
<1> USE HandlerKinds
<1>0. /\ DraftSettles /\ UniqueIds /\ Fresh /\ Backed /\ SettledAsSigned
      /\ WalletDrafts /\ Kinds /\ ForwardsBacked
      /\ NodeInv /\ IsFiniteSet(Moves)
  BY DEF SettleInv, MoneyInv
<1>1. \A g \in Handlers : Advances(g) /\ Drafts(g)
  BY StepSummary, DraftsStep
<1>2. \A r \in Settles : pc[r] # "idle" => req'[r] = req[r]
  BY <1>1 DEF Advances
<1>4. ASSUME NEW h \in Handlers, pc[h] = "forwardSubmit" \/ pc'[h] = "forwardSubmit"
      PROVE  h \in Settles
  <2>1. h \in Settles \/ (pc[h] # "forwardSubmit")
    BY DEF TypeInv, Control, SweepPoints
  <2>2. Control'
    BY TypeStep DEF TypeInv
  <2> QED
    BY <1>4, <2>1, <2>2 DEF Control, SweepPoints
<1>5. WalletDrafts'
  <2> SUFFICES ASSUME NEW h \in Handlers, pc'[h] \in WalletSubmits
               PROVE  /\ WalletOnly(draft'[h])
                      /\ pc'[h] = "forwardSubmit" => Forwards(h, draft[h])'
    BY DEF WalletDrafts, WalletSubmits
  <2>1. pc'[h] \in Awaits
    BY DEF WalletSubmits, Awaits, ForwardPoints, SweepPoints
  <2>2. CASE Rests(h)
    BY <1>0, <1>4, <2>1, <2>2 DEF Rests, WalletDrafts, WalletSubmits, Forwards
  <2>3. CASE Proceeds(h)
    BY <1>4, <2>3 DEF Proceeds, Forwards
  <2> QED
    BY <1>1, <2>2, <2>3 DEF Drafts, Begins
<1>6. ASSUME NEW tx, NEW r \in Settles, Payment(r, tx), pc[r] # "idle"
      PROVE  Payment(r, tx)'
  BY <1>2, <1>6 DEF Payment, HasId
<1>7. ASSUME NEW tx \in Known, NEW r \in Settles, tx.id = << "settle", r >>
      PROVE  pc[r] # "idle"
  BY <1>0, <1>7 DEF Fresh
<1>8. ASSUME NEW tx \in Known, NEW r \in Settles, tx.id = << "forward", r >>
      PROVE  pc[r] # "idle"
  BY <1>0, <1>8 DEF Fresh
<1>9. \A ch \in Channels : FundTx(ch)' = FundTx(ch)
  BY DEF FundTx
<1>10. ASSUME NEW tx \in Known
       PROVE  /\ \/ \E ch \in Channels : tx = FundTx(ch)'
                 \/ \E r \in Settles : Payment(r, tx)'
                 \/ WalletOnly(tx)
              /\ tx.id[1] = "forward" =>
                    \E r \in Settles : /\ tx.id = << "forward", r >>
                                       /\ Forwards(r, tx)'
                                       /\ \E t \in Known : HasId(t, "settle", r)
  <2>1. \/ \E ch \in Channels : tx = FundTx(ch)'
        \/ \E r \in Settles : Payment(r, tx)'
        \/ WalletOnly(tx)
    BY <1>0, <1>6, <1>7, <1>9 DEF Kinds, Payment, HasId
  <2>2. ASSUME tx.id[1] = "forward"
        PROVE  \E r \in Settles : /\ tx.id = << "forward", r >>
                                  /\ Forwards(r, tx)'
                                  /\ \E t \in Known : HasId(t, "settle", r)
    <3>1. PICK r \in Settles : /\ tx.id = << "forward", r >>
                               /\ Forwards(r, tx)
                               /\ \E t \in Known : HasId(t, "settle", r)
      BY <1>0, <2>2 DEF ForwardsBacked
    <3>2. Forwards(r, tx)'
      BY <1>2, <1>8, <3>1 DEF Forwards
    <3> QED
      BY <3>1, <3>2
  <2> QED
    BY <2>1, <2>2
<1>11. ASSUME NEW h \in Handlers, Submittable(h), NEW tx, tx = draft[h]
       PROVE  /\ \/ \E r \in Settles : Payment(r, tx)'
                 \/ WalletOnly(tx)
              /\ tx.id[1] = "forward" =>
                    \E r \in Settles : /\ tx.id = << "forward", r >>
                                       /\ Forwards(r, tx)'
                                       /\ \E t \in Known : HasId(t, "settle", r)
  <2>1. pc[h] \in SubmitPoints /\ NodeAccepts(draft[h], SigsOf(h, draft[h]))
    BY <1>11 DEF Submittable
  <2>2. tx.id = << KindAt(pc[h]), h >>
    BY <1>11, <2>1 DEF TypeInv, DraftOwned
  <2>3. CASE pc[h] = "submit"
    <3>1. h \in Settles
      BY <2>3 DEF TypeInv, Control, SweepPoints
    <3>2. tx.id = << "settle", h >>
      BY <2>2, <2>3 DEF KindAt
    <3>4. \A coin \in tx.ins : Affordable(coin.amount, req[h].required.amount)
      BY <1>0, <1>11, <2>1, <2>3, <3>1, AcceptedIsAffordable DEF DraftSettles
    <3>5. Payment(h, tx)
      BY <3>2, <3>4 DEF Payment, HasId
    <3>6. Payment(h, tx)'
      BY <1>6, <2>3, <3>1, <3>5
    <3> QED
      BY <3>1, <3>2, <3>6
  <2>4. CASE pc[h] = "forwardSubmit"
    <3>1. h \in Settles
      BY <1>4, <2>4
    <3>2. tx.id = << "forward", h >>
      BY <2>2, <2>4 DEF KindAt
    <3>3. WalletOnly(tx) /\ Forwards(h, tx)
      BY <1>0, <1>11, <2>4 DEF WalletDrafts
    <3>4. req'[h] = req[h]
      BY <1>2, <2>4, <3>1
    <3>5. \E t \in Known : HasId(t, "settle", h)
      BY <1>0, <2>4, <3>1 DEF Backed, ForwardPoints
    <3>6. Forwards(h, tx)'
      BY <3>3, <3>4 DEF Forwards
    <3> QED
      BY <3>1, <3>2, <3>3, <3>5, <3>6
  <2>5. CASE pc[h] = "sweepSubmit"
    <3>1. tx.id = << "sweep", h >>
      BY <2>2, <2>5 DEF KindAt
    <3> QED
      BY <1>0, <1>11, <2>5, <3>1 DEF WalletDrafts
  <2> QED
    BY <2>1, <2>3, <2>4, <2>5 DEF SubmitPoints
\* Each known transaction, old or new, is of a kind and backed.
<1>12. ASSUME NEW tx \in Known'
       PROVE  /\ \/ \E ch \in Channels : tx = FundTx(ch)'
                 \/ \E r \in Settles : Payment(r, tx)'
                 \/ WalletOnly(tx)
              /\ tx.id[1] = "forward" =>
                    \E r \in Settles : /\ tx.id = << "forward", r >>
                                       /\ Forwards(r, tx)'
                                       /\ \E t \in Known : HasId(t, "settle", r)
  <2>1. tx \in Known \/ \E h \in Handlers : Submittable(h) /\ tx = draft[h]
    BY NodeCases, AcceptedKnown, SubmittedKnown DEF node, Known, Submitted
  <2>2. CASE tx \in Known
    BY <1>10, <2>2
  <2>3. ASSUME NEW h \in Handlers, Submittable(h), tx = draft[h]
        PROVE  /\ \/ \E r \in Settles : Payment(r, tx)'
                  \/ WalletOnly(tx)
               /\ tx.id[1] = "forward" =>
                     \E r \in Settles : /\ tx.id = << "forward", r >>
                                        /\ Forwards(r, tx)'
                                        /\ \E t \in Known : HasId(t, "settle", r)
    BY <1>11, <2>3
  <2> QED
    BY <2>1, <2>2, <2>3
<1>13. /\ Known \subseteq Known'
       /\ \/ Known' = Known
          \/ \E S : IsFiniteSet(S) /\ Known' = Known \cup { draft[h] : h \in S }
  BY NodeCases, AcceptedKnown, SubmittedKnown DEF node, Known, Submitted
<1>14. Kinds'
  BY <1>12 DEF Kinds
<1>15. ForwardsBacked'
  BY <1>12, <1>13 DEF ForwardsBacked, HasId
<1>16. IsFiniteSet(Moves')
  <2>1. CASE Known' = Known
    BY <1>0, <2>1 DEF Moves
  <2>2. ASSUME NEW S, IsFiniteSet(S), Known' = Known \cup { draft[h] : h \in S }
        PROVE  IsFiniteSet(Moves')
    <3> DEFINE f == [h \in S |-> draft[h]]
               sent == { f[h] : h \in S }
    <3>1. IsFiniteSet(sent)
      <4>1. f \in [S -> sent] /\ \A tx \in sent : \E h \in S : f[h] = tx
        OBVIOUS
      <4>2. f \in Surjection(S, sent)
        BY <4>1 DEF Surjection
      <4> QED
        BY <2>2, <4>2, FS_Surjection
    <3>2. Moves' \subseteq Moves \cup sent
      BY <2>2 DEF Moves
    <3>3. IsFiniteSet(Moves \cup sent)
      BY <1>0, <3>1, FS_Union
    <3> QED
      BY <3>2, <3>3, FS_Subset
  <2> QED
    BY <1>13, <2>1, <2>2
<1> QED
  BY <1>0, <1>5, <1>14, <1>15, <1>16, NodeInvStep DEF MoneyInv

LEMMA MoneyInvariant == SafetySpec => []MoneyInv
<1>1. TypeInv /\ SettleInv /\ MoneyInv /\ [Next]_vars => MoneyInv'
  BY MoneyStep
<1> QED
  BY <1>1, MoneyInit, TypeCorrect, SettleCorrect, PTL DEF SafetySpec

-----------------------------------------------------------------------------
(* The two sums of the properties.                                         *)

\* What the coins of a finite set are worth.
LEMMA TotalIsSum ==
    ASSUME NEW S, IsFiniteSet(S)
    PROVE  Total(S) = SumOver([coin \in S |-> coin.amount], S)
<1> DEFINE w == [coin \in S |-> coin.amount]
           Iterates(iter) ==
              iter = [s \in SUBSET S |->
                        IF s = {} THEN 0
                        ELSE First(s).amount
                                + iter[s \ {First(s)}]]
           total == CHOOSE iter : Iterates(iter)
<1>1. ASSUME NEW g PROVE IsSum(g, w, S) <=> Iterates(g)
  <2>1. \A s \in SUBSET S : s # {} => w[First(s)]
                                           = First(s).amount
    BY ChosenIn
  <2>2. [s \in SUBSET S |->
            IF s = {} THEN 0
            ELSE w[First(s)] + g[s \ {First(s)}]]
        = [s \in SUBSET S |->
            IF s = {} THEN 0
            ELSE First(s).amount + g[s \ {First(s)}]]
    BY <2>1
  <2> QED
    BY <2>2 DEF IsSum
<1>2. Iterates(total)
  <2> HIDE DEF Iterates, w
  <2>1. \E g : Iterates(g)
    BY <1>1, SumExists
  <2> QED
    BY <2>1
<1>3. Total(S) = total[S]
  BY Zenon DEF Total, MapThenSumSet, MapThenFoldSet, First
<1>4. IsSum(total, w, S)
  BY <1>1, <1>2
<1> HIDE DEF total, w
<1> QED
  BY <1>3, <1>4, SumIsAny DEF w

\* What the transactions of a finite set pay.
LEMMA ReceivedIsSum ==
    ASSUME NEW S, IsFiniteSet(S)
    PROVE  Received(S) = SumOver([tx \in S |-> tx.outs[1].amount], S)
<1> DEFINE w == [tx \in S |-> tx.outs[1].amount]
           Iterates(iter) ==
              iter = [s \in SUBSET S |->
                        IF s = {} THEN 0
                        ELSE First(s).outs[1].amount
                                + iter[s \ {First(s)}]]
           total == CHOOSE iter : Iterates(iter)
<1>1. ASSUME NEW g PROVE IsSum(g, w, S) <=> Iterates(g)
  <2>1. \A s \in SUBSET S : s # {} => w[First(s)]
                                           = First(s).outs[1].amount
    BY ChosenIn
  <2>2. [s \in SUBSET S |->
            IF s = {} THEN 0
            ELSE w[First(s)] + g[s \ {First(s)}]]
        = [s \in SUBSET S |->
            IF s = {} THEN 0
            ELSE First(s).outs[1].amount
                    + g[s \ {First(s)}]]
    BY <2>1
  <2> QED
    BY <2>2 DEF IsSum
<1>2. Iterates(total)
  <2> HIDE DEF Iterates, w
  <2>1. \E g : Iterates(g)
    BY <1>1, SumExists
  <2> QED
    BY <2>1
<1>3. Received(S) = total[S]
  BY Zenon DEF Received, MapThenSumSet, MapThenFoldSet, First
<1>4. IsSum(total, w, S)
  BY <1>1, <1>2
<1> HIDE DEF total, w
<1> QED
  BY <1>3, <1>4, SumIsAny DEF w

LEMMA TotalSmall ==
    /\ Total({}) = 0
    /\ \A coin : coin.amount \in Nat => Total({coin}) = coin.amount
<1>1. Total({}) = 0
  BY TotalIsSum, FS_EmptySet, SumEmpty
<1>2. ASSUME NEW coin, coin.amount \in Nat PROVE Total({coin}) = coin.amount
  <2> DEFINE w == [c \in {coin} |-> c.amount]
  <2>1. w[coin] = coin.amount
    OBVIOUS
  <2>2. Total({coin}) = SumOver(w, {coin})
    BY TotalIsSum, FS_Singleton
  <2> HIDE DEF w
  <2> QED
    BY <1>2, <2>1, <2>2, SumSingleton
<1> QED
  BY <1>1, <1>2

LEMMA ReceivedEmpty == Received({}) = 0
  BY ReceivedIsSum, FS_EmptySet, SumEmpty

LEMMA ReceivedOneMore ==
    ASSUME NEW S, IsFiniteSet(S), NEW tx, tx \notin S,
           \A t \in S \cup {tx} : t.outs[1].amount \in Nat
    PROVE  Received(S \cup {tx}) = Received(S) + tx.outs[1].amount
<1> DEFINE R == S \cup {tx}
           v == [t \in S |-> t.outs[1].amount]
           w == [t \in R |-> t.outs[1].amount]
<1>1. IsFiniteSet(R)
  BY FS_AddElement
<1>2. Received(S) = SumOver(v, S) /\ Received(R) = SumOver(w, R)
  BY <1>1, ReceivedIsSum
<1>3. \A t \in S : v[t] = w[t]
  OBVIOUS
<1>4. w[tx] = tx.outs[1].amount /\ \A t \in R : w[t] \in Nat
  OBVIOUS
<1> HIDE DEF v, w
<1>5. SumOver(v, S) = SumOver(w, S)
  BY <1>3, SumSameWeights
<1>6. SumOver(w, R) = SumOver(w, S) + w[tx]
  BY <1>4, SumAdd
<1> QED
  BY <1>2, <1>4, <1>5, <1>6

-----------------------------------------------------------------------------
(* What a settle takes from its channel and what it leaves there.          *)

ChannelOutputs(tx) == { coin \in OutputsOf(tx) : IsChannelAddress(coin.address) }

\* The change of a settle is the one channel coin it creates, under the next
\* nonce, if it is worth more than the fee; otherwise there is none.
LEMMA SettleShape ==
    ASSUME TypeInv, NEW r \in Settles, req[r] \in Bodies, NEW tx, Settlement(r, tx)
    PROVE  \E coin \in Created :
             /\ tx.ins = {coin} /\ coin \in Coins
             /\ coin.outpoint = req[r].outpoint
             /\ coin.address = ChannelAddress(req[r].params)
             /\ LET rest == coin.amount - req[r].required.amount - Fee
                IN  IF rest > Fee
                    THEN /\ ChannelOutputs(tx) = {Coin(tx, 2)}
                         /\ Coin(tx, 2).amount = rest
                         /\ Coin(tx, 2).address = ChannelAddress(NextParams(req[r].params))
                    ELSE ChannelOutputs(tx) = {}
<1>1. PICK coin \in Created :
         /\ tx = SettleTx(r, coin)
         /\ coin.outpoint = req[r].outpoint
         /\ coin.address = ChannelAddress(req[r].params)
  BY DEF Settlement
<1>2. coin \in Coins
  BY CreatedTyped DEF TypeInv, TypeOK
<1> DEFINE rest == coin.amount - req[r].required.amount - Fee
           next == ChannelAddress(NextParams(req[r].params))
           price == req[r].required.amount
<1>3. /\ tx.ins = {coin}
      /\ tx.outs = IF rest > Fee THEN << Pay(SigningAddress, price), Pay(next, rest) >>
                   ELSE << Pay(SigningAddress, price) >>
  BY <1>1 DEF SettleTx, FacilitatorOutputs
<1>4. ~ IsChannelAddress(SigningAddress) /\ IsChannelAddress(next)
  BY WalletIsNoChannel DEF ChannelAddress, IsChannelAddress
<1>5. ~ IsChannelAddress(Coin(tx, 1).address)
  BY <1>3, <1>4 DEF Coin, Pay
<1>6. ASSUME rest > Fee
      PROVE  /\ ChannelOutputs(tx) = {Coin(tx, 2)}
             /\ Coin(tx, 2).amount = rest /\ Coin(tx, 2).address = next
  <2>1. tx.outs = << Pay(SigningAddress, price), Pay(next, rest) >>
    BY <1>3, <1>6
  <2>2. DOMAIN tx.outs = {1, 2}
    BY <2>1
  <2>3. Coin(tx, 2).amount = rest /\ Coin(tx, 2).address = next
    BY <2>1 DEF Coin, Pay
  <2>4. OutputsOf(tx) = {Coin(tx, 1), Coin(tx, 2)}
    BY <2>2 DEF OutputsOf
  <2> QED
    BY <1>4, <1>5, <2>3, <2>4 DEF ChannelOutputs
<1>7. ASSUME ~ (rest > Fee)
      PROVE  ChannelOutputs(tx) = {}
  <2>1. DOMAIN tx.outs = {1}
    BY <1>3, <1>7
  <2>2. OutputsOf(tx) = {Coin(tx, 1)}
    BY <2>1 DEF OutputsOf
  <2> QED
    BY <1>5, <2>2 DEF ChannelOutputs
<1> QED
  BY <1>1, <1>2, <1>3, <1>6, <1>7

\* A client loses, of a coin it has signed away, the price it signed for and
\* two fees at most.
LEMMA ConsentFollows ==
    ASSUME TypeInv, SettleInv, MoneyInv
    PROVE  ClientConsents
<1> SUFFICES ASSUME NEW tx \in Known, NEW coin \in tx.ins, IsChannelAddress(coin.address)
             PROVE  \E r \in Settles :
                      /\ HasId(tx, "settle", r)
                      /\ req[r].sig = Sign(coin.address.params.client, coin.outpoint, tx.outs)
                      /\ coin.amount - Total(ChannelOutputs(tx))
                            <= req[r].sig.outputs[1].amount + 2 * Fee
  BY DEF ClientConsents, ChannelOutputs
<1>1. PICK r \in Settles : Payment(r, tx)
  BY DEF MoneyInv, Kinds, WalletOnly, FundTx
<1>2. /\ req[r] \in Bodies /\ Settlement(r, tx) /\ HasId(tx, "settle", r)
      /\ req[r].sig = Sign(req[r].params.client, req[r].outpoint, tx.outs)
  BY <1>1 DEF SettleInv, SettledAsSigned, Payment
<1>3. /\ coin \in Coins
      /\ coin.outpoint = req[r].outpoint
      /\ coin.address = ChannelAddress(req[r].params)
      /\ LET rest == coin.amount - req[r].required.amount - Fee
         IN  IF rest > Fee
             THEN ChannelOutputs(tx) = {Coin(tx, 2)} /\ Coin(tx, 2).amount = rest
             ELSE ChannelOutputs(tx) = {}
  BY <1>2, SettleShape
<1>4. /\ req[r].sig.outputs[1].amount = req[r].required.amount
      /\ req[r].required.amount \in Nat
  <2>1. tx.outs[1] = Pay(SigningAddress, req[r].required.amount)
    BY <1>2, SettlementOutputs
  <2>2. req[r].required.amount \in Nat
    BY <1>2, FacilitatorAssumption DEF Bodies, Terms
  <2> QED
    BY <1>2, <2>1, <2>2 DEF Sign, Pay
<1>5. coin.amount \in Nat /\ Fee \in Nat
  BY <1>3, FeeAssumption DEF Coins
<1>6. coin.amount - Total(ChannelOutputs(tx)) <= req[r].sig.outputs[1].amount + 2 * Fee
  <2> DEFINE rest == coin.amount - req[r].required.amount - Fee
  <2>1. CASE rest > Fee
    <3>1. ChannelOutputs(tx) = {Coin(tx, 2)} /\ Coin(tx, 2).amount = rest
      BY <1>3, <2>1
    <3>2. rest \in Nat
      BY <1>4, <1>5, <2>1
    <3>3. Total(ChannelOutputs(tx)) = rest
      BY <3>1, <3>2, TotalSmall
    <3> QED
      BY <1>4, <1>5, <3>3
  <2>2. CASE ~ (rest > Fee)
    <3>1. Total(ChannelOutputs(tx)) = 0
      BY <1>3, <2>2, TotalSmall
    <3> QED
      BY <1>4, <1>5, <2>2, <3>1
  <2> QED
    BY <2>1, <2>2
<1> QED
  BY <1>2, <1>3, <1>6 DEF ChannelAddress

\* The theorem behind the scheme's promise to clients: in every reachable
\* state, whatever left a channel its client had signed away.
THEOREM ConsentCorrect == SafetySpec => []ClientConsents
  BY ConsentFollows, TypeCorrect, SettleCorrect, MoneyInvariant, PTL

-----------------------------------------------------------------------------
(* Merchants.                                                              *)

\* Each forward has a settle of the same price and the same payee, its own.
LEMMA ForwardsAreSettled ==
    ASSUME TypeInv, SettleInv, MoneyInv
    PROVE  MerchantsNotOverpaid
<1> SUFFICES ASSUME NEW m \in Merchants
             PROVE  Received({ tx \in Known : tx.id[1] = "forward"
                                     /\ tx.outs[1].address = WalletAddress(m) })
                    <= Received({ tx \in Known : tx.id[1] = "settle"
                                     /\ req[tx.id[2]].required.payTo = m })
  BY DEF MerchantsNotOverpaid
<1> DEFINE S == { tx \in Known : tx.id[1] = "forward"
                                     /\ tx.outs[1].address = WalletAddress(m) }
           R == { tx \in Known : tx.id[1] = "settle"
                                     /\ req[tx.id[2]].required.payTo = m }
           w == [tx \in S |-> tx.outs[1].amount]
           v == [tx \in R |-> tx.outs[1].amount]
           f == [tx \in S |-> CHOOSE t \in Known : t.id = << "settle", tx.id[2] >>]
<1>0. /\ UniqueIds /\ SettledAsSigned
      /\ ForwardsBacked /\ IsFiniteSet(Moves)
  BY DEF SettleInv, MoneyInv
<1>1. IsFiniteSet(S) /\ IsFiniteSet(R)
  <2>1. S \subseteq Moves /\ R \subseteq Moves
    BY DEF Moves
  <2> QED
    BY <1>0, <2>1, FS_Subset
<1>2. ASSUME NEW tx \in Known, NEW r \in Settles, tx.id = << "settle", r >>
      PROVE  /\ tx.outs[1].amount = req[r].required.amount
             /\ req[r].required.amount \in Nat
  <2>1. req[r] \in Bodies /\ Settlement(r, tx)
    BY <1>0, <1>2 DEF SettledAsSigned, HasId
  <2>2. tx.outs[1] = Pay(SigningAddress, req[r].required.amount)
    BY <2>1, SettlementOutputs
  <2>3. req[r].required.amount \in Nat
    BY <2>1, FacilitatorAssumption DEF Bodies, Terms
  <2> QED
    BY <2>2, <2>3 DEF Pay
<1>3. ASSUME NEW tx \in S
      PROVE  \E r \in Settles :
                /\ tx.id = << "forward", r >>
                /\ f[tx] \in Known /\ f[tx].id = << "settle", r >>
                /\ req[r].required.payTo = m
                /\ tx.outs[1].amount = req[r].required.amount
  <2>1. PICK r \in Settles :
           /\ tx.id = << "forward", r >>
           /\ Forwards(r, tx)
           /\ \E settled \in Known : HasId(settled, "settle", r)
    BY <1>0 DEF ForwardsBacked
  <2>2. /\ tx.outs[1].amount = req[r].required.amount
        /\ tx.outs[1].address = WalletAddress(req[r].required.payTo)
    BY <2>1 DEF Forwards, Pay
  <2>3. req[r].required.payTo = m
    BY <2>2 DEF WalletAddress
  <2>4. \E t \in Known : t.id = << "settle", tx.id[2] >>
    BY <2>1 DEF HasId
  <2>5. f[tx] \in Known /\ f[tx].id = << "settle", tx.id[2] >>
    BY <2>4
  <2> HIDE DEF f
  <2>6. tx.id[2] = r
    BY <2>1
  <2> QED
    BY <2>1, <2>2, <2>3, <2>5, <2>6
<1>4. ASSUME NEW tx \in S
      PROVE  f[tx] \in R /\ v[f[tx]] = w[tx] /\ w[tx] \in Nat
  <2>1. PICK r \in Settles :
           /\ tx.id = << "forward", r >>
           /\ f[tx] \in Known /\ f[tx].id = << "settle", r >>
           /\ req[r].required.payTo = m
           /\ tx.outs[1].amount = req[r].required.amount
    BY <1>3
  <2>2. /\ f[tx].outs[1].amount = req[r].required.amount
        /\ req[r].required.amount \in Nat
    <3> HIDE DEF f, S
    <3> QED
      BY <1>2, <2>1
  <2>3. f[tx] \in R
    <3> HIDE DEF f, S
    <3> QED
      BY <2>1
  <2>4. w[tx] = tx.outs[1].amount
    OBVIOUS
  <2>5. v[f[tx]] = f[tx].outs[1].amount
    <3> HIDE DEF f, R
    <3> QED
      BY <2>3
  <2> HIDE DEF f, v, w, R, S
  <2> QED
    BY <2>1, <2>2, <2>3, <2>4, <2>5
<1>5. ASSUME NEW x \in S, NEW y \in S, f[x] = f[y]
      PROVE  x = y
  <2>1. x.id = y.id
    <3> HIDE DEF f, S
    <3> QED
      BY <1>3, <1>5
  <2> QED
    BY <1>0, <2>1 DEF UniqueIds
<1>6. \A tx \in R : v[tx] \in Nat
  <2> SUFFICES ASSUME NEW tx \in R PROVE v[tx] \in Nat
    OBVIOUS
  <2>1. tx \in Known /\ tx.id[1] = "settle"
    OBVIOUS
  <2>2. tx.id \in TxIds
    BY <2>1 DEF TypeInv, TypeOK, Known, Txs
  <2>3. PICK r \in Settles : tx.id = << "settle", r >>
    BY <2>1, <2>2 DEF TxIds
  <2> QED
    BY <1>2, <2>3
<1> HIDE DEF S, R, f, v, w
<1>7. SumOver(w, S) <= SumOver(v, R)
  BY <1>1, <1>4, <1>5, <1>6, SumInjects
<1>8. Received(S) = SumOver(w, S) /\ Received(R) = SumOver(v, R)
  BY <1>1, ReceivedIsSum DEF v, w
<1> QED
  BY <1>7, <1>8 DEF S, R

\* The theorem behind forwardToMerchant's use of one wallet for all merchants:
\* no merchant is ever paid with another one's money.
THEOREM MerchantsCorrect == SafetySpec => []MerchantsNotOverpaid
  BY ForwardsAreSettled, TypeCorrect, SettleCorrect, MoneyInvariant, PTL

-----------------------------------------------------------------------------
(* Channels.                                                               *)

\* The chain's view of a channel.
Still(ch) == LiveCoins(ch)' = LiveCoins(ch) /\ SettlesOf(ch)' = SettlesOf(ch)

\* A settle of channel ch: its coin goes, the rest comes back as one coin
\* under the next nonce or goes to the miner.
Settling(ch, tx, coin, price) ==
    LET rest == coin.amount - price - Fee
    IN  /\ tx \notin chain /\ tx.outs[1].amount = price
        /\ price \in Nat /\ price > 0
        /\ coin \in Coins /\ coin \in LiveCoins(ch)
        /\ Affordable(coin.amount, price)
        /\ SettlesOf(ch)' = SettlesOf(ch) \cup {tx}
        /\ IF rest > Fee
           THEN \E next : /\ LiveCoins(ch)' = {next} \cup (LiveCoins(ch) \ {coin})
                          /\ next.amount = rest
                          /\ next.address.params.nonce = coin.address.params.nonce + 1
           ELSE LiveCoins(ch)' = LiveCoins(ch) \ {coin}

LEMMA WalletStill ==
    ASSUME SettleInv, MoneyInv, NEW tx \in mempool, Accept(tx), WalletOnly(tx)
    PROVE  /\ \A ch \in Channels : Still(ch)
           /\ \A coin \in Created' : IsChannelAddress(coin.address) => coin \in Created
<1>1. /\ Created' = Created \cup OutputsOf(tx)
      /\ Utxo' = (Utxo \ tx.ins) \cup OutputsOf(tx)
  BY AcceptedCoins DEF SettleInv, MoneyInv
<1>2. chain' = chain \cup {tx}
  BY AcceptedKnown
<1>3. /\ \A coin \in tx.ins : ~ IsChannelAddress(coin.address)
      /\ \A coin \in OutputsOf(tx) : ~ IsChannelAddress(coin.address)
  BY DEF WalletOnly, OutputsOf, Coin
<1>4. ASSUME NEW ch PROVE Still(ch)
  <2>1. LiveCoins(ch)' = LiveCoins(ch)
    BY <1>1, <1>3 DEF LiveCoins, CoinsOfChannel
  <2>2. CoinsOfChannel(tx.ins, ch) = {}
    BY <1>3 DEF CoinsOfChannel
  <2>3. SettlesOf(ch)' = SettlesOf(ch)
    BY <1>2, <2>2 DEF SettlesOf
  <2> QED
    BY <2>1, <2>3 DEF Still
<1> QED
  BY <1>1, <1>3, <1>4

\* The channel of a coin that is settled, and of what comes back.
LEMMA SettleMoves ==
    ASSUME TypeInv, SettleInv, MoneyInv, ChannelsKnown,
           NEW tx \in mempool, Accept(tx), NEW r \in Settles, Payment(r, tx)
    PROVE  \E ch \in Channels :
             /\ \E coin, price : Settling(ch, tx, coin, price)
             /\ \A other \in Channels : other # ch => Still(other)
             /\ \A coin \in Created' : IsChannelAddress(coin.address) =>
                   coin \in Created \/ ChannelOf(coin) = ch
<1>1. tx \in Known /\ req[r] \in Bodies /\ Settlement(r, tx)
  BY DEF SettleInv, SettledAsSigned, Payment, Known
<1>0. PICK price, params, ch : /\ price = req[r].required.amount
                               /\ params = req[r].params
                               /\ ch = [params EXCEPT !.nonce = 0]
  OBVIOUS
<1> DEFINE next == Coin(tx, 2)
<1>2. PICK coin \in Created :
             /\ tx.ins = {coin} /\ coin \in Coins
             /\ coin.address = ChannelAddress(params)
             /\ LET rest == coin.amount - price - Fee
                IN  IF rest > Fee
                    THEN /\ ChannelOutputs(tx) = {next}
                         /\ next.amount = rest
                         /\ next.address = ChannelAddress(NextParams(params))
                    ELSE ChannelOutputs(tx) = {}
  BY <1>0, <1>1, SettleShape
<1> DEFINE rest == coin.amount - price - Fee
<1>3. /\ Created' = Created \cup OutputsOf(tx)
      /\ Utxo' = (Utxo \ {coin}) \cup OutputsOf(tx)
      /\ coin \in Utxo
      /\ chain' = chain \cup {tx} /\ tx \notin chain
  BY <1>2, AcceptedCoins, AcceptedKnown DEF SettleInv, MoneyInv, NodeInv
<1>4. /\ params \in ChannelParams /\ params.nonce \in Nat
      /\ price \in Nat /\ price > 0
  <2>1. params \in ChannelParams /\ price \in Amounts
    BY <1>0, <1>1 DEF Bodies, Terms
  <2> QED
    BY <2>1, FacilitatorAssumption DEF ChannelParams
<1>5. /\ IsChannelAddress(coin.address) /\ ChannelOf(coin) = ch
      /\ coin.address.params = params /\ ch \in Channels
  BY <1>0, <1>2 DEF ChannelAddress, IsChannelAddress, ChannelOf, ChannelsKnown
<1>6. ASSUME rest > Fee
      PROVE  /\ IsChannelAddress(next.address) /\ ChannelOf(next) = ch
             /\ next.amount = rest
             /\ next.address.params.nonce = coin.address.params.nonce + 1
             /\ ChannelOutputs(tx) = {next}
  <2>1. next.address = ChannelAddress(NextParams(params))
    BY <1>2, <1>6
  <2>2. next.address.params = NextParams(params) /\ IsChannelAddress(next.address)
    BY <2>1 DEF ChannelAddress, IsChannelAddress
  <2>3. [NextParams(params) EXCEPT !.nonce = 0] = ch
    BY <1>0, <1>4 DEF NextParams, ChannelParams
  <2>4. NextParams(params).nonce = params.nonce + 1
    BY <1>0, <1>4 DEF NextParams, ChannelParams
  <2> QED
    BY <1>2, <1>5, <1>6, <2>2, <2>3, <2>4 DEF ChannelOf
<1> HIDE DEF next, rest
<1>7. \A c \in ChannelOutputs(tx) : IsChannelAddress(c.address) /\ ChannelOf(c) = ch
  BY <1>2, <1>6 DEF rest, next
<1>8. ASSUME NEW other
      PROVE  /\ CoinsOfChannel(tx.ins, other) = IF other = ch THEN {coin} ELSE {}
             /\ CoinsOfChannel(OutputsOf(tx), other)
                   = IF other = ch THEN ChannelOutputs(tx) ELSE {}
  <2>1. CoinsOfChannel(tx.ins, other) = IF other = ch THEN {coin} ELSE {}
    BY <1>2, <1>5 DEF CoinsOfChannel
  <2>2. CoinsOfChannel(OutputsOf(tx), other)
           = IF other = ch THEN ChannelOutputs(tx) ELSE {}
    BY <1>7 DEF CoinsOfChannel, ChannelOutputs
  <2> QED
    BY <2>1, <2>2
<1>9. ASSUME NEW other
      PROVE  /\ LiveCoins(other)' = (LiveCoins(other) \ {coin})
                                       \cup CoinsOfChannel(OutputsOf(tx), other)
             /\ SettlesOf(other)' = IF CoinsOfChannel(tx.ins, other) # {}
                                    THEN SettlesOf(other) \cup {tx} ELSE SettlesOf(other)
  <2>1. LiveCoins(other)' = (LiveCoins(other) \ {coin})
                                       \cup CoinsOfChannel(OutputsOf(tx), other)
    BY <1>3 DEF LiveCoins, CoinsOfChannel
  <2>2. SettlesOf(other)' = IF CoinsOfChannel(tx.ins, other) # {}
                            THEN SettlesOf(other) \cup {tx} ELSE SettlesOf(other)
    BY <1>3 DEF SettlesOf, CoinsOfChannel
  <2> QED
    BY <2>1, <2>2
<1>10. ASSUME NEW other, other # ch PROVE Still(other)
  <2>1. coin \notin LiveCoins(other)
    BY <1>5, <1>10 DEF LiveCoins, CoinsOfChannel
  <2> QED
    BY <1>8, <1>9, <1>10, <2>1 DEF Still
<1>11. coin \in LiveCoins(ch)
  BY <1>3, <1>5 DEF LiveCoins, CoinsOfChannel
<1>12. tx.outs[1].amount = price
  <2>1. tx.outs[1] = Pay(SigningAddress, price)
    BY <1>0, <1>1, SettlementOutputs
  <2> QED
    BY <2>1 DEF Pay
<1>13. Affordable(coin.amount, price)
  BY <1>0, <1>2 DEF Payment
<1>14. /\ SettlesOf(ch)' = SettlesOf(ch) \cup {tx}
       /\ LiveCoins(ch)' = (LiveCoins(ch) \ {coin}) \cup ChannelOutputs(tx)
  BY <1>8, <1>9
<1>15. Settling(ch, tx, coin, price)
  <2>1. CASE rest > Fee
    <3>1. LiveCoins(ch)' = {next} \cup (LiveCoins(ch) \ {coin})
      BY <1>6, <1>14, <2>1
    <3> QED
      BY <1>2, <1>3, <1>4, <1>6, <1>11, <1>12, <1>13, <1>14, <2>1, <3>1
      DEF Settling, rest
  <2>2. CASE ~ (rest > Fee)
    <3>1. LiveCoins(ch)' = LiveCoins(ch) \ {coin}
      BY <1>2, <1>14, <2>2 DEF rest
    <3> QED
      BY <1>2, <1>3, <1>4, <1>11, <1>12, <1>13, <1>14, <2>2, <3>1
      DEF Settling, rest
  <2> QED
    BY <2>1, <2>2
<1>16. \A c \in Created' : IsChannelAddress(c.address) => c \in Created \/ ChannelOf(c) = ch
  BY <1>3, <1>7 DEF ChannelOutputs
<1> QED
  BY <1>5, <1>10, <1>15, <1>16

\* A step leaves every channel as it was or settles one of them.
LEMMA ChannelCases ==
    ASSUME TypeInv, SettleInv, MoneyInv, ChannelsKnown, [Next]_vars
    PROVE  /\ ChannelsKnown'
           /\ \/ \A ch \in Channels : Still(ch)
              \/ \E ch \in Channels :
                    /\ \E tx, coin, price : Settling(ch, tx, coin, price)
                    /\ \A other \in Channels : other # ch => Still(other)
<1> DEFINE Summary ==
       /\ ChannelsKnown'
       /\ \/ \A ch \in Channels : Still(ch)
          \/ \E ch \in Channels :
                /\ \E tx, coin, price : Settling(ch, tx, coin, price)
                /\ \A other \in Channels : other # ch => Still(other)
<1>1. ASSUME UNCHANGED chain
      PROVE  Summary
  <2>1. Created' = Created /\ Utxo' = Utxo
    BY <1>1 DEF Utxo, Created, Consumed
  <2>2. ASSUME NEW ch PROVE Still(ch)
    BY <1>1, <2>1 DEF Still, LiveCoins, SettlesOf
  <2> QED
    BY <2>1, <2>2 DEF ChannelsKnown
<1>2. ASSUME NEW tx \in mempool, Accept(tx)
      PROVE  Summary
  <2>1. ASSUME NEW ch \in Channels, tx = FundTx(ch)
        PROVE  FALSE
    BY <1>2, <2>1 DEF MoneyInv, NodeInv
  <2>2. CASE WalletOnly(tx)
    BY <1>2, <2>2, WalletStill DEF ChannelsKnown
  <2>3. ASSUME NEW r \in Settles, Payment(r, tx)
        PROVE  Summary
    <3>1. PICK ch \in Channels :
             /\ \E coin, price : Settling(ch, tx, coin, price)
             /\ \A other \in Channels : other # ch => Still(other)
             /\ \A coin \in Created' : IsChannelAddress(coin.address) =>
                   coin \in Created \/ ChannelOf(coin) = ch
      BY <1>2, <2>3, SettleMoves
    <3>2. ChannelsKnown'
      BY <3>1 DEF ChannelsKnown
    <3> QED
      BY <3>1, <3>2
  <2>4. tx \in Known
    BY DEF Known
  <2> QED
    BY <2>1, <2>2, <2>3, <2>4 DEF MoneyInv, Kinds
<1> QED
  BY <1>1, <1>2, NodeCases DEF node, Submitted

\* At first each channel is the coin it was opened with.
LEMMA OpenedChannels ==
    ASSUME Init
    PROVE  /\ ChannelsKnown
           /\ \A ch \in Channels : /\ SettlesOf(ch) = {}
                                   /\ LiveCoins(ch) = {Coin(FundTx(ch), 1)}
<1>1. chain = { FundTx(ch) : ch \in Channels } \cup (IF Float > 0 THEN {FloatTx} ELSE {})
  BY DEF Init
<1>2. ASSUME NEW ch \in Channels
      PROVE  /\ FundTx(ch).ins = {} /\ OutputsOf(FundTx(ch)) = {Coin(FundTx(ch), 1)}
             /\ IsChannelAddress(Coin(FundTx(ch), 1).address)
             /\ Coin(FundTx(ch), 1).address.params = ch
             /\ ChannelOf(Coin(FundTx(ch), 1)) = ch
  <2>1. /\ FundTx(ch).ins = {}
        /\ FundTx(ch).outs = << Pay(ChannelAddress(ch), Funding[ch]) >>
    BY DEF FundTx
  <2>2. DOMAIN FundTx(ch).outs = {1}
    BY <2>1
  <2>3. Coin(FundTx(ch), 1).address = ChannelAddress(ch)
    BY <2>1 DEF Coin, Pay
  <2>4. [ch EXCEPT !.nonce = 0] = ch
    <3>1. ch \in ChannelParams /\ ch.nonce = 0
      BY FacilitatorAssumption
    <3> QED
      BY <3>1 DEF ChannelParams
  <2> QED
    BY <2>1, <2>2, <2>3, <2>4 DEF OutputsOf, ChannelAddress, IsChannelAddress, ChannelOf
<1>3. FloatTx.ins = {} /\ \A coin \in OutputsOf(FloatTx) : ~ IsChannelAddress(coin.address)
  BY WalletIsNoChannel DEF FloatTx, OutputsOf, Coin, Pay
<1>4. \A tx \in chain : tx.ins = {}
  BY <1>1, <1>2, <1>3
<1>5. Consumed = {} /\ Utxo = Created
  BY <1>4 DEF Consumed, Utxo
<1>6. ASSUME NEW coin \in Created, IsChannelAddress(coin.address)
      PROVE  \E ch \in Channels : coin = Coin(FundTx(ch), 1)
  BY <1>1, <1>2, <1>3, <1>6 DEF Created
<1>7. ChannelsKnown
  BY <1>2, <1>6 DEF ChannelsKnown
<1>8. ASSUME NEW ch \in Channels
      PROVE  SettlesOf(ch) = {} /\ LiveCoins(ch) = {Coin(FundTx(ch), 1)}
  <2>1. SettlesOf(ch) = {}
    BY <1>4 DEF SettlesOf, CoinsOfChannel
  <2>2. Coin(FundTx(ch), 1) \in Created
    BY <1>1, <1>2 DEF Created
  <2>3. \A coin \in LiveCoins(ch) : coin = Coin(FundTx(ch), 1)
    BY <1>2, <1>5, <1>6 DEF LiveCoins, CoinsOfChannel
  <2>4. Coin(FundTx(ch), 1) \in LiveCoins(ch)
    BY <1>2, <1>5, <2>2 DEF LiveCoins, CoinsOfChannel
  <2> QED
    BY <2>1, <2>3, <2>4
<1> QED
  BY <1>7, <1>8

LEMMA ChannelInit == Init => ChannelInv
<1> SUFFICES ASSUME Init PROVE ChannelInv
  OBVIOUS
<1>1. ASSUME NEW ch \in Channels
      PROVE  Coin(FundTx(ch), 1).address.params.nonce = 0
  BY FacilitatorAssumption DEF FundTx, Coin, Pay, ChannelAddress
<1>2. Cardinality({}) = 0 /\ IsFiniteSet({})
  BY FS_EmptySet
<1> QED
  BY <1>1, <1>2, OpenedChannels DEF ChannelInv, ChannelIsOneCoin

LEMMA ChannelStep ==
    ASSUME TypeInv, SettleInv, MoneyInv, ChannelInv, [Next]_vars
    PROVE  ChannelInv'
<1> DEFINE ChainCoin(ch) == \A coin \in LiveCoins(ch) :
                             /\ LiveCoins(ch) = {coin}
                             /\ coin.address.params.nonce = Cardinality(SettlesOf(ch))
<1>1. ASSUME NEW ch \in Channels, Still(ch)
      PROVE  ChainCoin(ch)' /\ IsFiniteSet(SettlesOf(ch)')
  BY <1>1 DEF Still, ChannelInv, ChannelIsOneCoin
<1>2. ASSUME NEW ch \in Channels, NEW tx, NEW coin, NEW price, Settling(ch, tx, coin, price)
      PROVE  ChainCoin(ch)' /\ IsFiniteSet(SettlesOf(ch)')
  <2>1. /\ LiveCoins(ch) = {coin} /\ IsFiniteSet(SettlesOf(ch))
        /\ coin.address.params.nonce = Cardinality(SettlesOf(ch))
    BY <1>2 DEF Settling, ChannelInv, ChannelIsOneCoin
  <2>2. tx \notin SettlesOf(ch) /\ SettlesOf(ch)' = SettlesOf(ch) \cup {tx}
    BY <1>2 DEF Settling, SettlesOf
  <2>3. /\ IsFiniteSet(SettlesOf(ch)')
        /\ Cardinality(SettlesOf(ch)') = Cardinality(SettlesOf(ch)) + 1
    BY <2>1, <2>2, FS_AddElement
  <2>4. \/ LiveCoins(ch)' = {}
        \/ \E next : /\ LiveCoins(ch)' = {next}
                     /\ next.address.params.nonce = coin.address.params.nonce + 1
    BY <1>2, <2>1 DEF Settling
  <2> QED
    BY <2>1, <2>3, <2>4
<1>3. /\ ChannelsKnown'
      /\ \A ch \in Channels : ChainCoin(ch)' /\ IsFiniteSet(SettlesOf(ch)')
  BY <1>1, <1>2, ChannelCases DEF ChannelInv
<1> QED
  BY <1>3 DEF ChannelInv, ChannelIsOneCoin

LEMMA ChannelInvariant == SafetySpec => []ChannelInv
<1>1. TypeInv /\ SettleInv /\ MoneyInv /\ ChannelInv /\ [Next]_vars => ChannelInv'
  BY ChannelStep
<1> QED
  BY <1>1, ChannelInit, TypeCorrect, SettleCorrect, MoneyInvariant, PTL DEF SafetySpec

\* The theorem behind the derivation of addresses from (client, timeout,
\* nonce): the address of the current nonce names the channel's only coin.
THEOREM OneCoinCorrect == SafetySpec => []ChannelIsOneCoin
  BY ChannelInvariant, PTL DEF ChannelInv

-----------------------------------------------------------------------------
(* The refinement of the payment channel.                                  *)

\* What settles pay is a number.
LEMMA SettlesPay ==
    ASSUME TypeInv, SettleInv, MoneyInv, NEW ch, NEW tx \in SettlesOf(ch)
    PROVE  tx.outs[1].amount \in Nat
<1>1. tx \in Known /\ \E coin \in tx.ins : IsChannelAddress(coin.address)
  BY DEF SettlesOf, CoinsOfChannel, Known
<1>2. PICK r \in Settles : Payment(r, tx)
  BY <1>1 DEF MoneyInv, Kinds, WalletOnly, FundTx
<1>3. req[r] \in Bodies /\ Settlement(r, tx)
  BY <1>1, <1>2 DEF SettleInv, SettledAsSigned, Payment
<1>4. tx.outs[1] = Pay(SigningAddress, req[r].required.amount)
  BY <1>3, SettlementOutputs
<1>5. req[r].required.amount \in Nat
  BY <1>3, FacilitatorAssumption DEF Bodies, Terms
<1> QED
  BY <1>4, <1>5 DEF Pay

\* A channel that is settled moves as Settle of the abstract channel says.
LEMMA SettlingImplements ==
    ASSUME TypeInv, SettleInv, MoneyInv, ChannelInv,
           NEW ch \in Channels, NEW tx, NEW coin, NEW price, Settling(ch, tx, coin, price),
           \A other \in Channels : other # ch => Still(other)
    PROVE  PC!Settle(ch, price) /\ price \in 1 .. ChannelBalance[ch]
<1> DEFINE rest == coin.amount - price - Fee
<1>1. /\ LiveCoins(ch) = {coin} /\ IsFiniteSet(SettlesOf(ch))
      /\ coin \in Coins /\ coin.amount \in Nat /\ Fee \in Nat
      /\ price \in Nat /\ price > 0 /\ Affordable(coin.amount, price)
  BY FeeAssumption DEF Settling, ChannelInv, ChannelIsOneCoin, Coins
<1>2. ChannelBalance[ch] = coin.amount
  BY <1>1, TotalSmall DEF ChannelBalance
<1>3. Total(LiveCoins(ch)') = PC!Carried(rest)
  <2>1. CASE rest > Fee
    <3>1. PICK next : LiveCoins(ch)' = {next} /\ next.amount = rest
      BY <1>1, <2>1 DEF Settling
    <3>2. rest \in Nat
      BY <1>1, <2>1
    <3>3. Total(LiveCoins(ch)') = rest
      BY <3>1, <3>2, TotalSmall
    <3> QED
      BY <2>1, <3>3 DEF PC!Carried
  <2>2. CASE ~ (rest > Fee)
    <3>1. LiveCoins(ch)' = {}
      BY <1>1, <2>2 DEF Settling
    <3> QED
      BY <2>2, <3>1, TotalSmall DEF PC!Carried
  <2> QED
    BY <2>1, <2>2
<1>4. /\ SettlesOf(ch)' = SettlesOf(ch) \cup {tx} /\ tx \notin SettlesOf(ch)
      /\ tx.outs[1].amount = price
  BY DEF Settling, SettlesOf
<1>5. Cardinality(SettlesOf(ch)') = Cardinality(SettlesOf(ch)) + 1
  BY <1>1, <1>4, FS_AddElement
<1>6. Received(SettlesOf(ch)') = Received(SettlesOf(ch)) + price
  <2>1. \A t \in SettlesOf(ch) \cup {tx} : t.outs[1].amount \in Nat
    BY <1>1, <1>4, SettlesPay
  <2> QED
    BY <1>1, <1>4, <2>1, ReceivedOneMore
<1>7. ChannelBalance' = [ChannelBalance EXCEPT ![ch] = PC!Carried(@ - price - Fee)]
  <2>1. \A other \in Channels : other # ch => LiveCoins(other)' = LiveCoins(other)
    BY DEF Still
  <2>2. ChannelBalance' = [other \in Channels |-> Total(LiveCoins(other)')]
    BY DEF ChannelBalance
  <2> QED
    BY <1>2, <1>3, <2>1, <2>2 DEF ChannelBalance
<1>8. ChannelNonce' = [ChannelNonce EXCEPT ![ch] = @ + 1]
  BY <1>5 DEF Still, ChannelNonce
<1>9. ChannelPaid' = [ChannelPaid EXCEPT ![ch] = @ + price]
  <2>1. \A other \in Channels : other # ch => SettlesOf(other)' = SettlesOf(other)
    BY DEF Still
  <2>2. ChannelPaid' = [other \in Channels |-> Received(SettlesOf(other)')]
    BY DEF ChannelPaid
  <2> QED
    BY <1>6, <2>1, <2>2 DEF ChannelPaid
<1>10. PC!Affordable(ChannelBalance[ch], price)
  BY <1>1, <1>2 DEF Affordable, PC!Affordable
<1>11. price \in 1 .. ChannelBalance[ch]
  BY <1>1, <1>2 DEF Affordable
<1> QED
  BY <1>1, <1>7, <1>8, <1>9, <1>10, <1>11 DEF PC!Settle

LEMMA RefinementInit == Init => PC!ChInit
<1> SUFFICES ASSUME Init PROVE PC!ChInit
  OBVIOUS
<1>1. ASSUME NEW ch \in Channels
      PROVE  Total(LiveCoins(ch)) = Funding[ch] /\ SettlesOf(ch) = {}
  <2>1. Coin(FundTx(ch), 1).amount = Funding[ch] /\ Funding[ch] \in Nat
    BY FacilitatorAssumption DEF FundTx, Coin, Pay
  <2> QED
    BY <2>1, OpenedChannels, TotalSmall
<1>2. ChannelBalance = Funding
  BY <1>1, FacilitatorAssumption DEF ChannelBalance
<1>3. ChannelNonce = [ch \in Channels |-> 0]
  BY <1>1, FS_EmptySet DEF ChannelNonce
<1>4. ChannelPaid = [ch \in Channels |-> 0]
  BY <1>1, ReceivedEmpty DEF ChannelPaid
<1> QED
  BY <1>2, <1>3, <1>4 DEF PC!ChInit

LEMMA RefinementStep ==
    ASSUME TypeInv, SettleInv, MoneyInv, ChannelInv, [Next]_vars
    PROVE  PC!ChNext \/ UNCHANGED << ChannelBalance, ChannelNonce, ChannelPaid >>
<1>1. CASE \A ch \in Channels : Still(ch)
  <2>1. /\ ChannelBalance' = [ch \in Channels |-> Total(LiveCoins(ch)')]
        /\ ChannelNonce' = [ch \in Channels |-> Cardinality(SettlesOf(ch)')]
        /\ ChannelPaid' = [ch \in Channels |-> Received(SettlesOf(ch)')]
    BY DEF ChannelBalance, ChannelNonce, ChannelPaid
  <2> QED
    BY <1>1, <2>1 DEF Still, ChannelBalance, ChannelNonce, ChannelPaid
<1>2. ASSUME NEW ch \in Channels, NEW tx, NEW coin, NEW price, Settling(ch, tx, coin, price),
             \A other \in Channels : other # ch => Still(other)
      PROVE  PC!ChNext
  BY <1>2, SettlingImplements DEF PC!ChNext
<1> QED
  BY <1>1, <1>2, ChannelCases DEF ChannelInv

\* The theorem that node, covenant and facilitator together implement the
\* payment channel: each step settles one channel once, or none.
THEOREM ChannelRefinement == SafetySpec => ImplementsPaymentChannel
<1>1. /\ TypeInv /\ SettleInv /\ MoneyInv /\ ChannelInv
      /\ [Next]_vars
      => [PC!ChNext]_(PC!chVars)
  BY RefinementStep DEF PC!chVars
<1> QED
  BY <1>1, RefinementInit, TypeCorrect, SettleCorrect, MoneyInvariant, ChannelInvariant,
     PTL DEF SafetySpec, ImplementsPaymentChannel, PC!ChSpec

-----------------------------------------------------------------------------
(* What the payment channel promises, of the facilitator.                  *)

Promise == INSTANCE PaymentChannelProofs
             WITH balance <- ChannelBalance, nonce <- ChannelNonce, paid <- ChannelPaid

\* The theorem that a client's channel loses, to miners, one fee for each
\* settlement the chain has and at most one more when it is closed.
THEOREM ChannelFeesCorrect == SafetySpec => []PC!FeesBounded
<1>1. PC!ChInit => Promise!ChInit
  BY DEF PC!ChInit, Promise!ChInit
<1>2. [PC!ChNext]_(PC!chVars) => [Promise!ChNext]_(Promise!chVars)
  BY DEF PC!ChNext, PC!chVars, PC!Settle, PC!Carried, PC!Affordable,
         Promise!ChNext, Promise!chVars, Promise!Settle, Promise!Carried, Promise!Affordable
<1>3. Promise!FeesBounded => PC!FeesBounded
  BY DEF PC!FeesBounded, PC!MinerFees, Promise!FeesBounded, Promise!MinerFees
<1>4. Promise!ChSpec => []Promise!FeesBounded
  <2>1. Promise!FeeAssumption
    BY FeeAssumption DEF Promise!FeeAssumption
  <2>2. Promise!KeyAssumption
    BY KeyAssumption DEF Promise!KeyAssumption
  <2>3. Channels \subseteq Promise!ChannelParams /\ Funding \in [Channels -> Nat]
    BY FacilitatorAssumption DEF ChannelParams, Promise!ChannelParams
  <2>4. Promise!FundingAssumption
    BY <2>3 DEF Promise!FundingAssumption
  <2> QED
    BY <2>1, <2>2, <2>4, Promise!FeesAreBounded, PTL
<1> QED
  BY <1>1, <1>2, <1>3, <1>4, ChannelRefinement, PTL
  DEF ImplementsPaymentChannel, PC!ChSpec, Promise!ChSpec

=============================================================================
