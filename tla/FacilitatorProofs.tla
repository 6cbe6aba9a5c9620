------------------------- MODULE FacilitatorProofs -------------------------
(***************************************************************************)
(* Theorems about the facilitator for any number of calls, channels,       *)
(* prices, failures and restarts.  Types first; then the invariant that    *)
(* ties every settle call to the transaction the node holds for it.        *)
(***************************************************************************)
EXTENDS FacilitatorProperties, TLAPS, SequenceTheorems, FiniteSetTheorems

-----------------------------------------------------------------------------
(* Lemmas on coins, outputs and transactions.                              *)

\* A coin is an output of a transaction, with the transaction's id.
LEMMA CoinTyped ==
    ASSUME NEW tx \in Txs, NEW vout \in DOMAIN tx.outs
    PROVE  Coin(tx, vout) \in Coins
<1>1. tx.id \in TxIds /\ tx.outs \in Seq(Outputs)
  BY DEF Txs
<1>2. vout \in Nat \ {0} /\ tx.outs[vout] \in Outputs
  BY <1>1
<1>3. << tx.id, vout >> \in Outpoints
  BY <1>1, <1>2 DEF Outpoints
<1>4. tx.outs[vout].address \in Addresses /\ tx.outs[vout].amount \in Nat
  BY <1>2 DEF Outputs
<1> QED
  BY <1>3, <1>4 DEF Coin, Coins

LEMMA CreatedTyped ==
    ASSUME chain \subseteq Txs
    PROVE  Created \subseteq Coins /\ Utxo \subseteq Created
<1>1. Created \subseteq Coins
  BY CoinTyped DEF Created, OutputsOf
<1> QED
  BY <1>1 DEF Utxo

LEMMA ChannelCoin ==
    ASSUME NEW coin \in Coins, IsChannelAddress(coin.address)
    PROVE  /\ coin.address.params \in ChannelParams
           /\ coin.address = ChannelAddress(coin.address.params)
<1>1. coin.address \in Addresses /\ coin.address.kind = "channel"
  BY DEF Coins, IsChannelAddress
<1>2. coin.address \in [kind : {"channel"}, params : ChannelParams]
  BY <1>1 DEF Addresses, WalletAddress
<1> QED
  BY <1>2 DEF ChannelAddress

LEMMA SigningTyped == SigningAddress \in Addresses
  BY DEF SigningAddress, Addresses, Owners

LEMMA ChannelAddressTyped ==
    ASSUME NEW params \in ChannelParams
    PROVE  /\ NextParams(params) \in ChannelParams
           /\ ChannelAddress(params) \in Addresses
           /\ IsChannelAddress(ChannelAddress(params))
  BY DEF NextParams, ChannelParams, ChannelAddress, Addresses, IsChannelAddress

LEMMA PayTyped ==
    ASSUME NEW address \in Addresses, NEW amount \in Nat
    PROVE  Pay(address, amount) \in Outputs
  BY DEF Pay, Outputs

\* Both programs compute a well-formed list of outputs.
LEMMA OutputsTyped ==
    ASSUME NEW params \in ChannelParams, NEW input \in Nat,
           NEW payTo \in Addresses, NEW payment \in Nat
    PROVE  /\ ClientOutputs(params, input, payTo, payment) \in Seq(Outputs)
           /\ FacilitatorOutputs(params, input, payment) \in Seq(Outputs)
           /\ FacilitatorOutputs(params, input, payment)[1] = Pay(SigningAddress, payment)
<1> DEFINE rest == input - payment - Fee
           next == ChannelAddress(NextParams(params))
<1>1. Pay(payTo, payment) \in Outputs /\ Pay(SigningAddress, payment) \in Outputs
  BY PayTyped, SigningTyped
<1>2. ASSUME rest > Fee
      PROVE  Pay(next, rest) \in Outputs
  <2>1. rest \in Nat
    BY <1>2, FeeAssumption
  <2> QED
    BY <2>1, PayTyped, ChannelAddressTyped
<1> QED
  BY <1>1, <1>2 DEF ClientOutputs, FacilitatorOutputs

LEMMA SettleTxTyped ==
    ASSUME NEW r \in Settles, req[r] \in Bodies, NEW coin \in Coins
    PROVE  /\ SettleTx(r, coin) \in Txs
           /\ SettleTx(r, coin).id = << "settle", r >>
           /\ SettleTx(r, coin).ins = {coin}
           /\ SettleTx(r, coin).outs[1] = Pay(SigningAddress, req[r].required.amount)
<1>1. req[r].params \in ChannelParams /\ req[r].required.amount \in Nat
  BY FacilitatorAssumption DEF Bodies, Terms
<1>2. coin.amount \in Nat
  BY DEF Coins
<1>3. /\ FacilitatorOutputs(req[r].params, coin.amount, req[r].required.amount) \in Seq(Outputs)
      /\ FacilitatorOutputs(req[r].params, coin.amount, req[r].required.amount)[1]
            = Pay(SigningAddress, req[r].required.amount)
  BY <1>1, <1>2, OutputsTyped, SigningTyped
<1>4. << "settle", r >> \in TxIds
  BY DEF TxIds
<1> QED
  BY <1>3, <1>4 DEF SettleTx, Txs

LEMMA HotWalletTxsTyped ==
    ASSUME chain \subseteq Txs,
           NEW id \in TxIds, NEW to \in Addresses, NEW amount \in Nat,
           NEW tx \in HotWalletTxs(id, to, amount)
    PROVE  tx \in Txs /\ tx.id = id
<1> DEFINE entries == CoinsAt(SigningAddress)
<1>0. entries \subseteq Coins
  BY CreatedTyped DEF CoinsAt
<1>1. PICK coins \in SUBSET entries, change \in 0 .. Supply :
         tx = WalletTx(id, coins, Pay(to, amount), SigningAddress, change)
  BY DEF HotWalletTxs, WalletTxs, Selections
<1>2. change \in Nat
  BY WalletAssumption
<1>3. Pay(to, amount) \in Outputs /\ Pay(SigningAddress, change) \in Outputs
  BY <1>2, PayTyped, SigningTyped
<1>4. tx.outs \in Seq(Outputs)
  BY <1>1, <1>3 DEF WalletTx
<1>5. tx.ins \in SUBSET Coins
  BY <1>0, <1>1 DEF WalletTx
<1> QED
  BY <1>1, <1>4, <1>5 DEF Txs, WalletTx

LEMMA SweepTxsTyped ==
    ASSUME chain \subseteq Txs,
           NEW s \in Sweeps, NEW entries, NEW tx \in SweepTxs(s, entries)
    PROVE  tx \in Txs /\ tx.id = << "sweep", s >>
<1>1. PICK amount \in 1 .. Supply :
         tx \in HotWalletTxs(<< "sweep", s >>, WalletAddress(ColdWallet), amount)
  BY DEF SweepTxs
<1>2. amount \in Nat
  BY WalletAssumption
<1>3. << "sweep", s >> \in TxIds /\ WalletAddress(ColdWallet) \in Addresses
  BY DEF TxIds, Addresses, Owners
<1> QED
  BY <1>1, <1>2, <1>3, HotWalletTxsTyped

\* Whatever a client signs is a signature of a client.
LEMMA ClientSigTyped ==
    ASSUME chain \subseteq Txs, NEW sig \in ClientSigs
    PROVE  sig \in Signatures
<1>1. PICK coin \in ChannelCoins, payee \in SettlePayees, price \in Amounts :
         sig = ClientSig(coin, payee, price)
  BY DEF ClientSigs
<1>2. coin \in Coins /\ IsChannelAddress(coin.address)
  BY CreatedTyped DEF ChannelCoins
<1>3. /\ coin.address.params \in ChannelParams /\ coin.amount \in Nat
      /\ coin.outpoint \in Outpoints
  BY <1>2, ChannelCoin DEF Coins
<1>4. payee \in Addresses /\ price \in Nat
  BY SigningTyped, FacilitatorAssumption DEF SettlePayees, Addresses, Owners
<1>5. ClientOutputs(coin.address.params, coin.amount, payee, price) \in Seq(Outputs)
  BY <1>3, <1>4, OutputsTyped
<1>6. coin.address.params.client \in Clients
  BY <1>3 DEF ChannelParams
<1> QED
  BY <1>1, <1>3, <1>5, <1>6 DEF ClientSig, Sign, Signatures

LEMMA BodyTyped ==
    ASSUME chain \subseteq Txs, NEW body \in PaymentBodies
    PROVE  body \in Bodies
<1>1. PICK named \in ChannelCoins, derived \in ChannelCoins, sig \in ClientSigs,
           accepted \in Terms, required \in Terms :
         body = Body(named, derived, sig, accepted, required)
  BY DEF PaymentBodies
<1>2. /\ named \in Coins /\ derived \in Coins
      /\ IsChannelAddress(derived.address)
  BY CreatedTyped DEF ChannelCoins
<1>3. named.outpoint \in Outpoints /\ derived.address.params \in ChannelParams
  BY <1>2, ChannelCoin DEF Coins
<1>4. sig \in Signatures
  BY ClientSigTyped
<1> QED
  BY <1>1, <1>3, <1>4 DEF Body, Bodies

-----------------------------------------------------------------------------
(* Types.                                                                  *)

\* The part of TypeOK about the handlers.
HandlersOK ==
    /\ pc \in [Handlers -> Awaits \cup {"idle", "done", "lost"}]
    /\ req \in [Requests -> Bodies \cup {None}]
    /\ draft \in [Handlers -> Txs \cup {None}]
    /\ waited \in [Handlers -> 0 .. MinConf]
    /\ polls \in [Handlers -> 0 .. MaxPolls]
    /\ outcome \in [Handlers -> Outcomes]

LEMMA HandlerKinds ==
    /\ Settles \subseteq Requests /\ Verifies \subseteq Requests
    /\ Requests \subseteq Handlers /\ Sweeps \subseteq Handlers
    /\ \A h \in Handlers : h \in Settles \/ h \in Verifies \/ h \in Sweeps
    /\ \A h \in Sweeps : h \notin Requests
    /\ \A h \in Settles : h \notin Verifies /\ h \notin Sweeps
    /\ \A h \in Verifies : h \notin Sweeps
  BY FacilitatorAssumption DEF Handlers, Requests

LEMMA RefusalTyped ==
    ASSUME NEW r \in Requests
    PROVE  Refusal(r) \in {"invalid", "refused"} /\ Refusal(r) \in Outcomes
  BY DEF Refusal, Outcomes

LEMMA AnswerTyped ==
    ASSUME NEW h \in Handlers
    PROVE  AnswerToFailure(h) \in Outcomes
  BY DEF AnswerToFailure, Refusal, Outcomes

\* An answer ends a handler that has begun and disturbs no other.
LEMMA RespondType ==
    ASSUME HandlersOK, Control, DraftOwned,
           NEW h \in Handlers, pc[h] # "idle",
           NEW answer \in Outcomes, Respond(h, answer)
    PROVE  HandlersOK' /\ Control' /\ DraftOwned'
<1> USE HandlerKinds
<1>1. /\ pc' = [pc EXCEPT ![h] = "done"]
      /\ outcome' = [outcome EXCEPT ![h] = answer]
      /\ draft' = [draft EXCEPT ![h] = None]
      /\ waited' = [waited EXCEPT ![h] = 0]
      /\ polls' = [polls EXCEPT ![h] = 0]
      /\ req' = req
  BY DEF Respond, Goto
<1>2. HandlersOK'
  BY <1>1, FacilitatorAssumption DEF HandlersOK
<1>3. pc'[h] = "done" /\ \A g \in Handlers : g # h =>
          pc'[g] = pc[g] /\ outcome'[g] = outcome[g] /\ draft'[g] = draft[g]
  BY <1>1 DEF HandlersOK
<1>4. Control'
  BY <1>1, <1>3 DEF Control, Awaits, ConfirmPoints, ForwardPoints, SweepPoints
<1>5. DraftOwned'
  BY <1>3 DEF DraftOwned, SubmitPoints
<1> QED
  BY <1>2, <1>4, <1>5

\* A handler that moves on without a draft.
LEMMA GotoType ==
    ASSUME HandlersOK, Control, DraftOwned,
           NEW h \in Handlers, pc[h] \in Awaits,
           NEW point \in Awaits \ SubmitPoints, Goto(h, point),
           h \in Settles => point \notin SweepPoints,
           h \in Verifies => point = "verify",
           h \in Sweeps => point \in SweepPoints,
           UNCHANGED << req, outcome >>,
           draft' \in [Handlers -> Txs \cup {None}],
           \A g \in Handlers : g # h => draft'[g] = draft[g],
           waited' \in [Handlers -> 0 .. MinConf],
           polls' \in [Handlers -> 0 .. MaxPolls]
    PROVE  HandlersOK' /\ Control' /\ DraftOwned'
<1> USE HandlerKinds
<1>1. pc' = [pc EXCEPT ![h] = point]
  BY DEF Goto
<1>2. HandlersOK'
  BY <1>1 DEF HandlersOK
<1>3. /\ pc'[h] = point /\ \A g \in Handlers : g # h => pc'[g] = pc[g]
      /\ pc[h] # "done"
  BY <1>1 DEF HandlersOK, Awaits, ConfirmPoints, ForwardPoints, SweepPoints
<1>4. Control'
  BY <1>3 DEF Control
<1>5. DraftOwned'
  BY <1>3 DEF DraftOwned
<1> QED
  BY <1>2, <1>4, <1>5

\* A handler that has built its transaction.
LEMMA DraftType ==
    ASSUME HandlersOK, Control, DraftOwned,
           NEW h \in Handlers, pc[h] \in Awaits,
           NEW point \in SubmitPoints, Goto(h, point),
           h \notin Verifies,
           h \in Settles <=> point # "sweepSubmit",
           draft' \in [Handlers -> Txs \cup {None}],
           draft'[h] \in Txs,
           draft'[h].id = << KindAt(point), h >>,
           \A g \in Handlers : g # h => draft'[g] = draft[g],
           UNCHANGED << req, waited, polls, outcome >>
    PROVE  HandlersOK' /\ Control' /\ DraftOwned'
<1> USE HandlerKinds
<1>1. pc' = [pc EXCEPT ![h] = point] /\ point \in Awaits
  BY DEF Goto, SubmitPoints, Awaits, ForwardPoints, SweepPoints
<1>2. HandlersOK'
  BY <1>1 DEF HandlersOK
<1>3. /\ pc'[h] = point /\ \A g \in Handlers : g # h => pc'[g] = pc[g]
      /\ pc[h] # "done"
  BY <1>1 DEF HandlersOK, Awaits, ConfirmPoints, ForwardPoints, SweepPoints
<1>4. Control'
  BY <1>3 DEF Control, SubmitPoints, SweepPoints
<1>5. DraftOwned'
  BY <1>3 DEF DraftOwned
<1> QED
  BY <1>2, <1>4, <1>5

\* TypeOK in two parts.
LEMMA TypeParts ==
    TypeOK <=> /\ chain \subseteq Txs /\ mempool \subseteq Txs
               /\ HandlersOK
               /\ failures \in 0 .. MaxFailures /\ crashes \in 0 .. MaxCrashes
  BY DEF TypeOK, HandlersOK

\* A handler submits a transaction of its own making.
LEMMA EnqueueType ==
    ASSUME chain \subseteq Txs, mempool \subseteq Txs, DraftOwned,
           NEW h \in Handlers, pc[h] \in SubmitPoints, Enqueue(draft[h])
    PROVE  chain' \subseteq Txs /\ mempool' \subseteq Txs
  BY DEF DraftOwned, Enqueue

\* Nothing is known of a channel but its funding, of the wallet but its float.
LEMMA InitType == Init => TypeInv
<1> SUFFICES ASSUME Init PROVE TypeInv
  OBVIOUS
<1> USE HandlerKinds
<1>1. ASSUME NEW ch \in Channels PROVE FundTx(ch) \in Txs
  <2>1. ChannelAddress(ch) \in Addresses /\ Funding[ch] \in Nat
    BY ChannelAddressTyped, FacilitatorAssumption
  <2>2. << Pay(ChannelAddress(ch), Funding[ch]) >> \in Seq(Outputs)
    BY <2>1, PayTyped
  <2>3. << "fund", ch >> \in TxIds
    BY DEF TxIds
  <2> QED
    BY <2>2, <2>3 DEF FundTx, Txs
<1>2. FloatTx \in Txs
  <2>1. << Pay(SigningAddress, Float) >> \in Seq(Outputs)
    BY PayTyped, SigningTyped, FacilitatorAssumption
  <2>2. << "float", FacilitatorKey >> \in TxIds
    BY DEF TxIds
  <2> QED
    BY <2>1, <2>2 DEF FloatTx, Txs
<1>3. chain \subseteq Txs /\ mempool \subseteq Txs
  BY <1>1, <1>2 DEF Init
<1>4. HandlersOK
  BY FacilitatorAssumption DEF Init, HandlersOK, Outcomes
<1>5. failures \in 0 .. MaxFailures /\ crashes \in 0 .. MaxCrashes
  BY FacilitatorAssumption DEF Init
<1>6. Control /\ DraftOwned
  BY DEF Init, Control, DraftOwned, SweepPoints, SubmitPoints, Awaits, ConfirmPoints,
         ForwardPoints
<1> QED
  BY <1>3, <1>4, <1>5, <1>6, TypeParts DEF TypeInv

\* No step of a handler, of the node or of the environment leaves the types.
LEMMA TypeStep == TypeInv /\ [Next]_vars => TypeInv'
<1> SUFFICES ASSUME TypeInv, [Next]_vars PROVE TypeInv'
  OBVIOUS
<1> USE HandlerKinds
<1>1. /\ chain \subseteq Txs /\ mempool \subseteq Txs
      /\ HandlersOK /\ Control /\ DraftOwned
      /\ failures \in 0 .. MaxFailures /\ crashes \in 0 .. MaxCrashes
  BY TypeParts DEF TypeInv
<1>2. /\ chain' \subseteq Txs /\ mempool' \subseteq Txs
      /\ HandlersOK' /\ Control' /\ DraftOwned'
      /\ failures' \in 0 .. MaxFailures /\ crashes' \in 0 .. MaxCrashes
      => TypeInv'
  BY DEF TypeInv, TypeOK, HandlersOK
<1>3. CASE NodeStep
  BY <1>1, <1>2, <1>3 DEF NodeStep, Accept, handlers, HandlersOK, Control, DraftOwned
<1>4. CASE DaaAdvance
  <2>1. ASSUME NEW h \in Handlers
        PROVE  (IF pc[h] = "confirm" /\ waited[h] < MinConf
                THEN waited[h] + 1 ELSE waited[h]) \in 0 .. MinConf
    BY <1>1, FacilitatorAssumption DEF HandlersOK
  <2>2. waited' \in [Handlers -> 0 .. MinConf]
    BY <1>4, <2>1 DEF DaaAdvance
  <2> QED
    BY <1>1, <1>2, <1>4, <2>2 DEF DaaAdvance, node, HandlersOK, Control, DraftOwned
<1>5. ASSUME NEW r \in Requests, Receive(r)
      PROVE  TypeInv'
  <2>1. PICK body \in PaymentBodies : ReceiveBody(r, body)
    BY <1>5 DEF Receive
  <2>2. body \in Bodies
    BY <1>1, BodyTyped
  <2>3. \/ /\ req' = [req EXCEPT ![r] = body] /\ Goto(r, "verify")
           /\ UNCHANGED outcome
        \/ /\ Goto(r, "done") /\ outcome' = [outcome EXCEPT ![r] = Refusal(r)]
           /\ UNCHANGED req
    BY <2>1 DEF ReceiveBody
  <2>4. Refusal(r) \in Outcomes
    BY RefusalTyped
  <2>5. /\ pc' \in [Handlers -> Awaits \cup {"idle", "done", "lost"}]
        /\ outcome' \in [Handlers -> Outcomes]
        /\ req' \in [Requests -> Bodies \cup {None}]
    BY <1>1, <2>2, <2>3, <2>4 DEF Goto, HandlersOK, Awaits
  <2>6. UNCHANGED << chain, mempool, draft, waited, polls, failures, crashes >>
    BY <2>1 DEF ReceiveBody, node
  <2>7. HandlersOK'
    BY <1>1, <2>5, <2>6 DEF HandlersOK
  <2>8. /\ \/ pc'[r] = "verify" /\ outcome'[r] = outcome[r] /\ req'[r] \in Bodies
           \/ pc'[r] = "done"
        /\ \A g \in Handlers : g # r => pc'[g] = pc[g] /\ outcome'[g] = outcome[g]
        /\ \A q \in Requests : q # r => req'[q] = req[q]
    BY <1>1, <2>2, <2>3 DEF Goto, HandlersOK
  <2>9. pc[r] = "idle"
    BY <2>1 DEF ReceiveBody
  <2>10. Control'
    BY <1>1, <2>8, <2>9 DEF Control, Awaits, ConfirmPoints, ForwardPoints, SweepPoints
  <2>11. DraftOwned'
    BY <1>1, <2>6, <2>8 DEF DraftOwned, SubmitPoints
  <2> QED
    BY <1>1, <1>2, <2>6, <2>7, <2>10, <2>11
<1>6. ASSUME NEW r \in Requests, VerifyLookup(r)
      PROVE  TypeInv'
  <2>1. /\ pc[r] = "verify"
        /\ UNCHANGED << chain, mempool, failures, crashes >>
    BY <1>6 DEF VerifyLookup, node
  <2>2. CASE Respond(r, Refusal(r)) \/ Respond(r, "valid")
    <3>1. Refusal(r) \in Outcomes /\ "valid" \in Outcomes
      BY RefusalTyped DEF Outcomes
    <3> QED
      BY <1>1, <1>2, <2>1, <2>2, <3>1, RespondType
  <2>3. CASE /\ r \in Settles /\ Goto(r, "lookup")
             /\ UNCHANGED << req, draft, waited, polls, outcome >>
    <3>1. "lookup" \in Awaits \ SubmitPoints /\ "lookup" \notin SweepPoints
      BY DEF Awaits, SubmitPoints, SweepPoints
    <3>2. HandlersOK' /\ Control' /\ DraftOwned'
      BY <1>1, <2>1, <2>3, <3>1, GotoType DEF HandlersOK, Awaits
    <3> QED
      BY <1>1, <1>2, <2>1, <3>2
  <2> QED
    BY <1>6, <2>2, <2>3 DEF VerifyLookup
<1>7. ASSUME NEW r \in Settles, SettleStep(r)
      PROVE  TypeInv'
  <2>0. pc[r] \in Awaits => pc[r] # "idle" /\ pc[r] # "done" /\ req[r] \in Bodies
    BY <1>1 DEF Control, Awaits, ConfirmPoints, ForwardPoints, SweepPoints
  <2>1. CASE SettleLookup(r)
    <3>1. /\ pc[r] = "lookup" /\ pc[r] \in Awaits
          /\ UNCHANGED << chain, mempool, failures, crashes >>
      BY <2>1 DEF SettleLookup, node, Awaits
    <3>2. CASE Respond(r, "refused")
      BY <1>1, <1>2, <3>1, <3>2, RespondType DEF Outcomes
    <3>3. ASSUME NEW coin \in CoinOf(r),
                 draft' = [draft EXCEPT ![r] = SettleTx(r, coin)],
                 Goto(r, "submit"),
                 UNCHANGED << req, waited, polls, outcome >>
          PROVE  HandlersOK' /\ Control' /\ DraftOwned'
      <4>1. coin \in Coins
        BY <1>1, CreatedTyped DEF CoinOf, CoinsAt
      <4>2. SettleTx(r, coin) \in Txs /\ SettleTx(r, coin).id = << KindAt("submit"), r >>
        BY <2>0, <3>1, <4>1, SettleTxTyped DEF KindAt
      <4>3. "submit" \in SubmitPoints /\ "submit" # "sweepSubmit"
        BY DEF SubmitPoints
      <4>4. /\ draft' \in [Handlers -> Txs \cup {None}]
            /\ draft'[r] = SettleTx(r, coin)
            /\ \A g \in Handlers : g # r => draft'[g] = draft[g]
        BY <1>1, <3>3, <4>2 DEF HandlersOK
      <4> QED
        BY <1>1, <2>0, <3>1, <3>3, <4>2, <4>3, <4>4, DraftType
    <3> QED
      BY <1>1, <1>2, <2>1, <3>1, <3>2, <3>3 DEF SettleLookup
  <2>2. CASE SettleSubmit(r)
    <3>1. /\ pc[r] = "submit" /\ pc[r] \in Awaits /\ pc[r] \in SubmitPoints
          /\ UNCHANGED << failures, crashes >>
      BY <2>2 DEF SettleSubmit, Awaits, SubmitPoints
    <3>2. CASE /\ Enqueue(draft[r]) /\ Goto(r, "start")
               /\ draft' = [draft EXCEPT ![r] = None]
               /\ UNCHANGED << req, waited, polls, outcome >>
      <4>1. chain' \subseteq Txs /\ mempool' \subseteq Txs
        BY <1>1, <3>1, <3>2, EnqueueType
      <4>2. "start" \in Awaits \ SubmitPoints /\ "start" \notin SweepPoints
        BY DEF Awaits, ConfirmPoints, SubmitPoints, SweepPoints
      <4>3. HandlersOK' /\ Control' /\ DraftOwned'
        BY <1>1, <2>0, <3>1, <3>2, <4>2, GotoType DEF HandlersOK
      <4> QED
        BY <1>1, <1>2, <3>1, <4>1, <4>3
    <3>3. CASE Respond(r, "error") /\ UNCHANGED node
      BY <1>1, <1>2, <3>1, <3>3, RespondType DEF Outcomes, node
    <3> QED
      BY <2>2, <3>2, <3>3 DEF SettleSubmit
  <2>3. CASE StartConfirmation(r)
    <3>1. /\ pc[r] \in Awaits /\ Goto(r, "confirm")
          /\ UNCHANGED << chain, mempool, req, draft, waited, polls, outcome, failures, crashes >>
      BY <2>3 DEF StartConfirmation, node, Awaits, ConfirmPoints
    <3>2. "confirm" \in Awaits \ SubmitPoints /\ "confirm" \notin SweepPoints
      BY DEF Awaits, ConfirmPoints, SubmitPoints, SweepPoints
    <3>3. HandlersOK' /\ Control' /\ DraftOwned'
      BY <1>1, <2>0, <3>1, <3>2, GotoType DEF HandlersOK
    <3> QED
      BY <1>1, <1>2, <3>1, <3>3
  <2>4. CASE Confirmed(r)
    <3>1. /\ pc[r] \in Awaits
          /\ UNCHANGED << chain, mempool, failures, crashes >>
      BY <2>4 DEF Confirmed, node, Awaits, ConfirmPoints
    <3>2. CASE /\ Goto(r, "forwardLookup")
               /\ waited' = [waited EXCEPT ![r] = 0]
               /\ UNCHANGED << req, draft, polls, outcome >>
      <4>1. "forwardLookup" \in Awaits \ SubmitPoints /\ "forwardLookup" \notin SweepPoints
        BY DEF Awaits, ForwardPoints, SubmitPoints, SweepPoints
      <4>2. waited' \in [Handlers -> 0 .. MinConf]
        BY <1>1, <3>2, FacilitatorAssumption DEF HandlersOK
      <4>3. HandlersOK' /\ Control' /\ DraftOwned'
        BY <1>1, <2>0, <3>1, <3>2, <4>1, <4>2, GotoType DEF HandlersOK
      <4> QED
        BY <1>1, <1>2, <3>1, <4>3
    <3>3. CASE Respond(r, "success")
      BY <1>1, <1>2, <2>0, <3>1, <3>3, RespondType DEF Outcomes
    <3> QED
      BY <2>4, <3>2, <3>3 DEF Confirmed
  <2>5. CASE ForwardLookup(r)
    <3> DEFINE forwards == HotWalletTxs(<< "forward", r >>,
                                 WalletAddress(req[r].required.payTo),
                                 req[r].required.amount)
    <3>1. /\ pc[r] = "forwardLookup" /\ pc[r] \in Awaits
          /\ UNCHANGED << chain, mempool, failures, crashes >>
      BY <2>5 DEF ForwardLookup, node, Awaits, ForwardPoints
    <3>2. CASE /\ polls[r] < MaxPolls
               /\ polls' = [polls EXCEPT ![r] = @ + 1]
               /\ UNCHANGED << pc, req, draft, waited, outcome >>
      <4>1. polls' \in [Handlers -> 0 .. MaxPolls]
        BY <1>1, <3>2, FacilitatorAssumption DEF HandlersOK
      <4> QED
        BY <1>1, <1>2, <3>1, <3>2, <4>1 DEF HandlersOK, Control, DraftOwned
    <3>3. CASE Respond(r, "success")
      BY <1>1, <1>2, <2>0, <3>1, <3>3, RespondType DEF Outcomes
    <3>4. ASSUME NEW tx \in forwards,
                 draft' = [draft EXCEPT ![r] = tx], Goto(r, "forwardSubmit"),
                 UNCHANGED << req, waited, polls, outcome >>
          PROVE  HandlersOK' /\ Control' /\ DraftOwned'
      <4>2. /\ WalletAddress(req[r].required.payTo) \in Addresses
            /\ req[r].required.amount \in Nat
        BY <2>0, <3>1, FacilitatorAssumption DEF Bodies, Terms, Addresses, Owners
      <4>3. << "forward", r >> \in TxIds
        BY DEF TxIds
      <4>4. tx \in Txs /\ tx.id = << "forward", r >>
        BY <1>1, <3>4, <4>2, <4>3, HotWalletTxsTyped
      <4>5. /\ "forwardSubmit" \in SubmitPoints /\ "forwardSubmit" # "sweepSubmit"
            /\ KindAt("forwardSubmit") = "forward"
        BY DEF SubmitPoints, KindAt
      <4>6. /\ draft' \in [Handlers -> Txs \cup {None}]
            /\ draft'[r] = tx
            /\ \A g \in Handlers : g # r => draft'[g] = draft[g]
        BY <1>1, <3>4, <4>4 DEF HandlersOK
      <4> QED
        BY <1>1, <2>0, <3>1, <3>4, <4>4, <4>5, <4>6, DraftType
    <3> QED
      BY <1>1, <1>2, <2>5, <3>1, <3>2, <3>3, <3>4 DEF ForwardLookup
  <2>6. CASE ForwardSubmit(r)
    <3>1. /\ pc[r] \in Awaits /\ pc[r] \in SubmitPoints
          /\ UNCHANGED << failures, crashes >>
          /\ Respond(r, "success")
          /\ Enqueue(draft[r]) \/ UNCHANGED node
      BY <2>6 DEF ForwardSubmit, Awaits, ForwardPoints, SubmitPoints
    <3>2. chain' \subseteq Txs /\ mempool' \subseteq Txs
      BY <1>1, <3>1, EnqueueType DEF node
    <3>3. HandlersOK' /\ Control' /\ DraftOwned'
      BY <1>1, <2>0, <3>1, RespondType DEF Outcomes
    <3> QED
      BY <1>1, <1>2, <3>1, <3>2, <3>3
  <2> QED
    BY <1>7, <2>1, <2>2, <2>3, <2>4, <2>5, <2>6 DEF SettleStep
<1>8. ASSUME NEW s \in Sweeps, SweepCall(s)
      PROVE  TypeInv'
  <2>1. /\ pc' = [pc EXCEPT ![s] = "sweepLookup"]
        /\ UNCHANGED << chain, mempool, req, draft, waited, polls, outcome, failures, crashes >>
    BY <1>8 DEF SweepCall, node, Goto
  <2>2. HandlersOK'
    BY <1>1, <2>1 DEF HandlersOK, Awaits, SweepPoints
  <2>3. pc'[s] = "sweepLookup" /\ \A g \in Handlers : g # s => pc'[g] = pc[g]
    BY <1>1, <2>1 DEF HandlersOK
  <2>4. outcome[s] = "none"
    BY <1>1, <1>8 DEF Control, SweepCall
  <2>5. Control'
    BY <1>1, <2>1, <2>3, <2>4, HandlerKinds DEF Control, SweepPoints
  <2>6. DraftOwned'
    BY <1>1, <2>1, <2>3 DEF DraftOwned, SubmitPoints
  <2> QED
    BY <1>1, <1>2, <2>1, <2>2, <2>5, <2>6
<1>9. ASSUME NEW s \in Sweeps, SweepLookup(s)
      PROVE  TypeInv'
  <2>1. /\ pc[s] = "sweepLookup"
        /\ UNCHANGED << chain, mempool, failures, crashes >>
    BY <1>9 DEF SweepLookup, node
  <2>2. CASE Respond(s, "nothing") \/ Respond(s, "error")
    BY <1>1, <1>2, <2>1, <2>2, RespondType DEF Outcomes
  <2>3. ASSUME NEW tx \in SweepTxs(s, CoinsAt(SigningAddress)),
               draft' = [draft EXCEPT ![s] = tx], Goto(s, "sweepSubmit"),
               UNCHANGED << req, waited, polls, outcome >>
        PROVE  HandlersOK' /\ Control' /\ DraftOwned'
    <3>2. tx \in Txs /\ tx.id = << "sweep", s >>
      BY <1>1, <2>3, SweepTxsTyped
    <3>3. "sweepSubmit" \in SubmitPoints /\ KindAt("sweepSubmit") = "sweep"
      BY DEF SubmitPoints, KindAt
    <3>4. /\ draft' \in [Handlers -> Txs \cup {None}]
          /\ draft'[s] = tx
          /\ \A g \in Handlers : g # s => draft'[g] = draft[g]
      BY <1>1, <2>3, <3>2 DEF HandlersOK
    <3>5. s \notin Verifies /\ s \notin Settles /\ pc[s] \in Awaits
      BY <2>1 DEF Awaits, SweepPoints
    <3> QED
      BY <1>1, <2>1, <2>3, <3>2, <3>3, <3>4, <3>5, DraftType
  <2> QED
    BY <1>1, <1>2, <1>9, <2>1, <2>2, <2>3 DEF SweepLookup
<1>10. ASSUME NEW s \in Sweeps, SweepSubmit(s)
       PROVE  TypeInv'
  <2>1. /\ pc[s] # "idle" /\ pc[s] \in SubmitPoints
        /\ UNCHANGED << failures, crashes >>
        /\ Respond(s, "swept") \/ Respond(s, "error")
        /\ Enqueue(draft[s]) \/ UNCHANGED node
    BY <1>10 DEF SweepSubmit, SubmitPoints
  <2>2. chain' \subseteq Txs /\ mempool' \subseteq Txs
    BY <1>1, <2>1, EnqueueType DEF node
  <2>3. HandlersOK' /\ Control' /\ DraftOwned'
    BY <1>1, <2>1, RespondType DEF Outcomes
  <2> QED
    BY <1>1, <1>2, <2>1, <2>2, <2>3
<1>11. ASSUME NEW h \in Handlers, RpcFails(h) \/ SubmitAnswerLost(h)
       PROVE  TypeInv'
  <2>1. /\ pc[h] # "idle" /\ crashes' = crashes
        /\ failures < MaxFailures /\ failures' = failures + 1
        /\ Respond(h, AnswerToFailure(h))
        /\ (pc[h] \in SubmitPoints /\ Enqueue(draft[h])) \/ UNCHANGED node
    BY <1>11 DEF RpcFails, SubmitAnswerLost, SubmitPoints, Awaits, ConfirmPoints,
                 ForwardPoints, SweepPoints
  <2>2. chain' \subseteq Txs /\ mempool' \subseteq Txs
    BY <1>1, <2>1, EnqueueType DEF node
  <2>3. HandlersOK' /\ Control' /\ DraftOwned'
    BY <1>1, <2>1, AnswerTyped, RespondType
  <2>4. failures' \in 0 .. MaxFailures
    BY <1>1, <2>1, FacilitatorAssumption
  <2> QED
    BY <1>1, <1>2, <2>1, <2>2, <2>3, <2>4
<1>12. CASE Crash
  <2>1. /\ crashes < MaxCrashes /\ crashes' = crashes + 1
        /\ pc' = [h \in Handlers |-> IF pc[h] \in Awaits THEN "lost" ELSE pc[h]]
        /\ draft' = [h \in Handlers |-> None]
        /\ waited' = [h \in Handlers |-> 0]
        /\ polls' = [h \in Handlers |-> 0]
        /\ UNCHANGED << req, outcome, failures >>
    BY <1>12 DEF Crash
  <2>2. chain' \subseteq Txs /\ mempool' \subseteq Txs
    BY <1>1, <1>12 DEF Crash, Submittable, DraftOwned
  <2>3. HandlersOK'
    BY <1>1, <2>1, FacilitatorAssumption DEF HandlersOK
  <2>4. \A h \in Handlers : /\ pc'[h] \in {"lost", pc[h]}
                            /\ pc'[h] \notin Awaits
    BY <2>1 DEF Awaits, ConfirmPoints, ForwardPoints, SweepPoints
  <2>5. Control'
    <3>1. \A h \in Handlers : pc[h] = "done" => pc'[h] = "done"
      BY <2>1 DEF Awaits, ConfirmPoints, ForwardPoints, SweepPoints
    <3>2. \A h \in Handlers : pc[h] = "idle" => pc'[h] = "idle"
      BY <2>1 DEF Awaits, ConfirmPoints, ForwardPoints, SweepPoints
    <3> QED
      BY <1>1, <2>1, <2>4, <3>1, <3>2 DEF Control, SweepPoints
  <2>6. DraftOwned'
    BY <2>4 DEF DraftOwned, SubmitPoints, Awaits, ForwardPoints, SweepPoints
  <2>7. crashes' \in 0 .. MaxCrashes
    BY <1>1, <2>1, FacilitatorAssumption
  <2> QED
    BY <1>1, <1>2, <2>1, <2>2, <2>3, <2>5, <2>6, <2>7
<1>13. CASE UNCHANGED vars
  BY <1>1, <1>2, <1>13 DEF vars, handlers, HandlersOK, Control, DraftOwned
<1> QED
  BY <1>3, <1>4, <1>5, <1>6, <1>7, <1>8, <1>9, <1>10, <1>11, <1>12, <1>13
     DEF Next, Progress, SweepStep

\* Every variable keeps its type in every behaviour: in particular no request
\* body, coin or transaction is ever malformed, and what a handler submits is
\* the transaction it built.
THEOREM TypeCorrect == SafetySpec => []TypeInv
  BY InitType, TypeStep, PTL DEF SafetySpec

\* The type invariant the runs check.
COROLLARY TypesAreCorrect == SafetySpec => []TypeOK
  BY TypeCorrect, PTL DEF TypeInv

-----------------------------------------------------------------------------
(* How a step moves a handler and the node.  The invariant of the settles  *)
(* needs no more of Next than these two summaries.                         *)

Before == {"idle", "verify", "lookup", "submit"}
Ended == {"done", "lost"}
After == ConfirmPoints \cup ForwardPoints

Untouched(g) ==
    /\ pc'[g] = pc[g] /\ draft'[g] = draft[g] /\ outcome'[g] = outcome[g]
    /\ g \in Requests => req'[g] = req[g]

\* A handler never goes back over its broadcast, keeps its request, submits
\* what it built from its coin, and passes its broadcast or succeeds only with
\* its transaction at the node.
Advances(g) ==
    /\ pc'[g] \in Before => pc[g] \in Before
    /\ pc'[g] \notin Ended => pc[g] \notin Ended
    /\ g \in Requests /\ pc[g] # "idle" => req'[g] = req[g]
    /\ g \in Settles /\ pc'[g] = "submit" =>
          \/ pc[g] = "submit" /\ draft'[g] = draft[g]
          \/ pc[g] = "lookup" /\ \E coin \in CoinOf(g) : draft'[g] = SettleTx(g, coin)
    /\ g \in Settles /\ (pc'[g] \in After \/ outcome'[g] = "success") =>
          \/ pc[g] \in After \/ outcome[g] = "success"
          \/ pc[g] = "submit" /\ draft[g] \in Known'

Submits(h) ==
    /\ Submittable(h)
    /\ pc'[h] \in Ended \/ (pc[h] = "submit" /\ pc'[h] = "start")

\* The node takes what some handlers have submitted: one, but when the
\* process dies under several.
Arrive(arrived) ==
    /\ arrived \in SUBSET Handlers /\ IsFiniteSet(arrived)
    /\ \A h \in arrived : Submits(h)
    /\ \A g, h \in arrived : g # h => draft[g].ins \cap draft[h].ins = {}
    /\ Known' = Known \cup { draft[h] : h \in arrived }

LEMMA UntouchedAdvances ==
    ASSUME NEW g \in Handlers, Untouched(g)
    PROVE  Advances(g)
  BY DEF Untouched, Advances

LEMMA EnqueueKnown ==
    ASSUME NEW tx, Enqueue(tx)
    PROVE  Known' = Known \cup {tx} /\ chain' = chain /\ tx \in Known'
  BY DEF Enqueue, Known

LEMMA GotoUntouched ==
    ASSUME TypeInv, NEW h \in Handlers, NEW point, Goto(h, point)
    PROVE  pc'[h] = point /\ \A g \in Handlers : g # h => pc'[g] = pc[g]
  BY DEF Goto, TypeInv, TypeOK

LEMMA RespondUntouched ==
    ASSUME TypeInv, NEW h \in Handlers, NEW answer, Respond(h, answer)
    PROVE  /\ pc'[h] = "done" /\ outcome'[h] = answer /\ req' = req
           /\ \A g \in Handlers : g # h => Untouched(g)
<1> USE HandlerKinds
<1>1. pc'[h] = "done" /\ \A g \in Handlers : g # h => pc'[g] = pc[g]
  BY GotoUntouched DEF Respond
<1>2. /\ outcome'[h] = answer /\ req' = req
      /\ \A g \in Handlers : g # h => outcome'[g] = outcome[g] /\ draft'[g] = draft[g]
  BY DEF Respond, TypeInv, TypeOK
<1> QED
  BY <1>1, <1>2 DEF Untouched

\* An answer that is not an unearned success keeps the summary.
LEMMA RespondAdvances ==
    ASSUME TypeInv, NEW h \in Handlers, pc[h] # "idle", pc[h] \notin Ended,
           NEW answer, Respond(h, answer),
           h \in Settles /\ answer = "success" => pc[h] \in After
    PROVE  \A g \in Handlers : Advances(g)
<1> USE HandlerKinds
<1>1. /\ pc'[h] = "done" /\ outcome'[h] = answer /\ req' = req
      /\ \A g \in Handlers : g # h => Untouched(g)
  BY RespondUntouched
<1>2. "done" \notin Before /\ "done" \in Ended /\ "done" # "submit" /\ "done" \notin After
  BY DEF Before, Ended, After, ConfirmPoints, ForwardPoints
<1>3. Advances(h)
  BY <1>1, <1>2 DEF Advances
<1> QED
  BY <1>1, <1>3, UntouchedAdvances

\* A handler that moves on by itself.
LEMMA GotoAdvances ==
    ASSUME TypeInv, NEW h \in Handlers, pc[h] \notin Ended, NEW point, Goto(h, point),
           UNCHANGED << req, outcome >>,
           \A g \in Handlers : g # h => draft'[g] = draft[g],
           point \in Before => pc[h] \in Before,
           point = "submit" =>
              pc[h] = "lookup" /\ \E coin \in CoinOf(h) : draft'[h] = SettleTx(h, coin),
           h \in Settles /\ point \in After =>
              pc[h] \in After \/ (pc[h] = "submit" /\ draft[h] \in Known')
    PROVE  \A g \in Handlers : Advances(g)
<1> USE HandlerKinds
<1>1. pc'[h] = point /\ \A g \in Handlers : g # h => pc'[g] = pc[g]
  BY GotoUntouched
<1>2. Advances(h)
  BY <1>1 DEF Advances
<1>3. \A g \in Handlers : g # h => Untouched(g)
  BY <1>1 DEF Untouched
<1> QED
  BY <1>2, <1>3, UntouchedAdvances

NodeMoves ==
    /\ chain \subseteq chain'
    /\ \E arrived : Arrive(arrived)

LEMMA NothingArrives ==
    ASSUME Known' = Known, chain \subseteq chain'
    PROVE  NodeMoves
<1>1. Arrive({})
  BY FS_EmptySet DEF Arrive
<1> QED
  BY <1>1 DEF NodeMoves

LEMMA QuietNode ==
    ASSUME UNCHANGED node
    PROVE  NodeMoves
  BY NothingArrives DEF node, Known

LEMMA OneArrives ==
    ASSUME NEW h \in Handlers, Submits(h), Enqueue(draft[h])
    PROVE  NodeMoves
<1>1. Known' = Known \cup {draft[h]} /\ chain' = chain
  BY EnqueueKnown
<1>2. Arrive({h})
  BY <1>1, FS_Singleton DEF Arrive
<1> QED
  BY <1>1, <1>2 DEF NodeMoves

LEMMA StepSummary ==
    ASSUME TypeInv, [Next]_vars
    PROVE  (\A g \in Handlers : Advances(g)) /\ NodeMoves
<1> USE HandlerKinds
<1> USE DEF Before, Ended, After, ConfirmPoints, ForwardPoints
<1> DEFINE Summary == (\A g \in Handlers : Advances(g)) /\ NodeMoves
<1>1. CASE NodeStep
  <2>1. \A g \in Handlers : Untouched(g)
    BY <1>1 DEF NodeStep, handlers, Untouched
  <2>2. Known' = Known /\ chain \subseteq chain'
    BY <1>1 DEF NodeStep, Accept, Known
  <2> QED
    BY <2>1, <2>2, UntouchedAdvances, NothingArrives
<1>2. CASE DaaAdvance
  <2>1. UNCHANGED node /\ \A g \in Handlers : Untouched(g)
    BY <1>2 DEF DaaAdvance, Untouched
  <2> QED
    BY <2>1, UntouchedAdvances, QuietNode
<1>3. ASSUME NEW r \in Requests, Receive(r)
      PROVE  Summary
  <2>1. /\ pc[r] = "idle" /\ UNCHANGED << node, draft >>
        /\ \/ Goto(r, "verify") /\ UNCHANGED outcome
           \/ Goto(r, "done") /\ outcome' = [outcome EXCEPT ![r] = Refusal(r)]
        /\ UNCHANGED req \/ \E body : req' = [req EXCEPT ![r] = body]
    BY <1>3 DEF Receive, ReceiveBody
  <2>2. pc'[r] \in {"verify", "done"} /\ \A g \in Handlers : g # r => pc'[g] = pc[g]
    BY <2>1, GotoUntouched
  <2>3. /\ outcome'[r] # "success" \/ outcome'[r] = outcome[r]
        /\ \A g \in Handlers : g # r => outcome'[g] = outcome[g]
        /\ \A q \in Requests : q # r => req'[q] = req[q]
    BY <2>1, RefusalTyped DEF TypeInv, TypeOK
  <2>4. Advances(r)
    BY <2>1, <2>2, <2>3 DEF Advances
  <2>5. \A g \in Handlers : g # r => Untouched(g)
    BY <2>1, <2>2, <2>3 DEF Untouched
  <2> QED
    BY <2>1, <2>4, <2>5, UntouchedAdvances, QuietNode
<1>4. ASSUME NEW r \in Requests, VerifyLookup(r)
      PROVE  Summary
  <2>1. pc[r] = "verify" /\ UNCHANGED node
    BY <1>4 DEF VerifyLookup
  <2>2. CASE Respond(r, Refusal(r)) \/ Respond(r, "valid")
    BY <2>1, <2>2, RefusalTyped, RespondAdvances, QuietNode
  <2>3. CASE Goto(r, "lookup") /\ UNCHANGED << req, draft, waited, polls, outcome >>
    BY <2>1, <2>3, GotoAdvances, QuietNode
  <2> QED
    BY <1>4, <2>2, <2>3 DEF VerifyLookup
<1>5. ASSUME NEW r \in Settles, SettleLookup(r)
      PROVE  Summary
  <2>1. pc[r] = "lookup" /\ UNCHANGED node
    BY <1>5 DEF SettleLookup
  <2>2. CASE Respond(r, "refused")
    BY <2>1, <2>2, RespondAdvances, QuietNode
  <2>3. ASSUME NEW coin \in CoinOf(r),
               draft' = [draft EXCEPT ![r] = SettleTx(r, coin)],
               Goto(r, "submit"), UNCHANGED << req, waited, polls, outcome >>
        PROVE  \A g \in Handlers : Advances(g)
    <3>1. /\ draft'[r] = SettleTx(r, coin)
          /\ \A g \in Handlers : g # r => draft'[g] = draft[g]
      BY <2>3 DEF TypeInv, TypeOK
    <3> QED
      BY <2>1, <2>3, <3>1, GotoAdvances
  <2> QED
    BY <1>5, <2>1, <2>2, <2>3, QuietNode DEF SettleLookup
<1>6. ASSUME NEW r \in Settles, SettleSubmit(r)
      PROVE  Summary
  <2>1. pc[r] = "submit"
    BY <1>6 DEF SettleSubmit
  <2>2. CASE /\ NodeAccepts(draft[r], SigsOf(r, draft[r]))
             /\ Enqueue(draft[r]) /\ Goto(r, "start")
             /\ draft' = [draft EXCEPT ![r] = None]
             /\ UNCHANGED << req, waited, polls, outcome >>
    <3>1. Known' = Known \cup {draft[r]} /\ chain' = chain /\ draft[r] \in Known'
      BY <2>2, EnqueueKnown
    <3>2. \A g \in Handlers : g # r => draft'[g] = draft[g]
      BY <2>2 DEF TypeInv, TypeOK
    <3>3. \A g \in Handlers : Advances(g)
      BY <2>1, <2>2, <3>1, <3>2, GotoAdvances
    <3>4. pc'[r] = "start"
      BY <2>2, GotoUntouched
    <3>5. Submits(r)
      BY <2>1, <2>2, <3>1, <3>4 DEF Submits, Submittable, SubmitPoints
    <3> QED
      BY <2>2, <3>3, <3>5, OneArrives
  <2>3. CASE Respond(r, "error") /\ UNCHANGED node
    BY <2>1, <2>3, RespondAdvances, QuietNode
  <2> QED
    BY <1>6, <2>2, <2>3 DEF SettleSubmit
<1>7. ASSUME NEW r \in Settles, StartConfirmation(r)
      PROVE  Summary
  BY <1>7, GotoAdvances, QuietNode DEF StartConfirmation
<1>8. ASSUME NEW r \in Settles, Confirmed(r)
      PROVE  Summary
  <2>1. pc[r] = "confirm" /\ UNCHANGED node
    BY <1>8 DEF Confirmed
  <2>2. CASE Goto(r, "forwardLookup") /\ UNCHANGED << req, draft, polls, outcome >>
    BY <2>1, <2>2, GotoAdvances, QuietNode
  <2>3. CASE Respond(r, "success")
    BY <2>1, <2>3, RespondAdvances, QuietNode
  <2> QED
    BY <1>8, <2>2, <2>3 DEF Confirmed
<1>9. ASSUME NEW r \in Settles, ForwardLookup(r)
      PROVE  Summary
  <2>1. pc[r] = "forwardLookup" /\ UNCHANGED node
    BY <1>9 DEF ForwardLookup
  <2>2. CASE UNCHANGED << pc, req, draft, waited, outcome >>
    BY <2>1, <2>2, UntouchedAdvances, QuietNode DEF Untouched
  <2>3. CASE Respond(r, "success")
    BY <2>1, <2>3, RespondAdvances, QuietNode
  <2>4. ASSUME NEW tx, draft' = [draft EXCEPT ![r] = tx], Goto(r, "forwardSubmit"),
               UNCHANGED << req, waited, polls, outcome >>
        PROVE  \A g \in Handlers : Advances(g)
    <3>1. \A g \in Handlers : g # r => draft'[g] = draft[g]
      BY <2>4 DEF TypeInv, TypeOK
    <3> QED
      BY <2>1, <2>4, <3>1, GotoAdvances
  <2> QED
    BY <1>9, <2>1, <2>2, <2>3, <2>4, QuietNode DEF ForwardLookup
<1>10. ASSUME NEW s \in Sweeps, SweepCall(s)
       PROVE  Summary
  BY <1>10, GotoAdvances, QuietNode DEF SweepCall
<1>11. ASSUME NEW s \in Sweeps, SweepLookup(s)
       PROVE  Summary
  <2>1. pc[s] = "sweepLookup" /\ UNCHANGED node
    BY <1>11 DEF SweepLookup
  <2>2. CASE Respond(s, "nothing") \/ Respond(s, "error")
    BY <2>1, <2>2, RespondAdvances, QuietNode
  <2>3. ASSUME NEW tx, draft' = [draft EXCEPT ![s] = tx], Goto(s, "sweepSubmit"),
               UNCHANGED << req, waited, polls, outcome >>
        PROVE  \A g \in Handlers : Advances(g)
    <3>1. \A g \in Handlers : g # s => draft'[g] = draft[g]
      BY <2>3 DEF TypeInv, TypeOK
    <3> QED
      BY <2>1, <2>3, <3>1, GotoAdvances
  <2> QED
    BY <1>11, <2>1, <2>2, <2>3, QuietNode DEF SweepLookup
<1>12. ASSUME NEW h \in Handlers, NEW answer,
              pc[h] \in SubmitPoints, NodeAccepts(draft[h], SigsOf(h, draft[h])),
              Enqueue(draft[h]), Respond(h, answer),
              h \in Settles /\ answer = "success" => pc[h] \in After
       PROVE  Summary
  <2>1. pc[h] # "idle" /\ pc[h] \notin Ended
    BY <1>12 DEF SubmitPoints
  <2>2. \A g \in Handlers : Advances(g)
    BY <1>12, <2>1, RespondAdvances
  <2>3. Known' = Known \cup {draft[h]} /\ chain' = chain
    BY <1>12, EnqueueKnown
  <2>4. pc'[h] = "done"
    BY <1>12, RespondUntouched
  <2>5. Submits(h)
    BY <1>12, <2>3, <2>4 DEF Submits, Submittable
  <2> QED
    BY <1>12, <2>2, <2>5, OneArrives
<1>13. ASSUME NEW r \in Settles, ForwardSubmit(r)
       PROVE  Summary
  <2>1. pc[r] = "forwardSubmit" /\ pc[r] \in SubmitPoints /\ Respond(r, "success")
    BY <1>13 DEF ForwardSubmit, SubmitPoints
  <2>2. CASE NodeAccepts(draft[r], SigsOf(r, draft[r])) /\ Enqueue(draft[r])
    BY <1>12, <2>1, <2>2
  <2>3. CASE UNCHANGED node
    BY <2>1, <2>3, RespondAdvances, QuietNode
  <2> QED
    BY <1>13, <2>2, <2>3 DEF ForwardSubmit
<1>14. ASSUME NEW s \in Sweeps, SweepSubmit(s)
       PROVE  Summary
  <2>1. pc[s] = "sweepSubmit" /\ pc[s] \in SubmitPoints /\ s \notin Settles
    BY <1>14 DEF SweepSubmit, SubmitPoints
  <2>2. CASE /\ NodeAccepts(draft[s], SigsOf(s, draft[s])) /\ Enqueue(draft[s])
             /\ Respond(s, "swept")
    BY <1>12, <2>1, <2>2
  <2>3. CASE UNCHANGED node /\ Respond(s, "error")
    BY <2>1, <2>3, RespondAdvances, QuietNode
  <2> QED
    BY <1>14, <2>2, <2>3 DEF SweepSubmit
<1>15. ASSUME NEW h \in Handlers, RpcFails(h) \/ SubmitAnswerLost(h)
       PROVE  Summary
  <2>1. /\ pc[h] # "idle" /\ pc[h] \notin Ended
        /\ Respond(h, AnswerToFailure(h))
    BY <1>15 DEF RpcFails, SubmitAnswerLost, SubmitPoints, Awaits, SweepPoints
  <2>2. AnswerToFailure(h) = "success" => pc[h] \in After
    BY DEF AnswerToFailure, Refusal
  <2>3. CASE RpcFails(h)
    BY <2>1, <2>2, <2>3, RespondAdvances, QuietNode DEF RpcFails
  <2>4. CASE SubmitAnswerLost(h)
    BY <1>12, <2>2, <2>4 DEF SubmitAnswerLost
  <2> QED
    BY <1>15, <2>3, <2>4
<1>16. CASE Crash
  <2>1. /\ \A g \in Handlers : pc'[g] = IF pc[g] \in Awaits THEN "lost" ELSE pc[g]
        /\ UNCHANGED << req, outcome >>
    BY <1>16 DEF Crash
  <2>2. \A g \in Handlers : pc[g] \in Awaits \cup {"idle", "done", "lost"}
    BY DEF TypeInv, TypeOK
  <2>3. \A g \in Handlers : Advances(g)
    BY <2>1, <2>2 DEF Advances, Awaits, SweepPoints
  <2>4. PICK arrived \in SUBSET { h \in Handlers : Submittable(h) } :
           /\ IsFiniteSet(arrived)
           /\ \A g, h \in arrived : g # h => draft[g].ins \cap draft[h].ins = {}
           /\ mempool' = mempool \cup { draft[h] : h \in arrived } /\ chain' = chain
    BY <1>16 DEF Crash
  <2>5. \A h \in arrived : Submits(h)
    BY <2>1, <2>4 DEF Submits, Submittable, SubmitPoints, Awaits, SweepPoints
  <2>6. Arrive(arrived)
    BY <2>4, <2>5 DEF Arrive, Known
  <2> QED
    BY <2>3, <2>4, <2>6 DEF NodeMoves
<1>17. CASE UNCHANGED vars
  <2>1. UNCHANGED node /\ \A g \in Handlers : Untouched(g)
    BY <1>17 DEF vars, handlers, node, Untouched
  <2> QED
    BY <2>1, UntouchedAdvances, QuietNode
<1> QED
  BY <1>1, <1>2, <1>3, <1>4, <1>5, <1>6, <1>7, <1>8, <1>9, <1>10, <1>11,
     <1>13, <1>14, <1>15, <1>16, <1>17 DEF Next, Progress, SettleStep, SweepStep

-----------------------------------------------------------------------------
(* The invariant of the settles.                                           *)

\* A handler's transaction is told apart by its kind and its handler.
LEMMA DraftId ==
    ASSUME TypeInv, NEW h \in Handlers, pc[h] \in SubmitPoints
    PROVE  /\ draft[h] \in Txs
           /\ \A r \in Settles : draft[h].id = << "settle", r >> => h = r /\ pc[h] = "submit"
           /\ \A r \in Settles : draft[h].id = << "forward", r >> => h = r /\ pc[h] = "forwardSubmit"
           /\ \A s \in Sweeps : draft[h].id = << "sweep", s >> => h = s /\ pc[h] = "sweepSubmit"
  BY DEF TypeInv, DraftOwned, SubmitPoints, KindAt

\* An unspent coin is in no known transaction but those of the mempool.
LEMMA AcceptedIsFresh ==
    ASSUME NEW tx, NEW sigs, NodeAccepts(tx, sigs), NEW u \in Known
    PROVE  tx.ins \cap u.ins = {}
  BY DEF NodeAccepts, Utxo, Consumed, Pending, Known

\* No new transaction repeats an id: its handler had submitted nothing yet.
LEMMA SubmittedIsFresh ==
    ASSUME TypeInv, Fresh, NEW h \in Handlers, pc[h] \in SubmitPoints,
           NEW u \in Known
    PROVE  u.id # draft[h].id
<1> USE HandlerKinds
<1>1. draft[h].id = << KindAt(pc[h]), h >>
  BY DEF TypeInv, DraftOwned
<1>2. CASE pc[h] = "submit"
  <2>1. h \in Settles
    BY <1>2 DEF TypeInv, Control, SweepPoints
  <2> QED
    BY <1>1, <1>2, <2>1 DEF Fresh, KindAt
<1>3. CASE pc[h] = "forwardSubmit"
  <2>1. h \in Settles
    BY <1>3 DEF TypeInv, Control, SweepPoints
  <2> QED
    BY <1>1, <1>3, <2>1 DEF Fresh, KindAt
<1>4. CASE pc[h] = "sweepSubmit"
  <2>1. h \in Sweeps
    BY <1>4 DEF TypeInv, Control, SweepPoints
  <2> QED
    BY <1>1, <1>4, <2>1 DEF Fresh, KindAt
<1> QED
  BY <1>2, <1>3, <1>4 DEF SubmitPoints

\* What is settled for a request stays so: coins are never uncreated.
LEMMA SettlementStays ==
    ASSUME NEW r \in Settles, NEW tx, Settlement(r, tx),
           chain \subseteq chain', req'[r] = req[r]
    PROVE  Settlement(r, tx)'
<1>1. PICK coin \in Created :
         /\ tx = SettleTx(r, coin)
         /\ coin.outpoint = req[r].outpoint
         /\ coin.address = ChannelAddress(req[r].params)
  BY DEF Settlement
<1>2. coin \in Created'
  BY <1>1 DEF Created
<1>3. SettleTx(r, coin)' = SettleTx(r, coin)
  BY DEF SettleTx
<1> QED
  BY <1>1, <1>2, <1>3 DEF Settlement

LEMMA SettlementOutputs ==
    ASSUME TypeInv, NEW r \in Settles, req[r] \in Bodies, NEW tx, Settlement(r, tx)
    PROVE  /\ tx.id = << "settle", r >>
           /\ tx.outs[1] = Pay(SigningAddress, req[r].required.amount)
           /\ \E coin \in Created : /\ tx.ins = {coin}
                                    /\ coin.outpoint = req[r].outpoint
                                    /\ coin.address = ChannelAddress(req[r].params)
<1>1. PICK coin \in Created :
         /\ tx = SettleTx(r, coin)
         /\ coin.outpoint = req[r].outpoint
         /\ coin.address = ChannelAddress(req[r].params)
  BY DEF Settlement
<1>2. coin \in Coins
  BY CreatedTyped DEF TypeInv, TypeOK
<1> QED
  BY <1>1, <1>2, SettleTxTyped

\* The contract lets a channel coin go only with its client's signature on
\* the outputs; the facilitator's own signatures are not the client's.
LEMMA AcceptedIsSigned ==
    ASSUME TypeInv, NEW r \in Settles, pc[r] = "submit", Settlement(r, draft[r]),
           NodeAccepts(draft[r], SigsOf(r, draft[r]))
    PROVE  req[r].sig = Sign(req[r].params.client, req[r].outpoint, draft[r].outs)
<1>0. req[r] \in Bodies /\ req[r].params \in ChannelParams
  BY HandlerKinds DEF TypeInv, Control, Bodies, Awaits
<1>1. PICK coin \in Created : /\ draft[r].ins = {coin}
                              /\ coin.outpoint = req[r].outpoint
                              /\ coin.address = ChannelAddress(req[r].params)
  BY <1>0, SettlementOutputs
<1> DEFINE params == req[r].params
           tx == draft[r]
           signature == Sign(params.client, req[r].outpoint, tx.outs)
<1>2. IsChannelAddress(coin.address) /\ coin.address.params = params
  BY <1>0, <1>1 DEF ChannelAddress, IsChannelAddress
<1>3. Unlocks(coin, tx, SigsOf(r, tx))
  BY <1>1 DEF NodeAccepts
<1>4. signature \in SigsOf(r, tx)
  BY <1>1, <1>2, <1>3 DEF Unlocks, SettleAccepts
<1>5. SigsOf(r, tx) = {req[r].sig} \cup HotWalletSigs(tx)
  BY DEF SigsOf, SettleSigs
<1>6. signature \notin HotWalletSigs(tx)
  <2>1. params.client # FacilitatorKey
    BY <1>0, KeyAssumption DEF ChannelParams
  <2>2. signature.signer = params.client
    BY DEF Sign
  <2>3. \A sig \in HotWalletSigs(tx) : sig.signer = FacilitatorKey
    BY DEF HotWalletSigs, WalletSigs, Sign
  <2> QED
    BY <2>1, <2>2, <2>3
<1> QED
  BY <1>4, <1>5, <1>6

\* At the start the node holds only what handlers never submit.
LEMMA InitSettle == Init => SettleInv
<1> SUFFICES ASSUME Init PROVE SettleInv
  OBVIOUS
<1> USE HandlerKinds
<1>1. \A tx \in Known : \/ \E ch \in Channels : tx = FundTx(ch)
                        \/ tx = FloatTx
  BY DEF Init, Known
<1>2. \A ch \in Channels : FundTx(ch).id = << "fund", ch >> /\ FundTx(ch).ins = {}
  BY DEF FundTx
<1>3. FloatTx.id = << "float", FacilitatorKey >> /\ FloatTx.ins = {}
  BY DEF FloatTx
<1>4. \A tx \in Known : \A h : /\ tx.id # << "settle", h >>
                              /\ tx.id # << "forward", h >>
                              /\ tx.id # << "sweep", h >>
  BY <1>1, <1>2, <1>3
<1>5. UniqueIds
  BY <1>1, <1>2, <1>3 DEF UniqueIds
<1>6. NoDoubleSpend
  BY <1>1, <1>2, <1>3 DEF NoDoubleSpend
<1>7. Fresh /\ SettledAsSigned
  BY <1>4 DEF Fresh, SettledAsSigned, HasId
<1>8. DraftSettles /\ Backed
  BY DEF Init, DraftSettles, Backed, ConfirmPoints, ForwardPoints
<1> QED
  BY <1>5, <1>6, <1>7, <1>8 DEF SettleInv

LEMMA SettleStepInv ==
    ASSUME TypeInv, SettleInv, [Next]_vars
    PROVE  SettleInv'
<1> USE HandlerKinds
<1>1. /\ DraftSettles /\ UniqueIds /\ NoDoubleSpend
      /\ Fresh /\ Backed /\ SettledAsSigned
  BY DEF SettleInv
<1>2. (\A g \in Handlers : Advances(g)) /\ NodeMoves
  BY StepSummary
<1>0. PICK arrived : Arrive(arrived)
  BY <1>2 DEF NodeMoves
<1>3. chain \subseteq chain' /\ Known \subseteq Known'
  BY <1>0, <1>2 DEF NodeMoves, Arrive
<1>4. \A tx \in Known' : tx \notin Known =>
         \E h \in Handlers : h \in arrived /\ Submits(h) /\ tx = draft[h]
  BY <1>0 DEF Arrive
<1>5. UniqueIds'
  <2> SUFFICES ASSUME NEW t \in Known', NEW u \in Known', t.id = u.id
               PROVE  t = u
    BY DEF UniqueIds
  <2>1. ASSUME NEW h \in Handlers, Submits(h), NEW v \in Known
        PROVE  v.id # draft[h].id
    BY <1>1, <2>1, SubmittedIsFresh DEF Submits, Submittable
  <2>2. ASSUME NEW g \in Handlers, Submits(g), NEW h \in Handlers, Submits(h),
               draft[g].id = draft[h].id
        PROVE  g = h
    BY <2>2 DEF TypeInv, DraftOwned, Submits, Submittable
  <2> QED
    BY <1>1, <1>4, <2>1, <2>2 DEF UniqueIds
<1>6. NoDoubleSpend'
  <2> SUFFICES ASSUME NEW t \in Known', NEW u \in Known', t # u
               PROVE  t.ins \cap u.ins = {}
    BY DEF NoDoubleSpend
  <2>1. ASSUME NEW h \in Handlers, Submits(h), NEW v \in Known
        PROVE  draft[h].ins \cap v.ins = {}
    BY <2>1, AcceptedIsFresh DEF Submits, Submittable
  <2>2. ASSUME NEW g \in arrived, NEW h \in arrived, g # h
        PROVE  draft[g].ins \cap draft[h].ins = {}
    BY <1>0, <2>2 DEF Arrive
  <2> QED
    BY <1>1, <1>4, <2>1, <2>2 DEF NoDoubleSpend
<1>7. Fresh'
  <2>1. ASSUME NEW h \in Handlers, Submits(h)
        PROVE  /\ \A r \in Settles : pc'[r] \in Before => draft[h].id # << "settle", r >>
               /\ \A r \in Settles : pc'[r] \notin Ended => draft[h].id # << "forward", r >>
               /\ \A s \in Sweeps : pc'[s] \notin Ended => draft[h].id # << "sweep", s >>
    <3>1. /\ pc[h] \in SubmitPoints
          /\ pc'[h] \in Ended \/ (pc[h] = "submit" /\ pc'[h] = "start")
      BY <2>1 DEF Submits, Submittable
    <3> QED
      BY <3>1, DraftId DEF Before, Ended
  <2>2. ASSUME NEW tx \in Known
        PROVE  /\ \A r \in Settles : pc'[r] \in Before => tx.id # << "settle", r >>
               /\ \A r \in Settles : pc'[r] \notin Ended => tx.id # << "forward", r >>
               /\ \A s \in Sweeps : pc'[s] \notin Ended => tx.id # << "sweep", s >>
    BY <1>1, <1>2 DEF Fresh, Advances, Before, Ended
  <2> QED
    BY <1>4, <2>1, <2>2 DEF Fresh, Before, Ended
<1>8. Backed'
  <2> SUFFICES ASSUME NEW r \in Settles, pc'[r] \in After \/ outcome'[r] = "success"
               PROVE  \E tx \in Known' : HasId(tx, "settle", r)
    BY DEF Backed, After
  <2>1. \/ pc[r] \in After \/ outcome[r] = "success"
        \/ pc[r] = "submit" /\ draft[r] \in Known'
    BY <1>2 DEF Advances
  <2>2. CASE pc[r] \in After \/ outcome[r] = "success"
    BY <1>1, <1>3, <2>2 DEF Backed, After
  <2>3. CASE pc[r] = "submit" /\ draft[r] \in Known'
    <3>1. draft[r].id = << "settle", r >>
      BY <2>3 DEF TypeInv, DraftOwned, SubmitPoints, KindAt
    <3> QED
      BY <2>3, <3>1 DEF HasId
  <2> QED
    BY <2>1, <2>2, <2>3
<1>9. SettledAsSigned'
  <2> SUFFICES ASSUME NEW tx \in Known', NEW r \in Settles, HasId(tx, "settle", r)
               PROVE  /\ req'[r] \in Bodies
                      /\ Settlement(r, tx)'
                      /\ req'[r].sig = Sign(req'[r].params.client, req'[r].outpoint, tx.outs)
    BY DEF SettledAsSigned
  <2>1. /\ pc[r] # "idle" /\ req[r] \in Bodies /\ Settlement(r, tx)
        /\ req[r].sig = Sign(req[r].params.client, req[r].outpoint, tx.outs)
    <3>1. CASE tx \in Known
      BY <1>1, <3>1 DEF Fresh, SettledAsSigned, HasId
    <3>2. CASE tx \notin Known
      <4>1. PICK h \in Handlers : Submits(h) /\ tx = draft[h]
        BY <1>4, <3>2
      <4>2. h = r /\ pc[r] = "submit"
        BY <4>1, DraftId DEF HasId, Submits, Submittable
      <4>3. req[r] \in Bodies /\ Settlement(r, tx)
        BY <1>1, <4>1, <4>2 DEF TypeInv, Control, DraftSettles, Awaits
      <4>4. req[r].sig = Sign(req[r].params.client, req[r].outpoint, tx.outs)
        BY <4>1, <4>2, <4>3, AcceptedIsSigned DEF Submits, Submittable
      <4> QED
        BY <4>2, <4>3, <4>4
    <3> QED
      BY <3>1, <3>2
  <2>2. req'[r] = req[r]
    BY <1>2, <2>1 DEF Advances
  <2>3. Settlement(r, tx)'
    BY <1>3, <2>1, <2>2, SettlementStays
  <2> QED
    BY <2>1, <2>2, <2>3
<1>10. DraftSettles'
  <2> SUFFICES ASSUME NEW r \in Settles, pc'[r] = "submit",
                      NEW tx, tx = draft'[r]
               PROVE  Settlement(r, tx)'
    BY DEF DraftSettles, Settlement
  <2>1. \/ pc[r] = "submit" /\ draft'[r] = draft[r]
        \/ pc[r] = "lookup" /\ \E coin \in CoinOf(r) : draft'[r] = SettleTx(r, coin)
    BY <1>2 DEF Advances
  <2>2. req'[r] = req[r]
    BY <1>2, <2>1 DEF Advances
  <2>3. CASE pc[r] = "submit" /\ draft'[r] = draft[r]
    <3>1. Settlement(r, tx)
      BY <1>1, <2>3 DEF DraftSettles
    <3> QED
      BY <1>3, <2>2, <3>1, SettlementStays
  <2>4. ASSUME NEW coin \in CoinOf(r), draft'[r] = SettleTx(r, coin)
        PROVE  Settlement(r, tx)'
    <3>1. /\ coin \in Created
          /\ coin.outpoint = req[r].outpoint
          /\ coin.address = ChannelAddress(req[r].params)
      BY DEF CoinOf, CoinsAt, Utxo
    <3>2. Settlement(r, tx)
      BY <2>4, <3>1 DEF Settlement
    <3> QED
      BY <1>3, <2>2, <3>2, SettlementStays
  <2> QED
    BY <2>1, <2>3, <2>4
<1> QED
  BY <1>5, <1>6, <1>7, <1>8, <1>9, <1>10 DEF SettleInv

\* The node's refusal of double spends is all that keeps two settles of one
\* coin apart, and UniqueIds is what makes an outpoint name one coin.
LEMMA SettlesSpendApart ==
    ASSUME TypeInv, SettleInv
    PROVE  OnePaymentPerSuccess
<1> SUFFICES ASSUME NEW r1 \in Settles, NEW r2 \in Settles, r1 # r2,
                    outcome[r1] = "success", outcome[r2] = "success",
                    req[r1].outpoint = req[r2].outpoint
             PROVE  FALSE
  BY DEF OnePaymentPerSuccess, Succeeded
<1>1. ASSUME NEW r \in Settles, outcome[r] = "success"
      PROVE  \E tx \in Known :
                /\ tx.id = << "settle", r >>
                /\ \E coin \in Created : /\ tx.ins = {coin}
                                         /\ coin.outpoint = req[r].outpoint
  <2>1. PICK tx \in Known : HasId(tx, "settle", r)
    BY <1>1 DEF SettleInv, Backed
  <2>2. req[r] \in Bodies /\ Settlement(r, tx)
    BY <2>1 DEF SettleInv, SettledAsSigned
  <2> QED
    BY <2>2, SettlementOutputs
<1>2. PICK t \in Known :
         /\ t.id = << "settle", r1 >>
         /\ \E coin \in Created : t.ins = {coin} /\ coin.outpoint = req[r1].outpoint
  BY <1>1
<1>3. PICK u \in Known :
         /\ u.id = << "settle", r2 >>
         /\ \E coin \in Created : u.ins = {coin} /\ coin.outpoint = req[r2].outpoint
  BY <1>1
<1>4. PICK c \in Created : t.ins = {c} /\ c.outpoint = req[r1].outpoint
  BY <1>2
<1>5. PICK d \in Created : u.ins = {d} /\ d.outpoint = req[r2].outpoint
  BY <1>3
<1>6. c = d
  <2>1. PICK a \in chain : c \in OutputsOf(a)
    BY DEF Created
  <2>2. PICK b \in chain : d \in OutputsOf(b)
    BY DEF Created
  <2>3. PICK i : c = Coin(a, i)
    BY <2>1 DEF OutputsOf
  <2>4. PICK j : d = Coin(b, j)
    BY <2>2 DEF OutputsOf
  <2>5. << a.id, i >> = << b.id, j >>
    BY <1>4, <1>5, <2>3, <2>4 DEF Coin
  <2>6. a = b
    BY <2>1, <2>2, <2>5 DEF SettleInv, UniqueIds, Known
  <2> QED
    BY <2>3, <2>4, <2>5, <2>6
<1>7. t # u
  BY <1>2, <1>3
<1> QED
  BY <1>4, <1>5, <1>6, <1>7 DEF SettleInv, NoDoubleSpend

LEMMA SettlesPayThePrice ==
    ASSUME TypeInv, SettleInv
    PROVE  SuccessPaysThePrice
<1> SUFFICES ASSUME NEW r \in Settles, outcome[r] = "success"
             PROVE  \E tx \in Known :
                       /\ HasId(tx, "settle", r)
                       /\ Settlement(r, tx)
                       /\ tx.outs[1] = Pay(SigningAddress, req[r].required.amount)
                       /\ req[r].sig = Sign(req[r].params.client, req[r].outpoint, tx.outs)
  BY DEF SuccessPaysThePrice, Succeeded
<1>1. PICK tx \in Known : HasId(tx, "settle", r)
  BY DEF SettleInv, Backed
<1>2. /\ req[r] \in Bodies /\ Settlement(r, tx)
      /\ req[r].sig = Sign(req[r].params.client, req[r].outpoint, tx.outs)
  BY <1>1 DEF SettleInv, SettledAsSigned
<1>3. tx.outs[1] = Pay(SigningAddress, req[r].required.amount)
  BY <1>2, SettlementOutputs
<1> QED
  BY <1>1, <1>2, <1>3

\* At every moment each settle call past its broadcast, or answered with a
\* success, has at the node the one transaction its request asked for and its
\* client signed, and no two known transactions share a coin or an id.
THEOREM SettleCorrect == SafetySpec => []SettleInv
<1>1. TypeInv /\ SettleInv /\ [Next]_vars => SettleInv'
  BY SettleStepInv
<1> QED
  BY <1>1, InitSettle, TypeCorrect, PTL DEF SafetySpec

\* Two settle calls that both answer success spent two different coins, for
\* any number of concurrent, repeated, failing and restarted calls: one
\* payment never buys two responses.
THEOREM OnePaymentCorrect == SafetySpec => []OnePaymentPerSuccess
  BY SettleCorrect, TypeCorrect, SettlesSpendApart, PTL

\* Every success response of settle is backed by a transaction at the node
\* that pays the required price out of the coin the payload names, under the
\* client's signature on those very outputs.
THEOREM PriceCorrect == SafetySpec => []SuccessPaysThePrice
  BY SettleCorrect, TypeCorrect, SettlesPayThePrice, PTL

=============================================================================
