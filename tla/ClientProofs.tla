---------------------------- MODULE ClientProofs ----------------------------
(***************************************************************************)
(* Theorems about the client for any number of calls, prices, failures and *)
(* channels.  What the node has of a client was signed by it, whatever its *)
(* application does; of an application that keeps the discipline, the      *)
(* record names the client's coin, no coin is forgotten, and every payment *)
(* that is sent can be settled.                                            *)
(***************************************************************************)
EXTENDS ClientProperties, TLAPS

-----------------------------------------------------------------------------
(* Coins, outputs and transactions.                                        *)

LEMMA CallKinds ==
    /\ Fetches \subseteq Openers /\ Opens \subseteq Openers
    /\ Openers \subseteq Calls /\ Refreshes \subseteq Calls
    /\ \A c \in Fetches : c \notin Opens /\ c \notin Refreshes
    /\ \A c \in Opens : c \notin Refreshes
    /\ \A c \in Openers : c \in Fetches \/ c \in Opens
    /\ None \notin Openers
  BY ClientAssumption DEF Openers, Calls

LEMMA CoinTyped ==
    ASSUME NEW tx \in Txs, NEW vout \in DOMAIN tx.outs
    PROVE  Coin(tx, vout) \in Coins
<1>1. tx.id \in TxIds /\ tx.outs \in Seq(Outputs)
  BY DEF Txs
<1>2. vout \in Nat \ {0} /\ tx.outs[vout] \in Outputs
  BY <1>1
<1>3. << tx.id, vout >> \in Outpoints
  BY <1>1, <1>2 DEF Outpoints
<1>4. tx.outs[vout].address \in Addresses /\ tx.outs[vout].amount \in Nat
  BY <1>2 DEF Outputs
<1> QED
  BY <1>3, <1>4 DEF Coin, Coins

LEMMA OutputsAreCoins ==
    ASSUME NEW tx \in Txs
    PROVE  OutputsOf(tx) \subseteq Coins /\ Change(tx) \subseteq OutputsOf(tx)
  BY CoinTyped DEF OutputsOf, Change

LEMMA CreatedTyped ==
    ASSUME chain \subseteq Txs
    PROVE  Created \subseteq Coins /\ Utxo \subseteq Created
<1>1. Created \subseteq Coins
  BY OutputsAreCoins DEF Created
<1> QED
  BY <1>1 DEF Utxo

LEMMA ChannelCoin ==
    ASSUME NEW coin \in Coins, IsChannelAddress(coin.address)
    PROVE  /\ coin.address.params \in OwnParams
           /\ coin.address = ChannelAddress(coin.address.params)
<1>1. coin.address \in Addresses /\ coin.address.kind = "channel"
  BY DEF Coins, IsChannelAddress
<1>2. coin.address \in [kind : {"channel"}, params : OwnParams]
  BY <1>1 DEF Addresses, WalletAddress
<1> QED
  BY <1>2 DEF ChannelAddress

LEMMA SigningTyped == SigningAddress \in Addresses
  BY DEF SigningAddress, Addresses, Owners

LEMMA ChannelAddressTyped ==
    ASSUME NEW params \in OwnParams
    PROVE  /\ NextParams(params) \in OwnParams
           /\ ChannelAddress(params) \in Addresses
           /\ IsChannelAddress(ChannelAddress(params))
  BY DEF NextParams, OwnParams, ChannelAddress, Addresses, IsChannelAddress

LEMMA PayTyped ==
    ASSUME NEW address \in Addresses, NEW amount \in Nat
    PROVE  Pay(address, amount) \in Outputs
  BY DEF Pay, Outputs

LEMMA WalletIsNoChannel ==
    ASSUME NEW owner
    PROVE  ~ IsChannelAddress(WalletAddress(owner)) /\ ~ IsChannelAddress(SigningAddress)
  BY DEF IsChannelAddress, WalletAddress, SigningAddress

LEMMA OfferTyped ==
    ASSUME NEW offer \in Offers
    PROVE  offer.amount \in Nat /\ offer.amount \in Amounts /\ offer.output0 \in Addresses
  BY ClientAssumption, SigningTyped DEF Offers, Addresses, Owners

\* What the client signs and what the facilitator builds are lists of outputs.
LEMMA OutputsTyped ==
    ASSUME NEW params \in OwnParams, NEW input \in Nat,
           NEW payTo \in Addresses, NEW payment \in Nat
    PROVE  /\ ClientOutputs(params, input, payTo, payment) \in Seq(Outputs)
           /\ FacilitatorOutputs(params, input, payment) \in Seq(Outputs)
<1> DEFINE rest == input - payment - Fee
           next == ChannelAddress(NextParams(params))
<1>1. Pay(payTo, payment) \in Outputs /\ Pay(SigningAddress, payment) \in Outputs
  BY PayTyped, SigningTyped
<1>2. ASSUME rest > Fee
      PROVE  Pay(next, rest) \in Outputs
  <2>1. rest \in Nat
    BY <1>2, FeeAssumption
  <2> QED
    BY <2>1, PayTyped, ChannelAddressTyped
<1> QED
  BY <1>1, <1>2 DEF ClientOutputs, FacilitatorOutputs

\* The settle of a payment leaves at most one channel coin: its second output,
\* under the payment's next nonce.
LEMMA SettleTyped ==
    ASSUME NEW f \in Fetches, payload[f] \in Payments, NEW coin \in Coins
    PROVE  /\ SettleTx(f, coin) \in Txs
           /\ SettleTx(f, coin).id = << "settle", f >>
           /\ SettleTx(f, coin).ins = {coin}
           /\ \A c \in Change(SettleTx(f, coin)) :
                 /\ c.outpoint = << << "settle", f >>, 2 >>
                 /\ c.address = ChannelAddress(NextParams(payload[f].params))
<1> DEFINE params == payload[f].params
           price == payload[f].amount
           rest == coin.amount - price - Fee
           next == ChannelAddress(NextParams(params))
           outs == FacilitatorOutputs(params, coin.amount, price)
           tx == SettleTx(f, coin)
<1>1. params \in OwnParams /\ price \in Nat /\ coin.amount \in Nat
  BY ClientAssumption DEF Payments, Coins
<1>2. outs \in Seq(Outputs)
  BY <1>1, SigningTyped, OutputsTyped
<1>3. tx.id = << "settle", f >> /\ tx.ins = {coin} /\ tx.outs = outs
  BY DEF SettleTx
<1>4. tx \in Txs
  <2>1. << "settle", f >> \in TxIds
    BY DEF TxIds
  <2> QED
    BY <1>2, <2>1 DEF SettleTx, Txs
<1>5. outs = IF rest > Fee THEN << Pay(SigningAddress, price), Pay(next, rest) >>
             ELSE << Pay(SigningAddress, price) >>
  BY DEF FacilitatorOutputs
<1>6. ASSUME NEW vout \in DOMAIN outs, IsChannelAddress(Coin(tx, vout).address)
      PROVE  /\ Coin(tx, vout).outpoint = << << "settle", f >>, 2 >>
             /\ Coin(tx, vout).address = next
  <2>1. vout # 1
    BY <1>3, <1>5, <1>6, WalletIsNoChannel DEF Coin, Pay
  <2>2. vout = 2 /\ outs[2] = Pay(next, rest)
    BY <1>5, <2>1
  <2> QED
    BY <1>3, <2>2 DEF Coin, Pay
<1>7. ASSUME NEW c \in Change(tx)
      PROVE  c.outpoint = << << "settle", f >>, 2 >> /\ c.address = next
  <2>1. PICK vout \in DOMAIN outs : c = Coin(tx, vout)
    BY <1>3 DEF Change, OutputsOf
  <2>2. IsChannelAddress(c.address)
    BY DEF Change
  <2> HIDE DEF tx, outs, next
  <2> QED
    BY <1>6, <2>1, <2>2
<1> QED
  BY <1>3, <1>4, <1>7

\* A deployment is a transaction of the wallet with one channel output.
LEMMA DeploymentTyped ==
    ASSUME chain \subseteq Txs, NEW c \in Openers,
           NEW tx \in Deployments(c, CoinsAt(WalletAddress(Self)))
    PROVE  tx \in Txs /\ Deploys(c, tx) /\ tx.ins \subseteq Created
<1> DEFINE entries == CoinsAt(WalletAddress(Self))
<1>0. entries \subseteq Created /\ Created \subseteq Coins
  BY CreatedTyped DEF CoinsAt
<1>1. PICK timeout \in Timeouts :
         tx \in WalletTxs(<< "deploy", c >>, entries, ChannelAddress(ParamsAt(timeout, 0)),
                          DefaultFunding, WalletAddress(Self))
  BY DEF Deployments
<1> DEFINE params == ParamsAt(timeout, 0)
           lock == Pay(ChannelAddress(params), DefaultFunding)
<1>2. PICK coins \in SUBSET entries, change \in 0 .. Supply :
         tx = WalletTx(<< "deploy", c >>, coins, lock, WalletAddress(Self), change)
  BY <1>1 DEF WalletTxs, Selections
<1> DEFINE rest == Pay(WalletAddress(Self), change)
<1>3. params \in OwnParams /\ DefaultFunding \in Nat /\ change \in Nat
  BY ClientAssumption, WalletAssumption DEF ParamsAt, OwnParams
<1>4. /\ tx.id = << "deploy", c >> /\ tx.ins = coins
      /\ tx.outs = << lock, rest >> \/ tx.outs = << lock >>
  BY <1>2 DEF WalletTx
<1>5. lock \in Outputs /\ rest \in Outputs
  BY <1>3, PayTyped, ChannelAddressTyped DEF Addresses, Owners
<1>6. tx \in Txs
  <2>1. << "deploy", c >> \in TxIds
    BY DEF TxIds
  <2>2. tx.outs \in Seq(Outputs)
    <3>1. << lock >> \in Seq(Outputs) /\ << lock, rest >> \in Seq(Outputs)
      BY <1>5
    <3> QED
      BY <1>4, <3>1
  <2>3. PICK outs : tx = [id |-> << "deploy", c >>, ins |-> coins, outs |-> outs]
    BY <1>2 DEF WalletTx
  <2>4. outs \in Seq(Outputs) /\ coins \in SUBSET Coins
    BY <1>0, <2>2, <2>3
  <2>5. [id |-> << "deploy", c >>, ins |-> coins, outs |-> outs] \in Txs
    BY <2>1, <2>4 DEF Txs
  <2> QED
    BY <2>3, <2>5
<1>7. IsChannelAddress(lock.address) /\ ~ IsChannelAddress(rest.address)
  BY <1>3, ChannelAddressTyped, WalletIsNoChannel DEF Pay
<1>8. tx.outs[1] = lock /\ 1 \in DOMAIN tx.outs
      /\ \A vout \in DOMAIN tx.outs : vout # 1 => tx.outs[vout] = rest
  BY <1>4
<1>9. Change(tx) = {Coin(tx, 1)}
  <2>1. Coin(tx, 1).address = lock.address
    BY <1>8 DEF Coin
  <2>2. \A vout \in DOMAIN tx.outs : vout # 1 => Coin(tx, vout).address = rest.address
    BY <1>8 DEF Coin
  <2> HIDE DEF lock, rest
  <2> QED
    BY <1>7, <1>8, <2>1, <2>2 DEF Change, OutputsOf
<1>10. tx.outs[1].amount = DefaultFunding
  BY <1>8 DEF Pay
<1> QED
  BY <1>0, <1>4, <1>6, <1>7, <1>8, <1>9, <1>10 DEF Deploys

-----------------------------------------------------------------------------
(* Types, call by call.                                                    *)

NodeOK == chain \subseteq Txs /\ mempool \subseteq Txs

RecordOK ==
    /\ record \in [Openers -> Infos \cup {None}]
    /\ current \in Openers \cup {None}
    /\ current # None => record[current] \in Infos

CallVarsOK ==
    /\ pc \in [Calls -> Awaits \cup {"idle", "done"}]
    /\ held \in [Calls -> Openers \cup {None}]
    /\ terms \in [Calls -> Offers \cup {None}]
    /\ ask \in [Calls -> Infos \cup {None}]
    /\ draft \in [Calls -> Txs \cup {None}]
    /\ signed \in [Calls -> Signatures \cup {None}]
    /\ payload \in [Calls -> Payments \cup {None}]
    /\ answer \in [Calls -> Answers]

\* What call c has at its await, and its control.
CallOK(c) ==
    /\ pc[c] \in {"deploySubmit", "deployed"} => draft[c] \in Txs /\ Deploys(c, draft[c])
    /\ c \in Fetches /\ pc[c] \in Awaits => terms[c] \in Offers
    /\ pc[c] \in {"payLookup", "signed", "sent", "connect", "refresh"} =>
          held[c] # None /\ record[held[c]] \in Infos
    /\ pc[c] \in {"payLookup", "signed", "sent", "refresh"} => ask[c] \in Infos
    /\ pc[c] \in {"signed", "sent"} => signed[c] \in Signatures
    /\ pc[c] = "sent" => payload[c] \in Payments
    /\ pc[c] \in DeployPoints => c \in Openers
    /\ pc[c] \in PayPoints => c \in Fetches
    /\ pc[c] \in RefreshPoints => c \in Refreshes
    /\ pc[c] # "done" => answer[c] = "none"

BoundsOK == failures \in 0 .. MaxFailures /\ disciplined \in BOOLEAN

CallsOK == CallVarsOK /\ \A c \in Calls : CallOK(c)

Base == NodeOK /\ RecordOK /\ CallsOK /\ BoundsOK

LEMMA BaseParts ==
    Base <=> /\ ClientTypeOK /\ CallControl
             /\ \A c \in Calls : pc[c] \in {"deploySubmit", "deployed"} =>
                                     Deploys(c, draft[c])
  BY DEF Base, NodeOK, RecordOK, CallsOK, CallVarsOK, CallOK, BoundsOK, ClientTypeOK,
         CallControl

\* Call d is where it was.
Same(d) ==
    /\ pc'[d] = pc[d] /\ held'[d] = held[d] /\ terms'[d] = terms[d] /\ ask'[d] = ask[d]
    /\ draft'[d] = draft[d] /\ signed'[d] = signed[d] /\ payload'[d] = payload[d]
    /\ answer'[d] = answer[d]

OnlyMoves(c) == \A d \in Calls : d # c => Same(d)

\* No record goes away.
RecordsKept == \A k \in Openers : record[k] \in Infos => record'[k] \in Infos

LEMMA SameOK ==
    ASSUME CallsOK, RecordsKept, NEW d \in Calls, Same(d)
    PROVE  CallOK(d)'
<1>1. CallOK(d) /\ held[d] \in Openers \cup {None}
  BY DEF CallsOK, CallVarsOK
<1> QED
  BY <1>1 DEF Same, CallOK, RecordsKept

LEMMA AwaitNames ==
    /\ DeployPoints \cup PayPoints \cup RefreshPoints = Awaits
    /\ "idle" \notin Awaits /\ "done" \notin Awaits
  BY DEF Awaits, DeployPoints, PayPoints, RefreshPoints

\* What ends with a call.
LEMMA ReturnFrame ==
    ASSUME CallsOK, NEW c \in Calls, NEW result, Return(c, result)
    PROVE  /\ OnlyMoves(c)
           /\ pc'[c] = "done" /\ answer'[c] = result /\ signed' = signed
  BY DEF CallsOK, CallVarsOK, Return, Goto, OnlyMoves, Same

LEMMA ReturnOK ==
    ASSUME CallsOK, RecordsKept, NEW c \in Calls, NEW result \in Answers, Return(c, result)
    PROVE  CallsOK'
<1>1. OnlyMoves(c) /\ pc'[c] = "done"
  BY ReturnFrame
<1>2. CallVarsOK'
  BY DEF CallsOK, CallVarsOK, Return, Goto
<1>3. CallOK(c)'
  BY <1>1, AwaitNames DEF CallOK, DeployPoints, PayPoints, RefreshPoints
<1> QED
  BY <1>1, <1>2, <1>3, SameOK DEF CallsOK, OnlyMoves

\* A call that goes on to its next await with what it needs there.
LEMMA GotoOK ==
    ASSUME CallsOK, RecordsKept, NEW c \in Calls, CallVarsOK', OnlyMoves(c), CallOK(c)'
    PROVE  CallsOK'
  BY SameOK DEF CallsOK, OnlyMoves

LEMMA EnqueueOK ==
    ASSUME NodeOK, NEW tx \in Txs, Enqueue(tx)
    PROVE  NodeOK'
  BY DEF NodeOK, Enqueue

LEMMA BaseInit == Init => Base
<1> SUFFICES ASSUME Init PROVE Base
  OBVIOUS
<1> USE CallKinds
<1>1. SavingsTx \in Txs
  <2>1. << "savings", Self >> \in TxIds /\ WalletAddress(Self) \in Addresses
    BY DEF TxIds, Addresses, Owners
  <2>2. << Pay(WalletAddress(Self), Savings) >> \in Seq(Outputs)
    BY <2>1, PayTyped, ClientAssumption
  <2> QED
    BY <2>1, <2>2 DEF SavingsTx, Txs
<1>2. NodeOK /\ RecordOK /\ BoundsOK
  BY <1>1, ClientAssumption DEF Init, NodeOK, RecordOK, BoundsOK
<1>3. CallVarsOK
  BY DEF Init, CallVarsOK, Answers
<1>4. \A c \in Calls : CallOK(c)
  BY AwaitNames DEF Init, CallOK, DeployPoints, PayPoints, RefreshPoints
<1> QED
  BY <1>2, <1>3, <1>4 DEF Base, CallsOK

-----------------------------------------------------------------------------
(* What each action does to its call.                                      *)

\* The call has returned, unpaid.
Ended(c) == pc'[c] = "done" /\ answer'[c] # "paid" /\ signed'[c] = signed[c]

\* The call goes on to point.
Goes(c, point) == pc'[c] = point /\ answer'[c] = answer[c]

\* It pays from record k, which it has read as info.
Pays(c, k, info, offer) ==
    /\ Goes(c, "payLookup") /\ Affordable(info.balance, offer.amount)
    /\ terms'[c] = offer /\ held'[c] = k /\ ask'[c] = info

LEMMA ReturnEnds ==
    ASSUME CallsOK, RecordsKept, NEW c \in Calls,
           NEW result \in Answers \ {"paid"}, Return(c, result)
    PROVE  CallsOK' /\ OnlyMoves(c) /\ Ended(c)
  BY ReturnFrame, ReturnOK DEF Ended

LEMMA PayFromStep ==
    ASSUME CallsOK, RecordsKept, NEW f \in Fetches, pc[f] # "done",
           NEW k \in Openers, NEW info \in Infos, record'[k] \in Infos,
           NEW offer \in Offers, PayFrom(f, k, info, offer)
    PROVE  CallsOK' /\ OnlyMoves(f) /\ (Ended(f) \/ Pays(f, k, info, offer))
<1> USE CallKinds
<1>1. CASE Return(f, "insufficient balance")
  BY <1>1, ReturnEnds DEF Answers
<1>2. CASE /\ Affordable(info.balance, offer.amount)
           /\ Goto(f, "payLookup")
           /\ terms' = [terms EXCEPT ![f] = offer]
           /\ held' = [held EXCEPT ![f] = k]
           /\ ask' = [ask EXCEPT ![f] = info]
           /\ draft' = [draft EXCEPT ![f] = None]
           /\ UNCHANGED << signed, payload, answer >>
  <2>1. OnlyMoves(f)
    BY <1>2 DEF CallsOK, CallVarsOK, Goto, OnlyMoves, Same
  <2>2. Pays(f, k, info, offer)
    BY <1>2 DEF CallsOK, CallVarsOK, Goto, Pays, Goes
  <2>3. CallVarsOK'
    BY <1>2, AwaitNames DEF CallsOK, CallVarsOK, Goto, PayPoints
  <2>4. CallOK(f)'
    <3>1. CallOK(f)
      BY DEF CallsOK
    <3> QED
      BY <2>2, <3>1 DEF Pays, Goes, CallOK, DeployPoints, PayPoints, RefreshPoints
  <2> QED
    BY <2>1, <2>2, <2>3, <2>4, GotoOK
<1> QED
  BY <1>1, <1>2 DEF PayFrom

\* The node, the records and the bounds are left alone.
LEMMA QuietBase ==
    ASSUME Base, UNCHANGED << node, record, current, failures >>,
           disciplined' \in BOOLEAN, CallsOK'
    PROVE  Base'
  BY DEF Base, NodeOK, RecordOK, BoundsOK, node

LEMMA QuietRecords ==
    ASSUME UNCHANGED record
    PROVE  RecordsKept
  BY DEF RecordsKept

LEMMA FetchStep ==
    ASSUME Base, NEW f \in Fetches, Fetch(f)
    PROVE  /\ Base' /\ OnlyMoves(f) /\ pc[f] = "idle"
           /\ UNCHANGED << node, record, current, failures >>
           /\ disciplined' = (disciplined /\ Orderly(f))
           /\ \/ Ended(f)
              \/ Goes(f, "deployLookup") /\ current = None
              \/ /\ current # None
                 /\ \E offer \in Offers : Pays(f, current, record[current], offer)
<1> USE CallKinds
<1>1. /\ pc[f] = "idle" /\ UNCHANGED << node, record, current, failures >>
      /\ disciplined' = (disciplined /\ Orderly(f))
  BY DEF Fetch, Begin
<1>2. CallsOK /\ RecordsKept /\ RecordOK
  BY <1>1, QuietRecords DEF Base
<1>3. disciplined' \in BOOLEAN
  BY <1>1
<1>4. ASSUME NEW offer \in Offers, current = None, Goto(f, "deployLookup"),
             terms' = [terms EXCEPT ![f] = offer],
             UNCHANGED << held, ask, draft, signed, payload, answer >>
      PROVE  CallsOK' /\ OnlyMoves(f) /\ Goes(f, "deployLookup")
  <2>1. OnlyMoves(f) /\ Goes(f, "deployLookup") /\ terms'[f] = offer
    BY <1>2, <1>4 DEF CallsOK, CallVarsOK, Goto, OnlyMoves, Same, Goes
  <2>2. CallVarsOK'
    BY <1>2, <1>4, AwaitNames DEF CallsOK, CallVarsOK, Goto, DeployPoints
  <2>3. CallOK(f)'
    BY <1>1, <1>2, <2>1, AwaitNames DEF CallsOK, CallOK, Goes, DeployPoints,
                                        PayPoints, RefreshPoints
  <2> QED
    BY <1>2, <2>1, <2>2, <2>3, GotoOK
<1>5. ASSUME NEW offer \in Offers, current # None,
             PayFrom(f, current, record[current], offer)
      PROVE  /\ CallsOK' /\ OnlyMoves(f)
             /\ Ended(f) \/ Pays(f, current, record[current], offer)
  <2>1. current \in Openers /\ record[current] \in Infos /\ record'[current] \in Infos
    BY <1>1, <1>2, <1>5 DEF RecordOK
  <2> QED
    BY <1>1, <1>2, <1>5, <2>1, PayFromStep
<1>6. /\ CallsOK' /\ OnlyMoves(f)
      /\ \/ Ended(f)
         \/ Goes(f, "deployLookup") /\ current = None
         \/ /\ current # None
            /\ \E offer \in Offers : Pays(f, current, record[current], offer)
  BY <1>4, <1>5 DEF Fetch
<1> QED
  BY <1>1, <1>3, <1>6, QuietBase

LEMMA PayLookupStep ==
    ASSUME Base, NEW f \in Fetches, PayLookup(f)
    PROVE  /\ Base' /\ OnlyMoves(f) /\ pc[f] = "payLookup"
           /\ UNCHANGED << node, record, current, failures, disciplined >>
           /\ \/ Ended(f)
              \/ /\ Goes(f, "signed") /\ CoinNamed(ask[f].params, ask[f].outpoint) # {}
                 /\ UNCHANGED << held, terms, ask, draft, payload >>
                 /\ signed'[f] = Sign(Self, ask[f].outpoint,
                                      ClientOutputs(ask[f].params, ask[f].balance,
                                                    terms[f].output0, terms[f].amount))
<1> USE CallKinds
<1> DEFINE outs == ClientOutputs(ask[f].params, ask[f].balance,
                                 terms[f].output0, terms[f].amount)
           sig == Sign(Self, ask[f].outpoint, outs)
<1>1. /\ pc[f] = "payLookup"
      /\ UNCHANGED << node, record, current, failures, disciplined >>
  BY DEF PayLookup
<1>2. CallsOK /\ RecordsKept /\ disciplined' \in BOOLEAN
  BY <1>1, QuietRecords DEF Base, BoundsOK
<1>3. CASE Return(f, "not found")
  <2>1. CallsOK' /\ OnlyMoves(f) /\ Ended(f)
    BY <1>2, <1>3, ReturnEnds DEF Answers
  <2> QED
    BY <1>1, <1>2, <2>1, QuietBase
<1>4. CASE /\ CoinNamed(ask[f].params, ask[f].outpoint) # {}
           /\ signed' = [signed EXCEPT ![f] = sig]
           /\ Goto(f, "signed")
           /\ UNCHANGED << held, terms, ask, draft, payload, answer >>
  <2>1. CallOK(f) /\ ask[f] \in Infos /\ terms[f] \in Offers
    BY <1>1, <1>2, AwaitNames DEF CallsOK, CallOK, PayPoints
  <2>2. sig \in Signatures
    <3>1. /\ ask[f].params \in OwnParams /\ ask[f].balance \in Nat
          /\ ask[f].outpoint \in Outpoints
      BY <2>1 DEF Infos
    <3>2. outs \in Seq(Outputs)
      BY <2>1, <3>1, OfferTyped, OutputsTyped
    <3> HIDE DEF outs
    <3> QED
      BY <3>1, <3>2 DEF Sign, Signatures
  <2> HIDE DEF sig
  <2>3. OnlyMoves(f) /\ Goes(f, "signed") /\ signed'[f] = sig
    BY <1>2, <1>4 DEF CallsOK, CallVarsOK, Goto, OnlyMoves, Same, Goes
  <2>4. CallVarsOK'
    BY <1>2, <1>4, <2>2, AwaitNames DEF CallsOK, CallVarsOK, Goto, PayPoints
  <2>5. CallOK(f)'
    BY <1>1, <1>4, <2>1, <2>2, <2>3 DEF CallOK, Goes, DeployPoints, PayPoints, RefreshPoints
  <2>6. CallsOK'
    BY <1>2, <2>3, <2>4, <2>5, GotoOK
  <2> QED
    BY <1>1, <1>2, <1>4, <2>3, <2>6, QuietBase DEF sig
<1> QED
  BY <1>3, <1>4 DEF PayLookup

LEMMA SendStep ==
    ASSUME Base, NEW f \in Fetches, Send(f)
    PROVE  /\ Base' /\ OnlyMoves(f) /\ pc[f] = "signed" /\ Goes(f, "sent")
           /\ UNCHANGED << node, record, current, failures, disciplined,
                           held, terms, ask, draft, signed >>
           /\ payload'[f] = [outpoint |-> record[held[f]].outpoint,
                             params |-> record[held[f]].params,
                             sig |-> signed[f], amount |-> terms[f].amount]
<1> USE CallKinds
<1> DEFINE info == record[held[f]]
           payment == [outpoint |-> info.outpoint, params |-> info.params,
                       sig |-> signed[f], amount |-> terms[f].amount]
<1>1. /\ pc[f] = "signed"
      /\ payload' = [payload EXCEPT ![f] = payment]
      /\ Goto(f, "sent")
      /\ UNCHANGED << node, record, current, held, terms, ask, draft, signed,
                      answer, failures, disciplined >>
  BY DEF Send
<1>2. CallsOK /\ RecordsKept /\ disciplined' \in BOOLEAN
  BY <1>1, QuietRecords DEF Base, BoundsOK
<1>3. /\ CallOK(f) /\ info \in Infos /\ signed[f] \in Signatures /\ terms[f] \in Offers
  BY <1>1, <1>2, AwaitNames DEF CallsOK, CallOK, PayPoints
<1>4. payment \in Payments
  BY <1>3, OfferTyped DEF Payments, Infos
<1> HIDE DEF payment
<1>5. OnlyMoves(f) /\ Goes(f, "sent") /\ payload'[f] = payment
  BY <1>1, <1>2 DEF CallsOK, CallVarsOK, Goto, OnlyMoves, Same, Goes
<1>6. CallVarsOK'
  BY <1>1, <1>2, <1>4, AwaitNames DEF CallsOK, CallVarsOK, Goto, PayPoints
<1>7. CallOK(f)'
  BY <1>1, <1>3, <1>4, <1>5 DEF CallOK, Goes, DeployPoints, PayPoints, RefreshPoints
<1>8. CallsOK'
  BY <1>2, <1>5, <1>6, <1>7, GotoOK
<1> QED
  BY <1>1, <1>2, <1>5, <1>8, QuietBase DEF payment

LEMMA OpenStep ==
    ASSUME Base, NEW c \in Opens, Open(c)
    PROVE  /\ Base' /\ OnlyMoves(c) /\ pc[c] = "idle" /\ Goes(c, "deployLookup")
           /\ UNCHANGED << node, record, current, failures, signed >>
           /\ disciplined' = (disciplined /\ Orderly(c))
<1> USE CallKinds
<1>1. /\ pc[c] = "idle" /\ Goto(c, "deployLookup")
      /\ UNCHANGED << node, record, current, failures, held, terms, ask, draft,
                      signed, payload, answer >>
      /\ disciplined' = (disciplined /\ Orderly(c))
  BY DEF Open, Begin
<1>2. CallsOK /\ RecordsKept /\ disciplined' \in BOOLEAN
  BY <1>1, QuietRecords DEF Base
<1>3. OnlyMoves(c) /\ Goes(c, "deployLookup")
  BY <1>1, <1>2 DEF CallsOK, CallVarsOK, Goto, OnlyMoves, Same, Goes
<1>4. CallVarsOK'
  BY <1>1, <1>2, AwaitNames DEF CallsOK, CallVarsOK, Goto, DeployPoints
<1>5. CallOK(c)'
  BY <1>1, <1>2, <1>3, AwaitNames DEF CallsOK, CallOK, Goes, DeployPoints,
                                      PayPoints, RefreshPoints
<1>6. CallsOK'
  BY <1>2, <1>3, <1>4, <1>5, GotoOK
<1> QED
  BY <1>1, <1>2, <1>3, <1>6, QuietBase

LEMMA DeployLookupStep ==
    ASSUME Base, NEW c \in Openers, DeployLookup(c)
    PROVE  /\ Base' /\ OnlyMoves(c) /\ pc[c] = "deployLookup"
           /\ UNCHANGED << node, record, current, failures, disciplined, signed >>
           /\ \/ Ended(c)
              \/ Goes(c, "deploySubmit") /\ UNCHANGED << held, terms, ask, payload >>
<1> USE CallKinds
<1> DEFINE entries == CoinsAt(WalletAddress(Self))
<1>1. /\ pc[c] = "deployLookup"
      /\ UNCHANGED << node, record, current, failures, disciplined >>
  BY DEF DeployLookup
<1>2. CallsOK /\ RecordsKept /\ NodeOK /\ disciplined' \in BOOLEAN
  BY <1>1, QuietRecords DEF Base, BoundsOK
<1>3. CASE Return(c, "no funds")
  <2>1. CallsOK' /\ OnlyMoves(c) /\ Ended(c) /\ UNCHANGED signed
    BY <1>2, <1>3, ReturnEnds, ReturnFrame DEF Answers
  <2> QED
    BY <1>1, <1>2, <2>1, QuietBase
<1>4. ASSUME NEW tx \in Deployments(c, entries),
             draft' = [draft EXCEPT ![c] = tx], Goto(c, "deploySubmit"),
             UNCHANGED << held, terms, ask, signed, payload, answer >>
      PROVE  CallsOK' /\ OnlyMoves(c) /\ Goes(c, "deploySubmit")
  <2>1. tx \in Txs /\ Deploys(c, tx)
    BY <1>2, DeploymentTyped DEF NodeOK
  <2>2. OnlyMoves(c) /\ Goes(c, "deploySubmit") /\ draft'[c] = tx
    BY <1>2, <1>4 DEF CallsOK, CallVarsOK, Goto, OnlyMoves, Same, Goes
  <2>3. CallVarsOK'
    BY <1>2, <1>4, <2>1, AwaitNames DEF CallsOK, CallVarsOK, Goto, DeployPoints
  <2>4. CallOK(c)'
    <3>1. CallOK(c) /\ pc[c] \in Awaits /\ pc'[c] = "deploySubmit"
      BY <1>1, <1>2, <2>2, AwaitNames DEF CallsOK, Goes, DeployPoints
    <3>2. Deploys(c, tx)'
      BY <2>1 DEF Deploys, Change, OutputsOf, Coin
    <3>3. Deploys(c, draft[c])'
      BY <2>2, <3>2
    <3> QED
      BY <1>1, <1>4, <2>1, <2>2, <3>1, <3>3 DEF CallOK, Goes, DeployPoints,
                                                PayPoints, RefreshPoints
  <2> QED
    BY <1>2, <2>2, <2>3, <2>4, GotoOK
<1>5. CASE \E tx \in Deployments(c, entries) :
              /\ draft' = [draft EXCEPT ![c] = tx]
              /\ Goto(c, "deploySubmit")
              /\ UNCHANGED << held, terms, ask, signed, payload, answer >>
  <2>1. CallsOK' /\ OnlyMoves(c) /\ Goes(c, "deploySubmit")
    BY <1>4, <1>5
  <2> QED
    BY <1>1, <1>2, <1>5, <2>1, QuietBase
<1> QED
  BY <1>3, <1>5 DEF DeployLookup

LEMMA DeploySubmitStep ==
    ASSUME Base, NEW c \in Openers, DeploySubmit(c)
    PROVE  /\ Base' /\ OnlyMoves(c) /\ pc[c] = "deploySubmit"
           /\ UNCHANGED << record, current, failures, disciplined, signed >>
           /\ draft[c] \in Txs /\ Deploys(c, draft[c])
           /\ \/ Ended(c) /\ UNCHANGED node
              \/ /\ Goes(c, "deployed") /\ UNCHANGED << held, terms, ask, draft, payload >>
                 /\ NodeAccepts(draft[c], WalletSigs(Self, draft[c])) /\ Enqueue(draft[c])
<1> USE CallKinds
<1>1. /\ pc[c] = "deploySubmit"
      /\ UNCHANGED << record, current, failures, disciplined >>
  BY DEF DeploySubmit
<1>2. /\ CallsOK /\ RecordsKept /\ NodeOK /\ RecordOK /\ BoundsOK /\ CallOK(c)
      /\ draft[c] \in Txs /\ Deploys(c, draft[c])
  BY <1>1, QuietRecords DEF Base, CallsOK, CallOK
<1>3. RecordOK' /\ BoundsOK'
  BY <1>1, <1>2 DEF RecordOK, BoundsOK
<1>4. CASE Return(c, "rejected") /\ UNCHANGED node
  <2>1. CallsOK' /\ OnlyMoves(c) /\ Ended(c) /\ UNCHANGED signed
    BY <1>2, <1>4, ReturnEnds, ReturnFrame DEF Answers
  <2>2. NodeOK'
    BY <1>2, <1>4 DEF NodeOK, node
  <2> QED
    BY <1>1, <1>2, <1>3, <1>4, <2>1, <2>2 DEF Base
<1>5. CASE /\ NodeAccepts(draft[c], WalletSigs(Self, draft[c]))
           /\ Enqueue(draft[c])
           /\ Goto(c, "deployed")
           /\ UNCHANGED << held, terms, ask, draft, signed, payload, answer >>
  <2>1. OnlyMoves(c) /\ Goes(c, "deployed")
    BY <1>2, <1>5 DEF CallsOK, CallVarsOK, Goto, OnlyMoves, Same, Goes
  <2>2. CallVarsOK'
    BY <1>2, <1>5, AwaitNames DEF CallsOK, CallVarsOK, Goto, DeployPoints
  <2>3. CallOK(c)'
    <3>1. pc[c] \in Awaits /\ pc'[c] = "deployed"
      BY <1>1, <2>1, AwaitNames DEF Goes, DeployPoints
    <3>2. Deploys(c, draft[c])'
      BY <1>2, <1>5 DEF Deploys, Change, OutputsOf, Coin
    <3> QED
      BY <1>1, <1>2, <1>5, <2>1, <3>1, <3>2 DEF CallOK, Goes, DeployPoints,
                                                PayPoints, RefreshPoints
  <2>4. CallsOK'
    BY <1>2, <2>1, <2>2, <2>3, GotoOK
  <2>5. NodeOK'
    BY <1>2, <1>5, EnqueueOK
  <2> QED
    BY <1>1, <1>2, <1>3, <1>5, <2>1, <2>4, <2>5 DEF Base
<1> QED
  BY <1>4, <1>5 DEF DeploySubmit

LEMMA DeployedCoin ==
    ASSUME NEW c, NEW tx \in Txs, Deploys(c, tx)
    PROVE  /\ Coin(tx, 1) \in OutputsOf(tx) /\ Coin(tx, 1) \in Coins
           /\ Coin(tx, 1).address.params \in OwnParams
           /\ Coin(tx, 1).address = ChannelAddress(Coin(tx, 1).address.params)
           /\ Coin(tx, 1).amount = DefaultFunding
           /\ Coin(tx, 1).outpoint = << tx.id, 1 >>
<1>1. Coin(tx, 1) \in OutputsOf(tx)
  BY DEF Deploys, Change
<1>2. Coin(tx, 1) \in Coins
  BY <1>1, OutputsAreCoins
<1>3. IsChannelAddress(Coin(tx, 1).address) /\ Coin(tx, 1).amount = DefaultFunding
  BY DEF Deploys, Coin
<1>4. Coin(tx, 1).outpoint = << tx.id, 1 >>
  BY DEF Coin
<1> QED
  BY <1>1, <1>2, <1>3, <1>4, ChannelCoin

LEMMA DeployedStep ==
    ASSUME Base, NEW c \in Openers, Deployed(c)
    PROVE  /\ Base' /\ OnlyMoves(c) /\ pc[c] = "deployed"
           /\ UNCHANGED << node, failures, disciplined, signed >>
           /\ draft[c] \in Txs /\ Deploys(c, draft[c])
           /\ current' = c /\ record'[c] \in Infos
           /\ Describes(record'[c], Coin(draft[c], 1))
           /\ Ended(c) \/ (c \in Fetches /\ terms[c] \in Offers
                             /\ Pays(c, c, record'[c], terms[c]))
<1> USE CallKinds
<1> DEFINE coin == Coin(draft[c], 1)
           info == [outpoint |-> coin.outpoint, params |-> coin.address.params,
                    balance |-> DefaultFunding]
<1>1. /\ pc[c] = "deployed" /\ record' = [record EXCEPT ![c] = info] /\ current' = c
      /\ UNCHANGED << node, failures, disciplined >>
  BY DEF Deployed
<1>2. /\ CallsOK /\ NodeOK /\ RecordOK /\ BoundsOK /\ CallOK(c)
      /\ draft[c] \in Txs /\ Deploys(c, draft[c])
  BY <1>1 DEF Base, CallsOK, CallOK
<1>3. info \in Infos /\ Describes(info, coin)
  BY <1>2, DeployedCoin DEF Infos, Coins, Describes
<1> HIDE DEF info
<1>4. RecordOK' /\ RecordsKept /\ record'[c] = info
  BY <1>1, <1>2, <1>3 DEF RecordOK, RecordsKept
<1>5. NodeOK' /\ BoundsOK'
  BY <1>1, <1>2 DEF NodeOK, BoundsOK, node
<1>6. CASE c \in Opens /\ Return(c, "opened")
  <2>1. CallsOK' /\ OnlyMoves(c) /\ Ended(c) /\ UNCHANGED signed
    BY <1>2, <1>4, <1>6, ReturnEnds, ReturnFrame DEF Answers
  <2> QED
    BY <1>1, <1>2, <1>3, <1>4, <1>5, <2>1 DEF Base
<1>7. CASE c \in Fetches /\ PayFrom(c, c, info, terms[c])
  <2>1. terms[c] \in Offers
    BY <1>1, <1>2, <1>7, AwaitNames DEF CallOK, DeployPoints
  <2>2. CallsOK' /\ OnlyMoves(c) /\ (Ended(c) \/ Pays(c, c, info, terms[c]))
    BY <1>1, <1>2, <1>3, <1>4, <1>7, <2>1, PayFromStep
  <2>3. UNCHANGED signed
    BY <1>7 DEF PayFrom, Return
  <2> QED
    BY <1>1, <1>2, <1>3, <1>4, <1>5, <1>7, <2>1, <2>2, <2>3 DEF Base
<1> QED
  BY <1>6, <1>7 DEF Deployed, info

LEMMA RefreshStep ==
    ASSUME Base, NEW c \in Refreshes, Refresh(c)
    PROVE  /\ Base' /\ OnlyMoves(c) /\ pc[c] = "idle"
           /\ UNCHANGED << node, record, current, failures, signed >>
           /\ disciplined' = (disciplined /\ Orderly(c))
           /\ \/ Ended(c)
              \/ /\ Goes(c, "connect") /\ current # None /\ held'[c] = current
<1> USE CallKinds
<1>1. /\ pc[c] = "idle" /\ UNCHANGED << node, record, current, failures >>
      /\ disciplined' = (disciplined /\ Orderly(c))
  BY DEF Refresh, Begin
<1>2. CallsOK /\ RecordsKept /\ RecordOK /\ disciplined' \in BOOLEAN /\ CallOK(c)
  BY <1>1, QuietRecords DEF Base, CallsOK
<1>3. CASE Return(c, "no channel")
  <2>1. CallsOK' /\ OnlyMoves(c) /\ Ended(c) /\ UNCHANGED signed
    BY <1>2, <1>3, ReturnEnds, ReturnFrame DEF Answers
  <2> QED
    BY <1>1, <1>2, <2>1, QuietBase
<1>4. CASE /\ current # None
           /\ Goto(c, "connect")
           /\ held' = [held EXCEPT ![c] = current]
           /\ UNCHANGED << terms, ask, draft, signed, payload, answer >>
  <2>1. current \in Openers /\ record[current] \in Infos
    BY <1>2, <1>4 DEF RecordOK
  <2>2. OnlyMoves(c) /\ Goes(c, "connect") /\ held'[c] = current
    BY <1>2, <1>4 DEF CallsOK, CallVarsOK, Goto, OnlyMoves, Same, Goes
  <2>3. CallVarsOK'
    BY <1>2, <1>4, <2>1, AwaitNames DEF CallsOK, CallVarsOK, Goto, RefreshPoints
  <2>4. CallOK(c)'
    BY <1>1, <1>2, <2>1, <2>2 DEF CallOK, Goes, DeployPoints, PayPoints, RefreshPoints
  <2>5. CallsOK'
    BY <1>2, <2>2, <2>3, <2>4, GotoOK
  <2> QED
    BY <1>1, <1>2, <1>4, <2>2, <2>5, QuietBase
<1> QED
  BY <1>3, <1>4 DEF Refresh

LEMMA RefreshConnectedStep ==
    ASSUME Base, NEW c \in Refreshes, RefreshConnected(c)
    PROVE  /\ Base' /\ OnlyMoves(c) /\ pc[c] = "connect" /\ Goes(c, "refresh")
           /\ UNCHANGED << node, record, current, failures, disciplined, held, signed >>
           /\ ask'[c] = record[held[c]]
<1> USE CallKinds
<1>1. /\ pc[c] = "connect"
      /\ ask' = [ask EXCEPT ![c] = record[held[c]]]
      /\ Goto(c, "refresh")
      /\ UNCHANGED << node, record, current, held, terms, draft, signed, payload,
                      answer, failures, disciplined >>
  BY DEF RefreshConnected
<1>2. CallsOK /\ RecordsKept /\ disciplined' \in BOOLEAN
  BY <1>1, QuietRecords DEF Base, BoundsOK
<1>3. CallOK(c) /\ held[c] # None /\ record[held[c]] \in Infos
  BY <1>1, <1>2 DEF CallsOK, CallOK
<1>4. OnlyMoves(c) /\ Goes(c, "refresh") /\ ask'[c] = record[held[c]]
  BY <1>1, <1>2 DEF CallsOK, CallVarsOK, Goto, OnlyMoves, Same, Goes
<1>5. CallVarsOK'
  BY <1>1, <1>2, <1>3, AwaitNames DEF CallsOK, CallVarsOK, Goto, RefreshPoints
<1>6. CallOK(c)'
  BY <1>1, <1>3, <1>4 DEF CallOK, Goes, DeployPoints, PayPoints, RefreshPoints
<1>7. CallsOK'
  BY <1>2, <1>4, <1>5, <1>6, GotoOK
<1> QED
  BY <1>1, <1>2, <1>4, <1>7, QuietBase

LEMMA RefreshLookupStep ==
    ASSUME Base, NEW c \in Refreshes, RefreshLookup(c)
    PROVE  /\ Base' /\ OnlyMoves(c) /\ pc[c] = "refresh" /\ Ended(c)
           /\ held[c] \in Openers /\ record[held[c]] \in Infos
           /\ UNCHANGED << node, failures, disciplined, signed >>
           /\ \/ current' = None /\ record' = record
                 /\ CoinNamed(ask[c].params, record[held[c]].outpoint) = {}
              \/ /\ current' = current
                 /\ \E coin \in CoinNamed(ask[c].params, record[held[c]].outpoint) :
                       record' = [record EXCEPT ![held[c]].balance = coin.amount]
<1> USE CallKinds
<1> DEFINE found == CoinNamed(ask[c].params, record[held[c]].outpoint)
<1>1. pc[c] = "refresh" /\ UNCHANGED << node, failures, disciplined >>
  BY DEF RefreshLookup
<1>2. /\ CallsOK /\ NodeOK /\ RecordOK /\ BoundsOK
      /\ held[c] \in Openers /\ record[held[c]] \in Infos
  BY <1>1 DEF Base, CallsOK, CallOK, CallVarsOK
<1>3. NodeOK' /\ BoundsOK'
  BY <1>1, <1>2 DEF NodeOK, BoundsOK, node
<1>4. CASE found = {} /\ current' = None /\ Return(c, "dropped") /\ UNCHANGED record
  <2>1. RecordsKept /\ RecordOK'
    BY <1>2, <1>4, QuietRecords DEF RecordOK
  <2>2. CallsOK' /\ OnlyMoves(c) /\ Ended(c) /\ UNCHANGED signed
    BY <1>2, <1>4, <2>1, ReturnEnds, ReturnFrame DEF Answers
  <2> QED
    BY <1>1, <1>2, <1>3, <1>4, <2>1, <2>2 DEF Base
<1>5. ASSUME NEW coin \in found,
             record' = [record EXCEPT ![held[c]].balance = coin.amount],
             Return(c, "refreshed"), UNCHANGED current
      PROVE  CallsOK' /\ OnlyMoves(c) /\ Ended(c) /\ UNCHANGED signed /\ RecordOK'
  <2>1. coin \in Coins
    BY <1>2, CreatedTyped DEF NodeOK, CoinNamed, CoinsAt
  <2>2. [record[held[c]] EXCEPT !.balance = coin.amount] \in Infos
    BY <1>2, <2>1 DEF Infos, Coins
  <2>3. RecordsKept /\ RecordOK'
    BY <1>2, <1>5, <2>2 DEF RecordOK, RecordsKept
  <2> QED
    BY <1>2, <1>5, <2>3, ReturnEnds, ReturnFrame DEF Answers
<1>6. CASE \E coin \in found :
              /\ record' = [record EXCEPT ![held[c]].balance = coin.amount]
              /\ Return(c, "refreshed")
              /\ UNCHANGED current
  <2>1. CallsOK' /\ OnlyMoves(c) /\ Ended(c) /\ UNCHANGED signed /\ RecordOK'
    BY <1>5, <1>6
  <2> QED
    BY <1>1, <1>2, <1>3, <1>6, <2>1 DEF Base
<1> QED
  BY <1>4, <1>6 DEF RefreshLookup

\* The record is moved on to the change that is reported.
MovesOn(coin) ==
    [outpoint |-> coin.outpoint, params |-> NextParams(record[current].params),
     balance |-> coin.amount]

LEMMA Rewritten ==
    ASSUME NEW info \in Infos, NEW o, NEW p, NEW b
    PROVE  [info EXCEPT !.outpoint = o, !.params = p, !.balance = b]
             = [outpoint |-> o, params |-> p, balance |-> b]
<1>1. [info EXCEPT !.outpoint = o, !.params = p, !.balance = b]
         \in [outpoint : {o}, params : {p}, balance : {b}]
  BY DEF Infos
<1>2. \A r \in [outpoint : {o}, params : {p}, balance : {b}] :
         r = [outpoint |-> o, params |-> p, balance |-> b]
  OBVIOUS
<1> QED
  BY <1>1, <1>2, Zenon

LEMMA UpdateStep ==
    ASSUME Base, NEW f \in Fetches, Update(f)
    PROVE  /\ Base' /\ OnlyMoves(f) /\ answer[f] = "paid" /\ answer'[f] = "updated"
           /\ UNCHANGED << node, current, pc, held, terms, ask, draft, signed, payload,
                           failures >>
           /\ disciplined' = (disciplined /\ InFlight = {})
           /\ \E tx \in Known : \E coin \in Change(tx) :
                 /\ tx.id = << "settle", f >>
                 /\ record' = IF current = None THEN record
                              ELSE [record EXCEPT ![current] = MovesOn(coin)]
<1> USE CallKinds
<1>1. /\ answer[f] = "paid" /\ answer' = [answer EXCEPT ![f] = "updated"]
      /\ UNCHANGED << node, current, pc, held, terms, ask, draft, signed, payload,
                      failures >>
      /\ disciplined' = (disciplined /\ InFlight = {})
  BY DEF Update
<1>2. /\ CallsOK /\ NodeOK /\ RecordOK /\ BoundsOK /\ CallOK(f)
  BY DEF Base, CallsOK
<1> DEFINE Moved(coin) ==
          record' = IF current = None THEN record ELSE
                [record EXCEPT ![current].outpoint = coin.outpoint,
                               ![current].params = NextParams(@),
                               ![current].balance = coin.amount]
<1>a. PICK tx \in Known : tx.id = << "settle", f >> /\ \E coin \in Change(tx) : Moved(coin)
  BY DEF Update
<1>3. PICK coin \in Change(tx) : Moved(coin)
  BY <1>a
<1>4. tx \in Txs /\ coin \in Coins
  BY <1>2, OutputsAreCoins DEF NodeOK, Known
<1>5. ASSUME current # None
      PROVE  /\ MovesOn(coin) \in Infos
             /\ record' = [record EXCEPT ![current] = MovesOn(coin)]
  <2>1. current \in Openers /\ record[current] \in Infos
    BY <1>2, <1>5 DEF RecordOK
  <2>2. NextParams(record[current].params) \in OwnParams
    BY <2>1, ChannelAddressTyped DEF Infos
  <2>3. MovesOn(coin) \in Infos
    BY <1>4, <2>2 DEF MovesOn, Infos, Coins
  <2>4. MovesOn(coin) = [record[current] EXCEPT !.outpoint = coin.outpoint,
                                                !.params = NextParams(@),
                                                !.balance = coin.amount]
    <3> DEFINE info == record[current]
               next == NextParams(info.params)
    <3>1. info \in Infos
      BY <2>1
    <3> HIDE DEF info, next
    <3>2. [info EXCEPT !.outpoint = coin.outpoint, !.params = next,
                       !.balance = coin.amount]
            = [outpoint |-> coin.outpoint, params |-> next, balance |-> coin.amount]
      BY <3>1, Rewritten, Zenon
    <3> QED
      BY <3>2 DEF MovesOn, info, next
  <2> HIDE DEF MovesOn
  <2>5. record' = [record EXCEPT ![current] =
                      [record[current] EXCEPT !.outpoint = coin.outpoint,
                                              !.params = NextParams(@),
                                              !.balance = coin.amount]]
    BY <1>2, <1>3, <1>5, <2>1 DEF RecordOK
  <2> QED
    BY <2>3, <2>4, <2>5
<1>6. RecordOK' /\ RecordsKept
  BY <1>1, <1>2, <1>3, <1>5 DEF RecordOK, RecordsKept
<1>7. NodeOK' /\ BoundsOK'
  BY <1>1, <1>2 DEF NodeOK, BoundsOK, node
<1>8. OnlyMoves(f) /\ answer'[f] = "updated"
  BY <1>1, <1>2 DEF CallsOK, CallVarsOK, OnlyMoves, Same
<1>9. CallsOK'
  <2>1. CallVarsOK'
    BY <1>1, <1>2 DEF CallsOK, CallVarsOK, Answers
  <2>2. CallOK(f)'
    <3>1. pc[f] = "done"
      BY <1>1, <1>2 DEF CallOK
    <3> QED
      BY <1>1, <3>1, AwaitNames DEF CallOK, DeployPoints, PayPoints, RefreshPoints
  <2> QED
    BY <1>2, <1>6, <1>8, <2>1, <2>2, GotoOK
<1>10. Base'
  BY <1>6, <1>7, <1>9 DEF Base
<1>11. \E t \in Known : \E c \in Change(t) :
         /\ t.id = << "settle", f >>
         /\ record' = IF current = None THEN record
                      ELSE [record EXCEPT ![current] = MovesOn(c)]
  BY <1>a, <1>3, <1>5
<1> QED
  BY <1>1, <1>8, <1>10, <1>11

LEMMA AnsweredStep ==
    ASSUME Base, NEW f \in Fetches, Answered(f)
    PROVE  /\ Base' /\ OnlyMoves(f) /\ pc[f] = "sent" /\ pc'[f] = "done"
           /\ UNCHANGED << record, current, failures, disciplined, signed >>
           /\ \/ Ended(f) /\ UNCHANGED node
              \/ /\ answer'[f] = "paid"
                 /\ \E coin \in Created : Settleable(f, coin) /\ Enqueue(SettleTx(f, coin))
<1> USE CallKinds
<1>1. pc[f] = "sent" /\ UNCHANGED << record, current, failures, disciplined >>
  BY DEF Answered
<1>2. /\ CallsOK /\ RecordsKept /\ NodeOK /\ RecordOK /\ BoundsOK /\ payload[f] \in Payments
  BY <1>1, QuietRecords DEF Base, CallsOK, CallOK
<1>3. RecordOK' /\ BoundsOK'
  BY <1>1, <1>2 DEF RecordOK, BoundsOK
<1>4. CASE Unpaid(f)
  <2>1. Return(f, "unpaid") /\ UNCHANGED node
    BY <1>4 DEF Unpaid
  <2>2. CallsOK' /\ OnlyMoves(f) /\ Ended(f) /\ UNCHANGED signed
    BY <1>2, <2>1, ReturnEnds, ReturnFrame DEF Answers
  <2>3. NodeOK'
    BY <1>2, <2>1 DEF NodeOK, node
  <2> QED
    BY <1>1, <1>2, <1>3, <2>1, <2>2, <2>3 DEF Base, Ended
<1>5. CASE Paid(f)
  <2>1. Return(f, "paid")
    BY <1>5 DEF Paid
  <2>2. PICK coin \in Created : Settleable(f, coin) /\ Enqueue(SettleTx(f, coin))
    BY <1>5 DEF Paid
  <2>3. CallsOK' /\ OnlyMoves(f) /\ pc'[f] = "done" /\ answer'[f] = "paid" /\ UNCHANGED signed
    BY <1>2, <2>1, ReturnOK, ReturnFrame DEF Answers
  <2>4. SettleTx(f, coin) \in Txs
    BY <1>2, CreatedTyped, SettleTyped DEF NodeOK
  <2>5. NodeOK'
    BY <1>2, <2>2, <2>4, EnqueueOK
  <2> QED
    BY <1>1, <1>2, <1>3, <2>2, <2>3, <2>5 DEF Base
<1> QED
  BY <1>4, <1>5 DEF Answered

LEMMA FailsStep ==
    ASSUME Base, NEW c \in Calls, Fails(c)
    PROVE  /\ Base' /\ OnlyMoves(c) /\ pc[c] \in Awaits \ {"deployed", "signed"} /\ Ended(c)
           /\ UNCHANGED << record, current, disciplined, signed >>
           /\ failures' # 0
           /\ \/ UNCHANGED node
              \/ /\ pc[c] = "deploySubmit" /\ draft[c] \in Txs /\ Deploys(c, draft[c])
                 /\ NodeAccepts(draft[c], WalletSigs(Self, draft[c])) /\ Enqueue(draft[c])
              \/ /\ pc[c] = "sent" /\ c \in Fetches /\ payload[c] \in Payments
                 /\ \E coin \in Created : Settleable(c, coin) /\ Enqueue(SettleTx(c, coin))
<1> USE CallKinds
<1>1. /\ pc[c] \in Awaits \ {"deployed", "signed"} /\ Return(c, "failed")
      /\ failures < MaxFailures /\ failures' = failures + 1
      /\ UNCHANGED << record, current, disciplined >>
  BY DEF Fails
<1>2. /\ CallsOK /\ RecordsKept /\ NodeOK /\ RecordOK /\ BoundsOK /\ CallOK(c)
  BY <1>1, QuietRecords DEF Base, CallsOK
<1>3. RecordOK' /\ BoundsOK' /\ failures' # 0
  BY <1>1, <1>2, ClientAssumption DEF RecordOK, BoundsOK
<1>4. CallsOK' /\ OnlyMoves(c) /\ Ended(c) /\ UNCHANGED signed
  BY <1>1, <1>2, ReturnEnds, ReturnFrame DEF Answers
<1>5. CASE UNCHANGED node
  <2>1. NodeOK'
    BY <1>2, <1>5 DEF NodeOK, node
  <2> QED
    BY <1>1, <1>3, <1>4, <1>5, <2>1 DEF Base
<1>6. CASE /\ pc[c] = "deploySubmit"
           /\ NodeAccepts(draft[c], WalletSigs(Self, draft[c]))
           /\ Enqueue(draft[c])
  <2>1. draft[c] \in Txs /\ Deploys(c, draft[c])
    BY <1>2, <1>6 DEF CallOK
  <2>2. NodeOK'
    BY <1>2, <1>6, <2>1, EnqueueOK
  <2> QED
    BY <1>1, <1>3, <1>4, <1>6, <2>1, <2>2 DEF Base
<1>7. CASE /\ pc[c] = "sent"
           /\ \E coin \in Created : Settleable(c, coin) /\ Enqueue(SettleTx(c, coin))
  <2>1. c \in Fetches /\ payload[c] \in Payments
    BY <1>2, <1>7 DEF CallOK, PayPoints
  <2>2. PICK coin \in Created : Settleable(c, coin) /\ Enqueue(SettleTx(c, coin))
    BY <1>7
  <2>3. SettleTx(c, coin) \in Txs
    BY <1>2, <2>1, CreatedTyped, SettleTyped DEF NodeOK
  <2>4. NodeOK'
    BY <1>2, <2>2, <2>3, EnqueueOK
  <2> QED
    BY <1>1, <1>3, <1>4, <1>7, <2>1, <2>4 DEF Base
<1> QED
  BY <1>5, <1>6, <1>7 DEF Fails

LEMMA IdleStep ==
    ASSUME Base, NodeStep \/ UNCHANGED vars
    PROVE  /\ Base' /\ UNCHANGED << record, current, calls, failures, disciplined >>
           /\ UNCHANGED node \/ \E tx \in mempool : Accept(tx)
<1>1. /\ UNCHANGED << record, current, calls, failures, disciplined >>
      /\ UNCHANGED node \/ \E tx \in mempool : Accept(tx)
  BY DEF NodeStep, vars
<1>2. NodeOK'
  BY <1>1 DEF Base, NodeOK, node, Accept
<1>3. RecordOK' /\ BoundsOK' /\ CallVarsOK'
  BY <1>1 DEF Base, RecordOK, BoundsOK, CallsOK, CallVarsOK, calls
<1>4. \A c \in Calls : CallOK(c)'
  BY <1>1, SameOK DEF Base, RecordsKept, Same, calls
<1> QED
  BY <1>1, <1>2, <1>3, <1>4 DEF Base, CallsOK

LEMMA BaseStep ==
    ASSUME Base, [Next]_vars
    PROVE  Base'
<1> USE CallKinds
<1>1. ASSUME NEW f \in Fetches, Fetch(f) \/ Update(f) PROVE Base'
  BY <1>1, FetchStep, UpdateStep
<1>2. ASSUME NEW c \in Opens, Open(c) PROVE Base'
  BY <1>2, OpenStep
<1>3. ASSUME NEW c \in Refreshes, Refresh(c) PROVE Base'
  BY <1>3, RefreshStep
<1>4. ASSUME NEW c \in Calls, Step(c) \/ Fails(c) PROVE Base'
  <2>1. CASE Fails(c)
    BY <2>1, FailsStep
  <2>2. ASSUME c \in Openers, DeployLookup(c) \/ DeploySubmit(c) \/ Deployed(c) PROVE Base'
    BY <2>2, DeployLookupStep, DeploySubmitStep, DeployedStep
  <2>3. ASSUME c \in Fetches, PayLookup(c) \/ Send(c) \/ Answered(c) PROVE Base'
    BY <2>3, PayLookupStep, SendStep, AnsweredStep
  <2>4. ASSUME c \in Refreshes, RefreshConnected(c) \/ RefreshLookup(c) PROVE Base'
    BY <2>4, RefreshConnectedStep, RefreshLookupStep
  <2> QED
    BY <1>4, <2>1, <2>2, <2>3, <2>4 DEF Step
<1>5. CASE NodeStep \/ UNCHANGED vars
  BY <1>5, IdleStep
<1> QED
  BY <1>1, <1>2, <1>3, <1>4, <1>5 DEF Next

LEMMA BaseInvariant == Spec => []Base
<1>1. Base /\ [Next]_vars => Base'
  BY BaseStep
<1> QED
  BY BaseInit, <1>1, PTL DEF Spec

\* Whatever calls interleave and fail, every await finds the record, the
\* draft, the terms and the payload that it works on.
THEOREM ClientTypesCorrect == Spec => []ClientTypeOK
<1>1. Base => ClientTypeOK
  BY BaseParts
<1> QED
  BY BaseInvariant, <1>1, PTL

-----------------------------------------------------------------------------
(* What the node has of the client.                                        *)

\* The part of SignedAsAsked that is about one fetch.
AsAsked(f) ==
    /\ pc[f] \in PayPoints => Affordable(ask[f].balance, terms[f].amount)
    /\ pc[f] \in {"signed", "sent"} =>
          signed[f] = Sign(Self, ask[f].outpoint,
                           ClientOutputs(ask[f].params, ask[f].balance,
                                         terms[f].output0, terms[f].amount))
    /\ pc[f] = "sent" => payload[f].sig = signed[f] /\ payload[f].amount = terms[f].amount

Unsubmitted == {"idle", "deployLookup", "deploySubmit"}

\* How a call moves: it submits once, it signs before it is answered, and it
\* is paid for what it was asked.
CallMoves(c) ==
    /\ pc[c] = "done" => pc'[c] = "done" /\ signed'[c] = signed[c]
    /\ pc'[c] \in Unsubmitted => pc[c] \in Unsubmitted
    /\ pc'[c] = "deployed" => draft'[c] \in mempool'
    /\ c \in Fetches /\ AsAsked(c) => AsAsked(c)'

\* Call c has given tx to the node.
Submits(c, tx) ==
    /\ Enqueue(tx) /\ tx \in Txs /\ tx.ins \subseteq Utxo
    /\ \/ /\ pc[c] = "deploySubmit" /\ pc'[c] \in {"deployed", "done"}
          /\ tx = draft[c] /\ Deploys(c, tx)
       \/ /\ c \in Fetches /\ pc[c] = "sent" /\ pc'[c] = "done" /\ signed'[c] = signed[c]
          /\ payload[c] \in Payments
          /\ \E coin \in Created : Settleable(c, coin) /\ tx = SettleTx(c, coin)

NodeIdle ==
    /\ UNCHANGED calls
    /\ UNCHANGED node \/ \E tx \in mempool : Accept(tx)

LEMMA EndedMoves ==
    ASSUME NEW c \in Calls, Ended(c)
    PROVE  CallMoves(c)
  BY DEF Ended, CallMoves, Unsubmitted, AsAsked, PayPoints

LEMMA PaysMoves ==
    ASSUME NEW c \in Calls, pc[c] # "done", NEW k, NEW info, NEW offer, Pays(c, k, info, offer)
    PROVE  CallMoves(c)
  BY DEF Pays, Goes, CallMoves, Unsubmitted, AsAsked, PayPoints

LEMMA SettleSubmits ==
    ASSUME NodeOK, NEW f \in Fetches, pc[f] = "sent", pc'[f] = "done",
           signed'[f] = signed[f], payload[f] \in Payments,
           \E coin \in Created : Settleable(f, coin) /\ Enqueue(SettleTx(f, coin))
    PROVE  \E tx : Submits(f, tx)
<1>1. PICK coin \in Created : Settleable(f, coin) /\ Enqueue(SettleTx(f, coin))
  OBVIOUS
<1>2. SettleTx(f, coin) \in Txs
  BY CreatedTyped, SettleTyped DEF NodeOK
<1>3. SettleTx(f, coin).ins \subseteq Utxo
  BY <1>1 DEF Settleable, NodeAccepts
<1> QED
  BY <1>1, <1>2, <1>3 DEF Submits

LEMMA Moves ==
    ASSUME Base, [Next]_vars
    PROVE  \/ NodeIdle
           \/ \E c \in Calls : /\ OnlyMoves(c) /\ CallMoves(c)
                               /\ UNCHANGED node \/ \E tx : Submits(c, tx)
<1> USE CallKinds
<1> DEFINE Done(c) == /\ OnlyMoves(c) /\ CallMoves(c)
                      /\ UNCHANGED node \/ \E tx : Submits(c, tx)
<1>1. ASSUME NEW f \in Fetches, Fetch(f) PROVE Done(f)
  <2>1. /\ OnlyMoves(f) /\ pc[f] = "idle" /\ UNCHANGED node
        /\ \/ Ended(f) \/ Goes(f, "deployLookup")
           \/ \E offer \in Offers : Pays(f, current, record[current], offer)
    BY <1>1, FetchStep
  <2>2. CASE Goes(f, "deployLookup")
    BY <2>1, <2>2 DEF Goes, CallMoves, Unsubmitted, AsAsked, PayPoints
  <2> QED
    BY <2>1, <2>2, EndedMoves, PaysMoves
<1>2. ASSUME NEW f \in Fetches, Update(f) PROVE Done(f)
  <2>1. /\ OnlyMoves(f) /\ answer[f] = "paid" /\ CallOK(f)
        /\ UNCHANGED << node, pc, held, terms, ask, draft, signed, payload >>
    BY <1>2, UpdateStep DEF Base, CallsOK
  <2>2. pc[f] = "done"
    BY <2>1 DEF CallOK
  <2> QED
    BY <2>1, <2>2 DEF CallMoves, Unsubmitted, AsAsked, PayPoints
<1>3. ASSUME NEW c \in Opens, Open(c) PROVE Done(c)
  BY <1>3, OpenStep DEF Goes, CallMoves, Unsubmitted, AsAsked, PayPoints
<1>4. ASSUME NEW c \in Refreshes, Refresh(c) PROVE Done(c)
  BY <1>4, RefreshStep, EndedMoves DEF Goes, CallMoves, Unsubmitted
<1>5. ASSUME NEW c \in Calls, Fails(c) PROVE Done(c)
  <2>1. /\ OnlyMoves(c) /\ Ended(c) /\ NodeOK
        /\ \/ UNCHANGED node
           \/ /\ pc[c] = "deploySubmit" /\ draft[c] \in Txs /\ Deploys(c, draft[c])
              /\ NodeAccepts(draft[c], WalletSigs(Self, draft[c])) /\ Enqueue(draft[c])
           \/ /\ pc[c] = "sent" /\ c \in Fetches /\ payload[c] \in Payments
              /\ \E coin \in Created : Settleable(c, coin) /\ Enqueue(SettleTx(c, coin))
    BY <1>5, FailsStep DEF Base
  <2>2. UNCHANGED node \/ \E tx : Submits(c, tx)
    BY <2>1, SettleSubmits DEF Submits, NodeAccepts, Ended
  <2> QED
    BY <2>1, <2>2, EndedMoves
<1>6. ASSUME NEW c \in Openers, DeployLookup(c) PROVE Done(c)
  BY <1>6, DeployLookupStep, EndedMoves DEF Goes, CallMoves, Unsubmitted, AsAsked, PayPoints
<1>7. ASSUME NEW c \in Openers, DeploySubmit(c) PROVE Done(c)
  <2>1. /\ OnlyMoves(c) /\ pc[c] = "deploySubmit" /\ draft[c] \in Txs /\ Deploys(c, draft[c])
        /\ \/ Ended(c) /\ UNCHANGED node
           \/ /\ Goes(c, "deployed") /\ UNCHANGED draft
              /\ NodeAccepts(draft[c], WalletSigs(Self, draft[c])) /\ Enqueue(draft[c])
    BY <1>7, DeploySubmitStep
  <2>2. CASE /\ Goes(c, "deployed") /\ UNCHANGED draft
             /\ NodeAccepts(draft[c], WalletSigs(Self, draft[c])) /\ Enqueue(draft[c])
    <3>1. CallMoves(c)
      BY <2>1, <2>2 DEF Goes, CallMoves, Unsubmitted, AsAsked, PayPoints, Enqueue
    <3>2. Submits(c, draft[c])
      BY <2>1, <2>2 DEF Submits, NodeAccepts, Goes
    <3> QED
      BY <2>1, <3>1, <3>2
  <2> QED
    BY <2>1, <2>2, EndedMoves
<1>8. ASSUME NEW c \in Openers, Deployed(c) PROVE Done(c)
  BY <1>8, DeployedStep, EndedMoves, PaysMoves
<1>9. ASSUME NEW f \in Fetches, PayLookup(f) PROVE Done(f)
  <2>1. /\ OnlyMoves(f) /\ pc[f] = "payLookup" /\ UNCHANGED node
        /\ \/ Ended(f)
           \/ /\ Goes(f, "signed") /\ UNCHANGED << held, terms, ask, draft, payload >>
              /\ signed'[f] = Sign(Self, ask[f].outpoint,
                                   ClientOutputs(ask[f].params, ask[f].balance,
                                                 terms[f].output0, terms[f].amount))
    BY <1>9, PayLookupStep
  <2> QED
    BY <2>1, EndedMoves DEF Goes, CallMoves, Unsubmitted, AsAsked, PayPoints
<1>10. ASSUME NEW f \in Fetches, Send(f) PROVE Done(f)
  <2>1. /\ OnlyMoves(f) /\ pc[f] = "signed" /\ Goes(f, "sent")
        /\ UNCHANGED << node, held, terms, ask, draft, signed >>
        /\ payload'[f] = [outpoint |-> record[held[f]].outpoint,
                          params |-> record[held[f]].params,
                          sig |-> signed[f], amount |-> terms[f].amount]
    BY <1>10, SendStep
  <2>2. ASSUME AsAsked(f) PROVE AsAsked(f)'
    BY <2>1, <2>2 DEF Goes, AsAsked, PayPoints
  <2>3. CallMoves(f)
    BY <2>1, <2>2 DEF Goes, CallMoves, Unsubmitted
  <2> QED
    BY <2>1, <2>3 DEF node
<1>11. ASSUME NEW f \in Fetches, Answered(f) PROVE Done(f)
  <2>1. /\ OnlyMoves(f) /\ pc[f] = "sent" /\ pc'[f] = "done" /\ signed'[f] = signed[f]
        /\ \/ UNCHANGED node
           \/ \E coin \in Created : Settleable(f, coin) /\ Enqueue(SettleTx(f, coin))
    BY <1>11, AnsweredStep
  <2>2. NodeOK /\ payload[f] \in Payments
    BY <2>1 DEF Base, CallsOK, CallOK
  <2> QED
    BY <2>1, <2>2, SettleSubmits DEF CallMoves, Unsubmitted, AsAsked, PayPoints
<1>12. ASSUME NEW c \in Refreshes, RefreshConnected(c) PROVE Done(c)
  BY <1>12, RefreshConnectedStep DEF Goes, CallMoves, Unsubmitted, AsAsked, PayPoints
<1>13. ASSUME NEW c \in Refreshes, RefreshLookup(c) PROVE Done(c)
  BY <1>13, RefreshLookupStep, EndedMoves
<1>14. ASSUME NodeStep \/ UNCHANGED vars PROVE NodeIdle
  BY <1>14, IdleStep DEF NodeIdle
<1> HIDE DEF Done
<1>15. ASSUME NEW c \in Calls, Step(c) PROVE Done(c)
  BY <1>15, <1>6, <1>7, <1>8, <1>9, <1>10, <1>11, <1>12, <1>13 DEF Step
<1>16. NodeIdle \/ \E c \in Calls : Done(c)
  <2>1. CASE \E f \in Fetches : Fetch(f) \/ Update(f)
    BY <2>1, <1>1, <1>2
  <2>2. CASE \E c \in Opens : Open(c)
    BY <2>2, <1>3
  <2>3. CASE \E c \in Refreshes : Refresh(c)
    BY <2>3, <1>4
  <2>4. CASE \E c \in Calls : Step(c) \/ Fails(c)
    BY <2>4, <1>5, <1>15
  <2> QED
    BY <2>1, <2>2, <2>3, <2>4, <1>14 DEF Next
<1> QED
  BY <1>16 DEF Done

\* The covenant of the client's own channel takes no other signature than the
\* client's.
LEMMA SettledIsSigned ==
    ASSUME NodeOK, NEW f \in Fetches, payload[f] \in Payments,
           NEW coin \in Created, Settleable(f, coin)
    PROVE  /\ coin \in Coins /\ coin.address = ChannelAddress(payload[f].params)
           /\ payload[f].sig = Sign(Self, coin.outpoint, SettleTx(f, coin).outs)
<1> DEFINE tx == SettleTx(f, coin)
           sigs == {payload[f].sig} \cup WalletSigs(FacilitatorKey, tx)
           params == payload[f].params
<1>1. coin \in Coins
  BY CreatedTyped DEF NodeOK
<1>2. coin.address = ChannelAddress(params) /\ params \in OwnParams
  BY DEF Settleable, CoinNamed, CoinsAt, Payments
<1>3. IsChannelAddress(coin.address) /\ coin.address.params = params
  BY <1>2, ChannelAddressTyped DEF ChannelAddress
<1>4. coin \in tx.ins /\ NodeAccepts(tx, sigs)
  BY DEF Settleable, SettleTx
<1>5. SettleAccepts(params, coin, tx.outs, sigs)
  BY <1>3, <1>4 DEF NodeAccepts, Unlocks
<1>6. Sign(Self, coin.outpoint, tx.outs) \in sigs
  BY <1>2, <1>5 DEF SettleAccepts, OwnParams
<1>7. Self # FacilitatorKey
  BY KeyAssumption, ClientAssumption
<1>8. Sign(Self, coin.outpoint, tx.outs) \notin WalletSigs(FacilitatorKey, tx)
  BY <1>7 DEF WalletSigs, Sign
<1> QED
  BY <1>1, <1>2, <1>6, <1>8

DraftKnown == \A c \in Calls : pc[c] = "deployed" => draft[c] \in Known

NodeInv ==
    /\ Base /\ DraftKnown
    /\ UniqueIds /\ InputsCreated /\ Fresh
    /\ SignedAsAsked /\ SettlesChange /\ SettlesAreSigned

LEMMA NodeInvParts == NodeInv <=> ClientInv
  BY BaseParts DEF NodeInv, ClientInv, DraftKnown, DraftDeploys

LEMMA NodeInvInit == Init => NodeInv
<1> SUFFICES ASSUME Init PROVE NodeInv
  OBVIOUS
<1>1. Known = {SavingsTx} /\ SavingsTx.id = << "savings", Self >> /\ SavingsTx.ins = {}
  BY DEF Init, Known, SavingsTx
<1>2. DraftKnown /\ SignedAsAsked
  BY CallKinds DEF Init, DraftKnown, SignedAsAsked, PayPoints
<1>3. UniqueIds /\ InputsCreated /\ Fresh /\ SettlesChange /\ SettlesAreSigned
  BY <1>1 DEF UniqueIds, InputsCreated, Fresh, SettlesChange, SettlesAreSigned
<1> QED
  BY <1>2, <1>3, BaseInit DEF NodeInv

\* A call that does not submit, or a block.
LEMMA NodeInvQuiet ==
    ASSUME NodeInv, Base', Known' = Known, Created \subseteq Created',
           \A c \in Calls :
              Same(c) \/ (CallMoves(c) /\ (pc'[c] = "deployed" => draft'[c] \in Known))
    PROVE  NodeInv'
<1> USE CallKinds
<1>1. \A c \in Calls :
         /\ pc[c] = "done" => pc'[c] = "done" /\ signed'[c] = signed[c]
         /\ pc'[c] \in Unsubmitted => pc[c] \in Unsubmitted
         /\ pc'[c] = "deployed" => draft'[c] \in Known
         /\ c \in Fetches /\ AsAsked(c) => AsAsked(c)'
  <2> SUFFICES ASSUME NEW c \in Calls
               PROVE  /\ pc[c] = "done" => pc'[c] = "done" /\ signed'[c] = signed[c]
                      /\ pc'[c] \in Unsubmitted => pc[c] \in Unsubmitted
                      /\ pc'[c] = "deployed" => draft'[c] \in Known
                      /\ c \in Fetches /\ AsAsked(c) => AsAsked(c)'
    OBVIOUS
  <2>1. CASE Same(c)
    BY <2>1 DEF Same, NodeInv, DraftKnown, AsAsked, PayPoints, Unsubmitted
  <2> QED
    BY <2>1 DEF CallMoves
<1>2. DraftKnown' /\ UniqueIds' /\ InputsCreated'
  BY <1>1 DEF NodeInv, DraftKnown, UniqueIds, InputsCreated
<1>3. Fresh'
  BY <1>1 DEF NodeInv, Fresh, Unsubmitted
<1>4. SignedAsAsked'
  BY <1>1 DEF NodeInv, SignedAsAsked, AsAsked
<1>5. SettlesChange'
  BY DEF NodeInv, SettlesChange, Change, OutputsOf, Coin
<1>6. SettlesAreSigned'
  BY <1>1 DEF NodeInv, SettlesAreSigned, Fresh
<1> QED
  BY <1>2, <1>3, <1>4, <1>5, <1>6 DEF NodeInv

\* A call that does.
LEMMA NodeInvSubmit ==
    ASSUME NodeInv, Base', NEW c \in Calls, OnlyMoves(c), CallMoves(c),
           NEW tx, Submits(c, tx)
    PROVE  NodeInv'
<1> USE CallKinds
<1>1. Known' = Known \cup {tx} /\ Created' = Created /\ mempool' \subseteq Known'
  BY DEF Submits, Enqueue, Known, Created, OutputsOf, Coin
<1>2. \/ /\ pc[c] = "deploySubmit" /\ pc'[c] \in {"deployed", "done"}
         /\ tx.id = << "deploy", c >>
      \/ /\ c \in Fetches /\ pc[c] = "sent" /\ pc'[c] = "done" /\ signed'[c] = signed[c]
         /\ tx.id = << "settle", c >>
         /\ \A coin \in tx.ins : signed[c] = Sign(Self, coin.outpoint, tx.outs)
         /\ \A coin \in Change(tx) : coin.outpoint = << tx.id, 2 >>
  <2>1. CASE pc[c] = "deploySubmit"
    BY <2>1 DEF Submits, Deploys
  <2>2. CASE pc[c] # "deploySubmit"
    <3>1. /\ c \in Fetches /\ pc[c] = "sent" /\ pc'[c] = "done" /\ signed'[c] = signed[c]
          /\ payload[c] \in Payments
      BY <2>2 DEF Submits
    <3>2. PICK coin \in Created : Settleable(c, coin) /\ tx = SettleTx(c, coin)
      BY <2>2 DEF Submits
    <3>3. NodeOK
      BY DEF NodeInv, Base
    <3>4. coin \in Coins /\ payload[c].sig = Sign(Self, coin.outpoint, tx.outs)
      BY <3>1, <3>2, <3>3, SettledIsSigned
    <3>5. payload[c].sig = signed[c]
      BY <3>1 DEF NodeInv, SignedAsAsked
    <3>6. /\ tx.id = << "settle", c >> /\ tx.ins = {coin}
          /\ \A change \in Change(tx) : change.outpoint = << << "settle", c >>, 2 >>
      BY <3>1, <3>2, <3>4, SettleTyped
    <3> QED
      BY <3>1, <3>4, <3>5, <3>6
  <2> QED
    BY <2>1, <2>2
<1>3. \A t \in Known : t.id # tx.id
  BY <1>2 DEF NodeInv, Fresh
<1>4. \A d \in Calls :
         /\ pc[d] = "done" => pc'[d] = "done" /\ signed'[d] = signed[d]
         /\ pc'[d] \in Unsubmitted => pc[d] \in Unsubmitted
         /\ pc'[d] = "deployed" => draft'[d] \in Known'
         /\ d \in Fetches /\ AsAsked(d) => AsAsked(d)'
  <2> SUFFICES ASSUME NEW d \in Calls
               PROVE  /\ pc[d] = "done" => pc'[d] = "done" /\ signed'[d] = signed[d]
                      /\ pc'[d] \in Unsubmitted => pc[d] \in Unsubmitted
                      /\ pc'[d] = "deployed" => draft'[d] \in Known'
                      /\ d \in Fetches /\ AsAsked(d) => AsAsked(d)'
    OBVIOUS
  <2>1. CASE d = c
    BY <1>1, <2>1 DEF CallMoves
  <2>2. CASE d # c
    BY <1>1, <2>2 DEF OnlyMoves, Same, NodeInv, DraftKnown, AsAsked, PayPoints, Unsubmitted
  <2> QED
    BY <2>1, <2>2
<1>5. DraftKnown'
  BY <1>4 DEF DraftKnown
<1>6. UniqueIds'
  BY <1>1, <1>3 DEF NodeInv, UniqueIds
<1>7. InputsCreated'
  BY <1>1 DEF NodeInv, InputsCreated, Submits, Utxo
<1>8. Fresh'
  BY <1>1, <1>2, <1>4 DEF NodeInv, Fresh, Unsubmitted
<1>9. SignedAsAsked'
  BY <1>4 DEF NodeInv, SignedAsAsked, AsAsked
<1>10. SettlesChange'
  BY <1>1, <1>2 DEF NodeInv, SettlesChange, Change, OutputsOf, Coin
<1>11. SettlesAreSigned'
  BY <1>1, <1>2, <1>4 DEF NodeInv, SettlesAreSigned, Fresh
<1> QED
  BY <1>5, <1>6, <1>7, <1>8, <1>9, <1>10, <1>11 DEF NodeInv

LEMMA NodeInvStep == NodeInv /\ [Next]_vars => NodeInv'
<1> SUFFICES ASSUME NodeInv, [Next]_vars PROVE NodeInv'
  OBVIOUS
<1>1. Base /\ Base'
  BY BaseStep DEF NodeInv
<1>2. CASE NodeIdle
  <2>1. Known' = Known /\ Created \subseteq Created'
    BY <1>2 DEF NodeIdle, node, Accept, Known, Created, OutputsOf, Coin
  <2>2. \A c \in Calls : Same(c)
    BY <1>2 DEF NodeIdle, calls, Same
  <2> QED
    BY <1>1, <2>1, <2>2, NodeInvQuiet
<1>3. ASSUME NEW c \in Calls, OnlyMoves(c), CallMoves(c), UNCHANGED node
      PROVE  NodeInv'
  <2>1. Known' = Known /\ Created' = Created /\ mempool' \subseteq Known
    BY <1>3 DEF node, Known, Created, OutputsOf, Coin
  <2>2. \A d \in Calls :
           Same(d) \/ (CallMoves(d) /\ (pc'[d] = "deployed" => draft'[d] \in Known))
    BY <1>3, <2>1 DEF OnlyMoves, CallMoves
  <2> QED
    BY <1>1, <2>1, <2>2, NodeInvQuiet
<1>4. ASSUME NEW c \in Calls, OnlyMoves(c), CallMoves(c), NEW tx, Submits(c, tx)
      PROVE  NodeInv'
  BY <1>1, <1>4, NodeInvSubmit
<1>5. ASSUME ~ NodeIdle PROVE NodeInv'
  <2>1. PICK c \in Calls : /\ OnlyMoves(c) /\ CallMoves(c)
                           /\ UNCHANGED node \/ \E tx : Submits(c, tx)
    BY <1>1, <1>5, Moves
  <2>2. CASE UNCHANGED node
    BY <2>1, <2>2, <1>3
  <2>3. ASSUME NEW tx, Submits(c, tx) PROVE NodeInv'
    BY <2>1, <2>3, <1>4
  <2> QED
    BY <2>1, <2>2, <2>3
<1> QED
  BY <1>2, <1>5

LEMMA NodeInvariant == Spec => []NodeInv
  BY NodeInvInit, NodeInvStep, PTL DEF Spec

\* Whatever calls the application interleaves, a settle at the node spends the
\* coin and pays the outputs that the client signed for that fetch.
THEOREM SettlesSignedCorrect == Spec => []SettlesAreSigned
<1>1. NodeInv => SettlesAreSigned
  BY DEF NodeInv
<1> QED
  BY NodeInvariant, <1>1, PTL

-----------------------------------------------------------------------------
(* A disciplined application.                                              *)

\* Whether a coin is spent and which coins live depends on the known
\* transactions alone, not on which of them a block has accepted.
Spent == Consumed \cup Pending

Described == \E coin \in Created : Describes(record[current], coin)

Named ==
    current # None =>
        \E tx \in Known : \E coin \in OutputsOf(tx) : Describes(record[current], coin)

Tracked ==
    \A coin \in Live :
        \/ current # None /\ record[current].outpoint = coin.outpoint
        \/ coin \in Owed
        \/ \E c \in Openers : pc[c] = "deployed" /\ coin \in OutputsOf(draft[c])

NoDebt == \A tx \in Known : ~ Owing(tx)

\* The part of Opening, Paying and Refreshing that is about one call.
OpeningAt(c) ==
    /\ pc[c] \in DeployPoints => current = None
    /\ pc[c] = "deployed" => \A coin \in Spent : coin.outpoint # << draft[c].id, 1 >>

PayingAt(f) ==
    /\ pc[f] \in PayPoints =>
          /\ current # None /\ held[f] = current /\ ask[f] = record[current]
          /\ \A coin \in Spent : coin.outpoint # record[current].outpoint
    /\ pc[f] \in {"signed", "sent"} => Described
    /\ pc[f] = "sent" => /\ payload[f].outpoint = record[current].outpoint
                         /\ payload[f].params = record[current].params

RefreshingAt(c) ==
    pc[c] \in RefreshPoints =>
        /\ current # None /\ held[c] = current
        /\ pc[c] = "refresh" => ask[c] = record[current]
        /\ \E coin \in Created : coin.outpoint = record[current].outpoint

InOrder(c) == OpeningAt(c) /\ PayingAt(c) /\ RefreshingAt(c)

Discipline ==
    /\ OneCall /\ Reported /\ OwedIsNext /\ Named
    /\ \A c \in Calls : InOrder(c)
    /\ failures = 0 => Tracked

LEMMA DisciplineParts ==
    ASSUME Base
    PROVE  DisciplineInv <=> (disciplined => Discipline)
<1> USE CallKinds
<1>1. \A c \in Calls : c \notin Fetches => pc[c] \notin PayPoints
  BY DEF Base, CallsOK, CallOK
<1>2. (\A c \in Calls : InOrder(c)) <=> Opening /\ Paying /\ Refreshing
  <2>1. (\A c \in Calls : OpeningAt(c)) <=> Opening
    BY DEF OpeningAt, Opening, Unspent, Spent
  <2>2. (\A c \in Calls : RefreshingAt(c)) <=> Refreshing
    BY DEF RefreshingAt, Refreshing
  <2>3. (\A c \in Fetches : PayingAt(c)) <=> Paying
    BY DEF PayingAt, Paying, Unspent, Spent, Described
  <2>4. \A c \in Calls : c \notin Fetches => PayingAt(c)
    BY <1>1 DEF PayingAt, PayPoints
  <2> QED
    BY <2>1, <2>2, <2>3, <2>4 DEF InOrder
<1>3. RecordNamesItsCoin <=> (disciplined => Named)
  BY DEF RecordNamesItsCoin, Named
<1>4. TracksItsMoney <=> (disciplined => (failures = 0 => Tracked))
  BY DEF TracksItsMoney, Tracked
<1> QED
  BY <1>2, <1>3, <1>4 DEF DisciplineInv, Discipline

\* An outpoint names one coin.
LEMMA OneCoin ==
    ASSUME UniqueIds, NodeOK, NEW t \in Known, NEW u \in Known,
           NEW coin \in OutputsOf(t), NEW other \in OutputsOf(u),
           coin.outpoint = other.outpoint
    PROVE  coin = other /\ t = u
<1>1. PICK v \in DOMAIN t.outs : coin = Coin(t, v)
  BY DEF OutputsOf
<1>2. PICK w \in DOMAIN u.outs : other = Coin(u, w)
  BY DEF OutputsOf
<1>3. << t.id, v >> = << u.id, w >>
  BY <1>1, <1>2 DEF Coin
<1>4. t.id = u.id /\ v = w
  BY <1>3
<1> QED
  BY <1>1, <1>2, <1>4 DEF UniqueIds

LEMMA CreatedKnown ==
    /\ \A coin \in Created : \E tx \in Known : coin \in OutputsOf(tx)
    /\ \A coin \in Live : \E tx \in Known : coin \in OutputsOf(tx)
    /\ \A tx \in Known : tx.ins \subseteq Spent
    /\ \A coin \in Spent : \E tx \in Known : coin \in tx.ins
  BY DEF Created, Known, Live, Spent, Consumed, Pending

LEMMA KnownFrame ==
    ASSUME Known' = Known
    PROVE  Spent' = Spent /\ Live' = Live
<1>1. Spent' = Spent
  BY DEF Spent, Consumed, Pending, Known
<1> QED
  BY <1>1 DEF Live, Spent, OutputsOf, Coin

LEMMA KnownGrows ==
    ASSUME NEW tx, Enqueue(tx)
    PROVE  /\ Known' = Known \cup {tx} /\ Created' = Created
           /\ Spent' = Spent \cup tx.ins
           /\ \A coin \in Live' : coin \in Live
                  \/ (coin \in OutputsOf(tx) /\ IsChannelAddress(coin.address))
<1>1. Known' = Known \cup {tx} /\ Created' = Created
  BY DEF Enqueue, Known, Created, OutputsOf, Coin
<1>2. Spent' = Spent \cup tx.ins
  BY DEF Enqueue, Spent, Consumed, Pending
<1>3. ASSUME NEW coin \in Live', coin \notin Live
      PROVE  coin \in OutputsOf(tx) /\ IsChannelAddress(coin.address)
  BY <1>1, <1>2, <1>3 DEF Live, Spent, OutputsOf, Coin
<1> QED
  BY <1>1, <1>2, <1>3

\* Only call c moves, and no change is to be reported.
Alone(c) == NoDebt /\ \A d \in Calls : d # c => pc[d] \notin Awaits

LEMMA DebtIsOwed ==
    /\ NoDebt <=> Owed = {}
    /\ \A coin \in Owed : \E tx \in Known : Owing(tx) /\ coin \in Change(tx)
    /\ \A tx \in Known : Owing(tx) => Change(tx) \subseteq Owed
  BY DEF NoDebt, Owed, Owing

LEMMA AloneInFlight ==
    ASSUME Discipline, NEW c \in Calls, pc[c] \in Awaits
    PROVE  Alone(c)
<1>1. c \in InFlight
  BY DEF InFlight
<1>2. NoDebt
  BY <1>1, DebtIsOwed DEF Discipline, Reported
<1>3. \A d \in Calls : d # c => d \notin InFlight
  BY <1>1 DEF Discipline, OneCall
<1> QED
  BY <1>2, <1>3 DEF Alone, InFlight

LEMMA AloneAtStart ==
    ASSUME NEW c \in Calls, Orderly(c)
    PROVE  Alone(c)
  BY DebtIsOwed DEF Orderly, Alone, InFlight

LEMMA NotStarted ==
    ASSUME NEW d \in Calls, pc'[d] \notin Awaits
    PROVE  InOrder(d)'
<1>1. pc'[d] \notin DeployPoints /\ pc'[d] \notin PayPoints /\ pc'[d] \notin RefreshPoints
  BY AwaitNames
<1> QED
  BY <1>1 DEF InOrder, OpeningAt, PayingAt, RefreshingAt, DeployPoints, PayPoints, RefreshPoints

\* No debt arises unless a fetch is paid.
LEMMA NoNewDebt ==
    ASSUME NoDebt,
           \A f \in Fetches : answer'[f] = "paid" => answer[f] = "paid",
           \A tx \in Known' : \/ tx \in Known
                             \/ \A f \in Fetches : tx.id = << "settle", f >>
                                                         => answer'[f] # "paid"
    PROVE  NoDebt'
<1> SUFFICES ASSUME NEW tx \in Known', Owing(tx)' PROVE FALSE
  BY DEF NoDebt
<1>1. PICK f \in Fetches : tx.id = << "settle", f >> /\ answer'[f] = "paid"
  BY DEF Owing
<1>2. tx \in Known /\ answer[f] = "paid"
  BY <1>1
<1>3. Change(tx) # {}
  BY DEF Owing, Change, OutputsOf, Coin
<1>4. Owing(tx)
  BY <1>1, <1>2, <1>3 DEF Owing
<1> QED
  BY <1>2, <1>4 DEF NoDebt

LEMMA Closing ==
    ASSUME NEW c \in Calls, Alone(c), OnlyMoves(c), NoDebt', InOrder(c)', Named',
           failures' = 0 => Tracked'
    PROVE  Discipline'
<1>1. \A d \in Calls : d # c => pc'[d] \notin Awaits
  BY DEF Alone, OnlyMoves, Same
<1>2. OneCall'
  BY <1>1 DEF OneCall, InFlight
<1>3. Owed' = {}
  BY DEF NoDebt, Owed, Owing
<1>4. Reported' /\ OwedIsNext'
  BY <1>3 DEF Reported, OwedIsNext, NoDebt
<1>5. \A d \in Calls : InOrder(d)'
  BY <1>1, NotStarted
<1> QED
  BY <1>2, <1>4, <1>5 DEF Discipline

\* What the record tracks when a call has the client to itself.
TracksRecord ==
    \A coin \in Live : current # None /\ record[current].outpoint = coin.outpoint

LEMMA OnlyTheRecord ==
    ASSUME NEW c \in Calls, Alone(c), pc[c] # "deployed", Tracked
    PROVE  TracksRecord
<1>1. \A d \in Openers : pc[d] # "deployed"
  BY CallKinds, AwaitNames DEF Alone, DeployPoints
<1>2. Owed = {}
  BY DebtIsOwed DEF Alone
<1> QED
  BY <1>1, <1>2 DEF Tracked, TracksRecord

\* A call that leaves the node and the records alone.
LEMMA QuietInOrder ==
    ASSUME Discipline, NEW c \in Calls, Alone(c), pc[c] # "deployed", OnlyMoves(c),
           UNCHANGED << node, record, current >>, failures' = 0 => failures = 0,
           answer'[c] = "paid" => answer[c] = "paid", InOrder(c)'
    PROVE  Discipline'
<1>1. Known' = Known /\ Spent' = Spent /\ Live' = Live
  <2>1. Known' = Known
    BY DEF node, Known
  <2> QED
    BY <2>1, KnownFrame
<1>2. NoDebt'
  <2>1. \A f \in Fetches : answer'[f] = "paid" => answer[f] = "paid"
    BY CallKinds DEF OnlyMoves, Same
  <2> QED
    BY <1>1, <2>1, NoNewDebt DEF Alone
<1>3. Named'
  BY <1>1 DEF Discipline, Named, OutputsOf, Coin, Describes
<1>4. ASSUME failures' = 0 PROVE Tracked'
  <2>1. TracksRecord
    BY <1>4, OnlyTheRecord DEF Discipline
  <2> QED
    BY <1>1, <2>1 DEF TracksRecord, Tracked
<1> QED
  BY <1>2, <1>3, <1>4, Closing

LEMMA EndedInOrder ==
    ASSUME NEW c \in Calls, Ended(c)
    PROVE  InOrder(c)' /\ (answer'[c] = "paid" => answer[c] = "paid")
  BY NotStarted, AwaitNames DEF Ended

LEMMA FetchInOrder ==
    ASSUME Base, Discipline, NEW f \in Fetches, Fetch(f), disciplined'
    PROVE  Discipline'
<1> USE CallKinds
<1>1. /\ OnlyMoves(f) /\ Orderly(f) /\ UNCHANGED << node, record, current, failures >>
      /\ \/ Ended(f)
         \/ Goes(f, "deployLookup") /\ current = None
         \/ /\ current # None
            /\ \E offer \in Offers : Pays(f, current, record[current], offer)
  BY FetchStep
<1>2. Alone(f) /\ pc[f] # "deployed"
  BY <1>1, AloneAtStart DEF Fetch, Begin
<1>3. Spent' = Spent /\ (current # None => \A coin \in Spent :
                                              coin.outpoint # record[current].outpoint)
  <2>1. Known' = Known
    BY <1>1 DEF node, Known
  <2> QED
    BY <1>1, <2>1, KnownFrame DEF Orderly, Spent
<1>4. InOrder(f)' /\ (answer'[f] = "paid" => answer[f] = "paid")
  <2>1. CASE Goes(f, "deployLookup") /\ current = None
    BY <1>1, <2>1 DEF Goes, InOrder, OpeningAt, PayingAt, RefreshingAt, DeployPoints,
                      PayPoints, RefreshPoints
  <2>2. ASSUME current # None, NEW offer \in Offers,
               Pays(f, current, record[current], offer)
        PROVE  InOrder(f)' /\ (answer'[f] = "paid" => answer[f] = "paid")
    BY <1>1, <1>3, <2>2 DEF Pays, Goes, InOrder, OpeningAt, PayingAt, RefreshingAt,
                            DeployPoints, PayPoints, RefreshPoints
  <2> QED
    BY <1>1, <2>1, <2>2, EndedInOrder
<1> QED
  BY <1>1, <1>2, <1>4, QuietInOrder

LEMMA OpenInOrder ==
    ASSUME Base, Discipline, NEW c \in Opens, Open(c), disciplined'
    PROVE  Discipline'
<1> USE CallKinds
<1>1. /\ OnlyMoves(c) /\ Orderly(c) /\ UNCHANGED << node, record, current, failures >>
      /\ pc[c] = "idle" /\ Goes(c, "deployLookup")
  BY OpenStep
<1>2. Alone(c) /\ current = None
  BY <1>1, AloneAtStart DEF Orderly
<1>3. InOrder(c)' /\ answer'[c] = answer[c]
  BY <1>1, <1>2 DEF Goes, InOrder, OpeningAt, PayingAt, RefreshingAt, DeployPoints,
                    PayPoints, RefreshPoints
<1> QED
  BY <1>1, <1>2, <1>3, QuietInOrder

LEMMA RefreshInOrder ==
    ASSUME Base, Discipline, NEW c \in Refreshes, Refresh(c), disciplined'
    PROVE  Discipline'
<1> USE CallKinds
<1>1. /\ OnlyMoves(c) /\ Orderly(c) /\ UNCHANGED << node, record, current, failures >>
      /\ pc[c] = "idle"
      /\ \/ Ended(c)
         \/ Goes(c, "connect") /\ current # None /\ held'[c] = current
  BY RefreshStep
<1>2. /\ Alone(c)
      /\ current # None => \E coin \in Created : coin.outpoint = record[current].outpoint
  BY <1>1, AloneAtStart DEF Orderly
<1>3. Created' = Created
  BY <1>1 DEF node, Created, OutputsOf, Coin
<1>4. InOrder(c)' /\ (answer'[c] = "paid" => answer[c] = "paid")
  <2>1. CASE Goes(c, "connect") /\ current # None /\ held'[c] = current
    BY <1>1, <1>2, <1>3, <2>1 DEF Goes, InOrder, OpeningAt, PayingAt, RefreshingAt,
                                  DeployPoints, PayPoints, RefreshPoints
  <2> QED
    BY <1>1, <2>1, EndedInOrder
<1> QED
  BY <1>1, <1>2, <1>4, QuietInOrder

LEMMA RefreshConnectedInOrder ==
    ASSUME Base, Discipline, NEW c \in Refreshes, RefreshConnected(c)
    PROVE  Discipline'
<1> USE CallKinds
<1>1. /\ OnlyMoves(c) /\ pc[c] = "connect" /\ Goes(c, "refresh")
      /\ UNCHANGED << node, record, current, failures, held >>
      /\ ask'[c] = record[held[c]]
  BY RefreshConnectedStep
<1>2. /\ Alone(c) /\ current # None /\ held[c] = current
      /\ \E coin \in Created : coin.outpoint = record[current].outpoint
  BY <1>1, AloneInFlight, AwaitNames DEF Discipline, InOrder, RefreshingAt, RefreshPoints
<1>3. Created' = Created
  BY <1>1 DEF node, Created, OutputsOf, Coin
<1>4. held'[c] = current' /\ ask'[c] = record'[current']
  BY <1>1, <1>2
<1>5. InOrder(c)' /\ (answer'[c] = "paid" => answer[c] = "paid")
  BY <1>1, <1>2, <1>3, <1>4 DEF Goes, InOrder, OpeningAt, PayingAt, RefreshingAt,
                                DeployPoints, PayPoints, RefreshPoints
<1> QED
  BY <1>1, <1>2, <1>5, QuietInOrder

LEMMA DeployLookupInOrder ==
    ASSUME Base, Discipline, NEW c \in Openers, DeployLookup(c)
    PROVE  Discipline'
<1> USE CallKinds
<1>1. /\ OnlyMoves(c) /\ UNCHANGED << node, record, current, failures >>
      /\ pc[c] = "deployLookup"
      /\ Ended(c) \/ Goes(c, "deploySubmit")
  BY DeployLookupStep
<1>2. Alone(c) /\ current = None
  BY <1>1, AloneInFlight, AwaitNames DEF DeployPoints, Discipline, InOrder, OpeningAt
<1>3. InOrder(c)' /\ (answer'[c] = "paid" => answer[c] = "paid")
  <2>1. CASE Goes(c, "deploySubmit")
    BY <1>1, <1>2, <2>1 DEF Goes, InOrder, OpeningAt, PayingAt, RefreshingAt,
                            DeployPoints, PayPoints, RefreshPoints
  <2> QED
    BY <1>1, <2>1, EndedInOrder
<1> QED
  BY <1>1, <1>2, <1>3, QuietInOrder

LEMMA PayLookupInOrder ==
    ASSUME NodeInv, Discipline, NEW f \in Fetches, PayLookup(f)
    PROVE  Discipline'
<1> USE CallKinds
<1>1. /\ OnlyMoves(f) /\ UNCHANGED << node, record, current, failures >>
      /\ pc[f] = "payLookup"
      /\ \/ Ended(f)
         \/ /\ Goes(f, "signed") /\ CoinNamed(ask[f].params, ask[f].outpoint) # {}
            /\ UNCHANGED << held, terms, ask, draft, payload >>
  BY PayLookupStep DEF NodeInv
<1>2. /\ Alone(f) /\ current # None /\ held[f] = current /\ ask[f] = record[current]
      /\ \A coin \in Spent : coin.outpoint # record[current].outpoint
  BY <1>1, AloneInFlight, AwaitNames DEF PayPoints, Discipline, InOrder, PayingAt
<1>3. Created' = Created /\ Spent' = Spent
  <2>1. Known' = Known
    BY <1>1 DEF node, Known
  <2> QED
    BY <1>1, <2>1, KnownFrame DEF node, Created, OutputsOf, Coin
<1>4. InOrder(f)' /\ (answer'[f] = "paid" => answer[f] = "paid")
  <2>1. CASE /\ Goes(f, "signed") /\ CoinNamed(ask[f].params, ask[f].outpoint) # {}
             /\ UNCHANGED << held, terms, ask, draft, payload >>
    <3>1. PICK coin \in Created : coin.outpoint = record[current].outpoint
      BY <1>2, <2>1 DEF CoinNamed, CoinsAt, Utxo
    <3>2. PICK t \in Known : coin \in OutputsOf(t)
      BY <3>1, CreatedKnown
    <3>3. PICK u \in Known : \E other \in OutputsOf(u) : Describes(record[current], other)
      BY <1>2 DEF Discipline, Named
    <3>4. PICK other \in OutputsOf(u) : Describes(record[current], other)
      BY <3>3
    <3>5. coin = other
      BY <3>1, <3>2, <3>4, OneCoin DEF NodeInv, Base, Describes
    <3>6. Described
      BY <3>1, <3>4, <3>5 DEF Described
    <3>7. Described'
      BY <1>1, <1>3, <3>6 DEF Described, Describes
    <3> QED
      BY <1>1, <1>2, <1>3, <2>1, <3>7 DEF Goes, InOrder, OpeningAt, PayingAt, RefreshingAt,
                                          DeployPoints, PayPoints, RefreshPoints
  <2> QED
    BY <1>1, <2>1, EndedInOrder
<1> QED
  BY <1>1, <1>2, <1>4, QuietInOrder

LEMMA SendInOrder ==
    ASSUME Base, Discipline, NEW f \in Fetches, Send(f)
    PROVE  Discipline'
<1> USE CallKinds
<1>1. /\ OnlyMoves(f) /\ pc[f] = "signed" /\ Goes(f, "sent")
      /\ UNCHANGED << node, record, current, failures, held, ask, draft >>
      /\ payload'[f] = [outpoint |-> record[held[f]].outpoint,
                        params |-> record[held[f]].params,
                        sig |-> signed[f], amount |-> terms[f].amount]
  BY SendStep
<1>2. /\ Alone(f) /\ current # None /\ held[f] = current /\ ask[f] = record[current]
      /\ (\A coin \in Spent : coin.outpoint # record[current].outpoint) /\ Described
  BY <1>1, AloneInFlight, AwaitNames DEF PayPoints, Discipline, InOrder, PayingAt
<1>3. Described' /\ Spent' = Spent
  <2>1. Known' = Known /\ Created' = Created
    BY <1>1 DEF node, Known, Created, OutputsOf, Coin
  <2> QED
    BY <1>1, <1>2, <2>1, KnownFrame DEF Described, Describes
<1>4. payload'[f].outpoint = record[current].outpoint /\ payload'[f].params = record[current].params
  BY <1>1, <1>2
<1>5. InOrder(f)' /\ (answer'[f] = "paid" => answer[f] = "paid")
  BY <1>1, <1>2, <1>3, <1>4 DEF Goes, InOrder, OpeningAt, PayingAt, RefreshingAt,
                                DeployPoints, PayPoints, RefreshPoints
<1> QED
  BY <1>1, <1>2, <1>5, QuietInOrder

\* A transaction joins the mempool, and the call that submitted it goes on.
LEMMA NamedGrows ==
    ASSUME Named, NEW tx, Known' = Known \cup {tx}, UNCHANGED << record, current >>
    PROVE  Named'
  BY DEF Named, OutputsOf, Coin, Describes

LEMMA DeploySubmitInOrder ==
    ASSUME NodeInv, Discipline, NEW c \in Openers, DeploySubmit(c)
    PROVE  Discipline'
<1> USE CallKinds
<1> DEFINE tx == draft[c]
<1>1. /\ OnlyMoves(c) /\ UNCHANGED << record, current, failures >>
      /\ pc[c] = "deploySubmit" /\ tx \in Txs /\ Deploys(c, tx)
      /\ \/ Ended(c) /\ UNCHANGED node
         \/ /\ Goes(c, "deployed") /\ UNCHANGED draft
            /\ NodeAccepts(tx, WalletSigs(Self, tx)) /\ Enqueue(tx)
  BY DeploySubmitStep DEF NodeInv
<1>2. Alone(c) /\ current = None
  BY <1>1, AloneInFlight, AwaitNames DEF DeployPoints, Discipline, InOrder, OpeningAt
<1>3. CASE Ended(c) /\ UNCHANGED node
  BY <1>1, <1>2, <1>3, EndedInOrder, QuietInOrder
<1>4. CASE /\ Goes(c, "deployed") /\ UNCHANGED draft
           /\ NodeAccepts(tx, WalletSigs(Self, tx)) /\ Enqueue(tx)
  <2>0. PICK t : t = tx
    OBVIOUS
  <2>1. /\ Known' = Known \cup {t} /\ Spent' = Spent \cup t.ins
        /\ \A coin \in Live' : coin \in Live \/ coin \in OutputsOf(t)
    BY <1>4, <2>0, KnownGrows
  <2>2. \A coin \in Spent' : coin.outpoint # << t.id, 1 >>
    <3> SUFFICES ASSUME NEW coin \in Spent', coin.outpoint = << t.id, 1 >>
                 PROVE  FALSE
      OBVIOUS
    <3>1. coin \in Created
      BY <1>4, <2>0, <2>1, CreatedKnown DEF NodeInv, InputsCreated, NodeAccepts, Utxo
    <3>2. PICK u \in chain : coin \in OutputsOf(u)
      BY <3>1 DEF Created
    <3>3. u.id = t.id
      BY <3>2 DEF OutputsOf, Coin
    <3>4. u \in Known /\ u.id = << "deploy", c >>
      BY <1>1, <2>0, <3>2, <3>3 DEF Deploys, Known
    <3> QED
      BY <1>1, <3>4 DEF NodeInv, Fresh
  <2>3. NoDebt'
    <3>1. \A f \in Fetches : answer'[f] = "paid" => answer[f] = "paid"
      BY <1>1, <1>4 DEF OnlyMoves, Same, Goes
    <3>2. \A f \in Fetches : t.id # << "settle", f >>
      BY <1>1, <2>0 DEF Deploys
    <3> QED
      BY <1>2, <2>1, <3>1, <3>2, NoNewDebt DEF Alone
  <2>4. Named'
    BY <1>1, <2>1, NamedGrows DEF Discipline
  <2>5. InOrder(c)'
    BY <1>1, <1>2, <1>4, <2>0, <2>2 DEF Goes, InOrder, OpeningAt, PayingAt, RefreshingAt,
                                        DeployPoints, PayPoints, RefreshPoints
  <2>6. ASSUME failures' = 0 PROVE Tracked'
    <3>1. TracksRecord
      BY <1>1, <1>2, <2>6, OnlyTheRecord DEF Discipline
    <3>2. pc'[c] = "deployed" /\ draft'[c] = t
      BY <1>4, <2>0 DEF Goes
    <3> SUFFICES ASSUME NEW coin \in Live'
                 PROVE  \/ current' # None /\ record'[current'].outpoint = coin.outpoint
                        \/ pc'[c] = "deployed" /\ coin \in OutputsOf(draft'[c])
      BY DEF Tracked, OutputsOf, Coin
    <3>3. CASE coin \in Live
      BY <1>1, <3>1, <3>3 DEF TracksRecord
    <3>4. CASE coin \in OutputsOf(t)
      BY <3>2, <3>4
    <3> QED
      BY <2>1, <3>3, <3>4
  <2> QED
    BY <1>1, <1>2, <2>3, <2>4, <2>5, <2>6, Closing
<1> QED
  BY <1>1, <1>3, <1>4

LEMMA DeployedInOrder ==
    ASSUME NodeInv, Discipline, NEW c \in Openers, Deployed(c)
    PROVE  Discipline'
<1> USE CallKinds
<1>1. /\ OnlyMoves(c) /\ pc[c] = "deployed" /\ UNCHANGED << node, failures >>
      /\ draft[c] \in Txs /\ Deploys(c, draft[c])
      /\ current' = c /\ Describes(record'[c], Coin(draft[c], 1))
      /\ Ended(c) \/ Pays(c, c, record'[c], terms[c])
  BY DeployedStep DEF NodeInv
<1>2. PICK t, coin : t = draft[c] /\ coin = Coin(t, 1)
  OBVIOUS
<1>3. /\ t \in Known /\ coin \in OutputsOf(t) /\ coin.outpoint = << t.id, 1 >>
      /\ Change(t) = {coin} /\ record'[c].outpoint = coin.outpoint
  BY <1>1, <1>2, DeployedCoin DEF NodeInv, DraftKnown, Deploys, Describes
<1>4. /\ Alone(c) /\ current = None
      /\ \A spent \in Spent : spent.outpoint # coin.outpoint
  <2>1. pc[c] \in DeployPoints /\ pc[c] \in Awaits
    BY <1>1, AwaitNames DEF DeployPoints
  <2> QED
    BY <1>1, <1>2, <1>3, <2>1, AloneInFlight DEF Discipline, InOrder, OpeningAt
<1>5. Known' = Known /\ Spent' = Spent /\ Live' = Live
  <2>1. Known' = Known
    BY <1>1 DEF node, Known
  <2> QED
    BY <2>1, KnownFrame
<1>6. NoDebt'
  <2>1. \A f \in Fetches : answer'[f] = "paid" => answer[f] = "paid"
    BY <1>1 DEF OnlyMoves, Same, Ended, Pays, Goes
  <2> QED
    BY <1>4, <1>5, <2>1, NoNewDebt DEF Alone
<1>7. Named'
  <2>1. t \in Known' /\ coin \in OutputsOf(t) /\ Describes(record'[current'], coin)
    BY <1>1, <1>2, <1>3, <1>5
  <2> QED
    BY <2>1 DEF Named, OutputsOf, Coin, Describes
<1>8. InOrder(c)'
  <2>1. CASE Pays(c, c, record'[c], terms[c])
    BY <1>1, <1>3, <1>4, <1>5, <2>1 DEF Pays, Goes, InOrder, OpeningAt, PayingAt,
                                        RefreshingAt, DeployPoints, PayPoints, RefreshPoints
  <2> QED
    BY <1>1, <2>1, EndedInOrder
<1>9. ASSUME failures' = 0 PROVE Tracked'
  <2>1. Tracked /\ Owed = {}
    BY <1>1, <1>4, <1>9, DebtIsOwed DEF Discipline, Alone
  <2> SUFFICES ASSUME NEW live \in Live'
               PROVE  current' # None /\ record'[current'].outpoint = live.outpoint
    BY DEF Tracked
  <2>2. PICK d \in Openers : pc[d] = "deployed" /\ live \in OutputsOf(draft[d])
    BY <1>4, <1>5, <2>1 DEF Tracked
  <2>3. d = c
    BY <1>4, <2>2, AwaitNames DEF Alone, DeployPoints
  <2>4. IsChannelAddress(live.address)
    BY <1>5 DEF Live
  <2>5. live \in Change(t)
    BY <1>2, <2>2, <2>3, <2>4 DEF Change
  <2> QED
    BY <1>1, <1>3, <2>5
<1> QED
  BY <1>1, <1>4, <1>6, <1>7, <1>8, <1>9, Closing

LEMMA RefreshLookupInOrder ==
    ASSUME NodeInv, Discipline, NEW c \in Refreshes, RefreshLookup(c)
    PROVE  Discipline'
<1> USE CallKinds
<1>1. /\ OnlyMoves(c) /\ pc[c] = "refresh" /\ Ended(c) /\ UNCHANGED << node, failures >>
      /\ held[c] \in Openers /\ record[held[c]] \in Infos
      /\ \/ current' = None /\ record' = record
            /\ CoinNamed(ask[c].params, record[held[c]].outpoint) = {}
         \/ /\ current' = current
            /\ \E coin \in CoinNamed(ask[c].params, record[held[c]].outpoint) :
                  record' = [record EXCEPT ![held[c]].balance = coin.amount]
  BY RefreshLookupStep DEF NodeInv
<1>2. /\ Alone(c) /\ current # None /\ held[c] = current /\ ask[c] = record[current]
      /\ \E coin \in Created : coin.outpoint = record[current].outpoint
  BY <1>1, AloneInFlight, AwaitNames DEF Discipline, InOrder, RefreshingAt, RefreshPoints
<1> DEFINE found == CoinNamed(record[current].params, record[current].outpoint)
<1>3. PICK t \in Known : \E coin \in OutputsOf(t) : Describes(record[current], coin)
  BY <1>2 DEF Discipline, Named
<1>4. PICK named \in OutputsOf(t) : Describes(record[current], named)
  BY <1>3
<1>5. \A u \in Known : \A coin \in OutputsOf(u) :
         coin.outpoint = record[current].outpoint => coin = named
  BY <1>4, OneCoin DEF NodeInv, Base, Describes
<1>6. named \in Created
  BY <1>2, <1>5, CreatedKnown
<1>7. Known' = Known /\ Live' = Live
  <2>1. Known' = Known
    BY <1>1 DEF node, Known
  <2> QED
    BY <2>1, KnownFrame
<1>8. NoDebt'
  <2>1. \A f \in Fetches : answer'[f] = "paid" => answer[f] = "paid"
    BY <1>1 DEF OnlyMoves, Same, Ended
  <2> QED
    BY <1>2, <1>7, <2>1, NoNewDebt DEF Alone
<1>9. InOrder(c)'
  BY <1>1, EndedInOrder
<1>10. failures' = 0 => TracksRecord
  BY <1>1, <1>2, OnlyTheRecord DEF Discipline
<1>11. CASE /\ current' = None /\ record' = record /\ found = {}
  <2>1. Named'
    BY <1>11 DEF Named
  <2>2. ASSUME failures' = 0 PROVE Tracked'
    <3> SUFFICES ASSUME NEW live \in Live PROVE FALSE
      BY <1>7 DEF Tracked
    <3>1. live.outpoint = record[current].outpoint
      BY <1>10, <2>2 DEF TracksRecord
    <3>2. live = named /\ live \notin Consumed
      BY <1>5, <3>1, CreatedKnown DEF Live
    <3>3. named \in found
      BY <1>4, <1>6, <3>2 DEF CoinNamed, CoinsAt, Utxo, Describes
    <3> QED
      BY <1>11, <3>3
  <2> QED
    BY <1>1, <1>2, <1>8, <1>9, <2>1, <2>2, Closing
<1>12. ASSUME current' = current, NEW coin \in found,
              record' = [record EXCEPT ![current].balance = coin.amount]
       PROVE  Discipline'
  <2>1. coin \in Created /\ coin.outpoint = record[current].outpoint
    BY DEF CoinNamed, CoinsAt, Utxo
  <2>2. coin = named
    BY <1>5, <2>1, CreatedKnown
  <2>3. current \in Openers /\ record[current] \in Infos /\ record \in [Openers -> Infos \cup {None}]
    BY <1>1, <1>2 DEF NodeInv, Base, RecordOK
  <2>4. /\ record'[current].outpoint = record[current].outpoint
        /\ record'[current].params = record[current].params
        /\ record'[current].balance = coin.amount
    BY <1>12, <2>3 DEF Infos
  <2>5. Named'
    BY <1>4, <1>7, <1>12, <2>2, <2>4 DEF Named, OutputsOf, Coin, Describes
  <2>6. ASSUME failures' = 0 PROVE Tracked'
    BY <1>7, <1>10, <1>12, <2>4, <2>6 DEF TracksRecord, Tracked
  <2> QED
    BY <1>1, <1>2, <1>8, <1>9, <2>5, <2>6, Closing
<1> QED
  BY <1>1, <1>2, <1>11, <1>12

LEMMA AnsweredInOrder ==
    ASSUME NodeInv, Discipline, NEW f \in Fetches, Answered(f)
    PROVE  Discipline'
<1> USE CallKinds
<1>1. /\ OnlyMoves(f) /\ pc[f] = "sent" /\ pc'[f] = "done"
      /\ UNCHANGED << record, current, failures >>
      /\ \/ Ended(f) /\ UNCHANGED node
         \/ /\ answer'[f] = "paid"
            /\ \E coin \in Created : Settleable(f, coin) /\ Enqueue(SettleTx(f, coin))
  BY AnsweredStep DEF NodeInv
<1>2. /\ Alone(f) /\ current # None
      /\ payload[f].outpoint = record[current].outpoint
      /\ payload[f].params = record[current].params
  <2>1. pc[f] \in PayPoints /\ pc[f] \in Awaits
    BY <1>1, AwaitNames DEF PayPoints
  <2> QED
    BY <1>1, <2>1, AloneInFlight DEF Discipline, InOrder, PayingAt
<1>3. CASE Ended(f) /\ UNCHANGED node
  BY <1>1, <1>2, <1>3, EndedInOrder, QuietInOrder
<1>4. ASSUME answer'[f] = "paid", NEW coin \in Created, Settleable(f, coin),
             Enqueue(SettleTx(f, coin))
      PROVE  Discipline'
  <2>1. NodeOK /\ payload[f] \in Payments
    BY <1>1 DEF NodeInv, Base, CallsOK, CallOK
  <2>2. coin \in Coins /\ coin.outpoint = payload[f].outpoint
    BY <1>4, <2>1, SettledIsSigned DEF Settleable, CoinNamed
  <2>3. PICK t : t = SettleTx(f, coin)
    OBVIOUS
  <2>4. /\ t.id = << "settle", f >> /\ t.ins = {coin}
        /\ \A change \in Change(t) : change.address = ChannelAddress(NextParams(payload[f].params))
    BY <2>1, <2>2, <2>3, SettleTyped
  <2>5. /\ Known' = Known \cup {t}
        /\ \A live \in Live' : live \in Live
              \/ (live \in OutputsOf(t) /\ IsChannelAddress(live.address))
    BY <1>4, <2>3, KnownGrows
  <2>6. \A d \in Calls : pc'[d] \notin Awaits
    BY <1>1, <1>2, AwaitNames DEF Alone, OnlyMoves, Same
  <2>7. OneCall' /\ Reported' /\ \A d \in Calls : InOrder(d)'
    BY <2>6, NotStarted DEF OneCall, Reported, InFlight
  <2>8. Named'
    BY <1>1, <2>5, NamedGrows DEF Discipline
  <2>9. ASSUME NEW x, Owing(x)' PROVE x = t
    <3>1. PICK g \in Fetches : x.id = << "settle", g >> /\ answer'[g] = "paid"
      BY <2>9 DEF Owing
    <3>2. x \in Known' /\ Change(x) # {}
      BY <2>9 DEF Owing, Change, OutputsOf, Coin
    <3>3. CASE g # f /\ x \in Known
      <4>1. answer[g] = "paid"
        BY <1>1, <3>1, <3>3 DEF OnlyMoves, Same
      <4>2. Owing(x)
        BY <3>1, <3>2, <3>3, <4>1 DEF Owing
      <4> QED
        BY <1>2, <3>3, <4>2 DEF Alone, NoDebt
    <3>4. CASE g = f /\ x \in Known
      BY <1>1, <3>1, <3>4 DEF NodeInv, Fresh
    <3> QED
      BY <2>5, <3>2, <3>3, <3>4
  <2>10. OwedIsNext'
    <3> SUFFICES ASSUME NEW x \in Known', Owing(x)'
                 PROVE  /\ current' # None
                        /\ \E c \in x.ins : c.outpoint = record'[current'].outpoint
                        /\ \A c \in Change(x) : c.address =
                               ChannelAddress(NextParams(record'[current'].params))
                        /\ \A other \in Known' : Owing(other)' => other = x
      BY DEF OwedIsNext, Change, OutputsOf, Coin
    <3>1. x = t /\ \A other \in Known' : Owing(other)' => other = x
      BY <2>9
    <3> QED
      BY <1>1, <1>2, <2>2, <2>4, <3>1
  <2>11. ASSUME failures' = 0 PROVE Tracked'
    <3>1. TracksRecord
      BY <1>1, <1>2, <2>11, OnlyTheRecord DEF Discipline
    <3> SUFFICES ASSUME NEW live \in Live'
                 PROVE  \/ current' # None /\ record'[current'].outpoint = live.outpoint
                        \/ live \in Owed'
      BY DEF Tracked
    <3>2. CASE live \in Live
      BY <1>1, <3>1, <3>2 DEF TracksRecord
    <3>3. CASE live \in OutputsOf(t) /\ IsChannelAddress(live.address)
      BY <1>4, <2>4, <2>5, <3>3 DEF Owed, Change, OutputsOf, Coin
    <3> QED
      BY <2>5, <3>2, <3>3
  <2> QED
    BY <2>7, <2>8, <2>10, <2>11 DEF Discipline
<1> QED
  BY <1>1, <1>3, <1>4

LEMMA FailsInOrder ==
    ASSUME NodeInv, Discipline, NEW c \in Calls, Fails(c)
    PROVE  Discipline'
<1> USE CallKinds
<1>1. /\ OnlyMoves(c) /\ pc[c] \in Awaits \ {"deployed", "signed"} /\ Ended(c)
      /\ UNCHANGED << record, current >> /\ failures' # 0
      /\ \/ UNCHANGED node
         \/ /\ pc[c] = "deploySubmit" /\ draft[c] \in Txs /\ Deploys(c, draft[c])
            /\ NodeAccepts(draft[c], WalletSigs(Self, draft[c])) /\ Enqueue(draft[c])
         \/ /\ pc[c] = "sent" /\ c \in Fetches /\ payload[c] \in Payments
            /\ \E coin \in Created : Settleable(c, coin) /\ Enqueue(SettleTx(c, coin))
  BY FailsStep DEF NodeInv
<1>2. Alone(c) /\ InOrder(c)'
  BY <1>1, AloneInFlight, EndedInOrder
<1>3. CASE UNCHANGED node
  BY <1>1, <1>2, <1>3, EndedInOrder, QuietInOrder
<1>4. ASSUME NEW tx, Enqueue(tx), \A f \in Fetches : tx.id = << "settle", f >> => f = c
      PROVE  Discipline'
  <2>1. Known' = Known \cup {tx}
    BY <1>4, KnownGrows
  <2>2. \A f \in Fetches : answer'[f] = "paid" => f # c /\ answer[f] = "paid"
    BY <1>1 DEF OnlyMoves, Same, Ended
  <2>3. NoDebt'
    BY <1>2, <1>4, <2>1, <2>2, NoNewDebt DEF Alone
  <2>4. Named'
    BY <1>1, <2>1, NamedGrows DEF Discipline
  <2> QED
    BY <1>1, <1>2, <2>3, <2>4, Closing
<1>5. CASE Deploys(c, draft[c]) /\ Enqueue(draft[c])
  BY <1>4, <1>5 DEF Deploys
<1>6. CASE \E coin \in Created : Settleable(c, coin) /\ Enqueue(SettleTx(c, coin))
  BY <1>4, <1>6 DEF SettleTx
<1> QED
  BY <1>1, <1>3, <1>5, <1>6

LEMMA UpdateInOrder ==
    ASSUME NodeInv, Discipline, NEW f \in Fetches, Update(f), disciplined'
    PROVE  Discipline'
<1> USE CallKinds
<1>1. /\ OnlyMoves(f) /\ answer[f] = "paid" /\ answer'[f] = "updated"
      /\ UNCHANGED << node, current, pc, failures >> /\ InFlight = {}
      /\ \E tx \in Known : \E coin \in Change(tx) :
            /\ tx.id = << "settle", f >>
            /\ record' = IF current = None THEN record
                         ELSE [record EXCEPT ![current] = MovesOn(coin)]
  BY UpdateStep DEF NodeInv
<1>2. PICK tx \in Known : \E coin \in Change(tx) :
            /\ tx.id = << "settle", f >>
            /\ record' = IF current = None THEN record
                         ELSE [record EXCEPT ![current] = MovesOn(coin)]
  BY <1>1
<1>3. PICK coin \in Change(tx) :
            /\ tx.id = << "settle", f >>
            /\ record' = IF current = None THEN record
                         ELSE [record EXCEPT ![current] = MovesOn(coin)]
  BY <1>2
<1>4. Owing(tx)
  BY <1>1, <1>3 DEF Owing
<1>5. /\ current # None
      /\ \E spent \in tx.ins : spent.outpoint = record[current].outpoint
      /\ coin.address = ChannelAddress(NextParams(record[current].params))
      /\ \A other \in Known : Owing(other) => other = tx
  BY <1>4 DEF Discipline, OwedIsNext
<1>6. record'[current] = MovesOn(coin)
  BY <1>3, <1>5 DEF NodeInv, Base, RecordOK
<1>7. Describes(record'[current], coin) /\ record'[current].outpoint = coin.outpoint
  BY <1>5, <1>6 DEF Describes, MovesOn
<1>8. Known' = Known /\ Live' = Live
  <2>1. Known' = Known
    BY <1>1 DEF node, Known
  <2> QED
    BY <2>1, KnownFrame
<1>9. \A d \in Calls : pc'[d] \notin Awaits
  BY <1>1 DEF InFlight
<1>10. OneCall' /\ Reported' /\ \A d \in Calls : InOrder(d)'
  BY <1>9, NotStarted DEF OneCall, Reported, InFlight
<1>11. ASSUME NEW x \in Known', Owing(x)' PROVE FALSE
  <2>1. PICK g \in Fetches : x.id = << "settle", g >> /\ answer'[g] = "paid"
    BY <1>11 DEF Owing
  <2>2. x \in Known /\ Change(x) # {} /\ g # f
    BY <1>1, <1>8, <1>11, <2>1 DEF Owing, Change, OutputsOf, Coin
  <2>3. answer[g] = "paid"
    BY <1>1, <2>1, <2>2 DEF OnlyMoves, Same
  <2>4. x = tx
    BY <1>5, <2>1, <2>2, <2>3 DEF Owing
  <2> QED
    BY <1>3, <2>1, <2>2, <2>4
<1>12. OwedIsNext'
  BY <1>11 DEF OwedIsNext
<1>13. Named'
  <2>1. tx \in Known' /\ coin \in OutputsOf(tx)
    BY <1>8 DEF Change
  <2> QED
    BY <1>1, <1>7, <2>1 DEF Named, OutputsOf, Coin, Describes
<1>14. ASSUME failures' = 0 PROVE Tracked'
  <2> SUFFICES ASSUME NEW live \in Live
               PROVE  live.outpoint = coin.outpoint
    BY <1>1, <1>5, <1>7, <1>8 DEF Tracked
  <2>1. Tracked
    BY <1>1, <1>14 DEF Discipline
  <2>2. \A d \in Openers : pc[d] # "deployed"
    BY <1>1, AwaitNames DEF InFlight, DeployPoints
  <2>3. CASE record[current].outpoint = live.outpoint
    <3>1. PICK spent \in tx.ins : spent.outpoint = live.outpoint
      BY <1>5, <2>3
    <3>2. spent \in Created /\ spent \in Spent
      BY <3>1, CreatedKnown DEF NodeInv, InputsCreated
    <3>3. PICK t \in Known : spent \in OutputsOf(t)
      BY <3>2, CreatedKnown
    <3>4. PICK u \in Known : live \in OutputsOf(u)
      BY CreatedKnown
    <3>5. spent = live
      BY <3>1, <3>3, <3>4, OneCoin DEF NodeInv, Base
    <3> QED
      BY <3>2, <3>5 DEF Live, Spent
  <2>4. CASE live \in Owed
    <3>1. live \in Change(tx)
      BY <1>5, <2>4, DebtIsOwed
    <3> QED
      BY <1>3, <3>1 DEF NodeInv, SettlesChange
  <2> QED
    BY <2>1, <2>2, <2>3, <2>4 DEF Tracked
<1> QED
  BY <1>10, <1>12, <1>13, <1>14 DEF Discipline

\* A block moves a transaction from one side of Known to the other.
LEMMA IdleInOrder ==
    ASSUME Discipline, UNCHANGED << record, current, calls, failures >>,
           UNCHANGED node \/ \E tx \in mempool : Accept(tx)
    PROVE  Discipline'
<1>1. Known' = Known /\ Created \subseteq Created'
  BY DEF node, Accept, Known, Created, OutputsOf, Coin
<1>2. Spent' = Spent /\ Live' = Live
  BY <1>1, KnownFrame
<1>3. UNCHANGED << pc, held, ask, draft, payload, answer >>
  BY DEF calls
<1>4. Owed' = Owed /\ InFlight' = InFlight
  BY <1>1, <1>3 DEF Owed, InFlight, Change, OutputsOf, Coin
<1>5. OneCall' /\ Reported'
  BY <1>4 DEF Discipline, OneCall, Reported
<1>6. \A tx : Owing(tx)' => Owing(tx)
  BY <1>1, <1>3 DEF Owing, Change, OutputsOf, Coin
<1>7. OwedIsNext'
  BY <1>1, <1>6 DEF Discipline, OwedIsNext, Change, OutputsOf, Coin
<1>8. Named'
  BY <1>1 DEF Discipline, Named, OutputsOf, Coin, Describes
<1>9. Described => Described'
  BY <1>1 DEF Described, Describes
<1>10. ASSUME NEW c \in Calls PROVE InOrder(c)'
  <2>1. InOrder(c)
    BY DEF Discipline
  <2>2. OpeningAt(c)'
    BY <1>2, <1>3, <2>1 DEF InOrder, OpeningAt
  <2>3. PayingAt(c)'
    BY <1>2, <1>3, <1>9, <2>1 DEF InOrder, PayingAt
  <2>4. RefreshingAt(c)'
    BY <1>1, <1>3, <2>1 DEF InOrder, RefreshingAt
  <2> QED
    BY <2>2, <2>3, <2>4 DEF InOrder
<1>11. ASSUME failures' = 0 PROVE Tracked'
  BY <1>2, <1>3, <1>4, <1>11 DEF Discipline, Tracked, OutputsOf, Coin
<1> QED
  BY <1>5, <1>7, <1>8, <1>10, <1>11 DEF Discipline

Disciplined == disciplined => Discipline

LEMMA DisciplineInit == Init => Disciplined
<1> SUFFICES ASSUME Init PROVE Discipline
  BY DEF Disciplined
<1> USE CallKinds
<1>1. Known = {SavingsTx} /\ SavingsTx.id = << "savings", Self >> /\ Change(SavingsTx) = {}
  BY WalletIsNoChannel DEF Init, Known, SavingsTx, Change, OutputsOf, Coin, Pay
<1>2. \A c \in Calls : pc[c] = "idle"
  BY DEF Init
<1>3. OneCall /\ Reported
  BY <1>2, AwaitNames DEF OneCall, Reported, InFlight
<1>4. OwedIsNext
  BY <1>1 DEF OwedIsNext, Owing
<1>5. Named
  BY DEF Init, Named
<1>6. \A c \in Calls : InOrder(c)
  BY <1>2 DEF InOrder, OpeningAt, PayingAt, RefreshingAt, DeployPoints, PayPoints, RefreshPoints
<1>7. Live = {}
  BY <1>1 DEF Live, Change
<1> QED
  BY <1>3, <1>4, <1>5, <1>6, <1>7 DEF Discipline, Tracked

LEMMA DisciplineStep == NodeInv /\ Disciplined /\ [Next]_vars => Disciplined'
<1> SUFFICES ASSUME NodeInv, Disciplined, [Next]_vars, disciplined' PROVE Discipline'
  BY DEF Disciplined
<1> USE CallKinds
<1>0. Base
  BY DEF NodeInv
<1>1. ASSUME NEW f \in Fetches, Fetch(f) PROVE Discipline'
  BY <1>0, <1>1, FetchInOrder DEF Disciplined, Fetch, Begin
<1>2. ASSUME NEW f \in Fetches, Update(f) PROVE Discipline'
  BY <1>2, UpdateInOrder DEF Disciplined, Update
<1>3. ASSUME NEW c \in Opens, Open(c) PROVE Discipline'
  BY <1>0, <1>3, OpenInOrder DEF Disciplined, Open, Begin
<1>4. ASSUME NEW c \in Refreshes, Refresh(c) PROVE Discipline'
  BY <1>0, <1>4, RefreshInOrder DEF Disciplined, Refresh, Begin
<1>5. ASSUME NEW c \in Calls, Fails(c) PROVE Discipline'
  BY <1>5, FailsInOrder DEF Disciplined, Fails
<1>6. ASSUME NEW c \in Openers, DeployLookup(c) \/ DeploySubmit(c) \/ Deployed(c)
      PROVE  Discipline'
  <2>1. Discipline
    BY <1>6 DEF Disciplined, DeployLookup, DeploySubmit, Deployed
  <2> QED
    BY <1>0, <1>6, <2>1, DeployLookupInOrder, DeploySubmitInOrder, DeployedInOrder
<1>7. ASSUME NEW f \in Fetches, PayLookup(f) \/ Send(f) \/ Answered(f)
      PROVE  Discipline'
  <2>1. Discipline
    BY <1>7 DEF Disciplined, PayLookup, Send, Answered
  <2> QED
    BY <1>0, <1>7, <2>1, PayLookupInOrder, SendInOrder, AnsweredInOrder
<1>8. ASSUME NEW c \in Refreshes, RefreshConnected(c) \/ RefreshLookup(c)
      PROVE  Discipline'
  BY <1>0, <1>8, RefreshConnectedInOrder, RefreshLookupInOrder
     DEF Disciplined, RefreshConnected, RefreshLookup
<1>9. ASSUME NEW c \in Calls, Step(c) PROVE Discipline'
  BY <1>6, <1>7, <1>8, <1>9 DEF Step
<1>10. ASSUME NodeStep \/ UNCHANGED vars PROVE Discipline'
  BY <1>0, <1>10, IdleStep, IdleInOrder DEF Disciplined
<1>11. CASE \E f \in Fetches : Fetch(f) \/ Update(f)
  BY <1>1, <1>2, <1>11
<1>12. CASE \E c \in Opens : Open(c)
  BY <1>3, <1>12
<1>13. CASE \E c \in Refreshes : Refresh(c)
  BY <1>4, <1>13
<1>14. CASE \E c \in Calls : Step(c) \/ Fails(c)
  BY <1>5, <1>9, <1>14
<1> QED
  BY <1>10, <1>11, <1>12, <1>13, <1>14 DEF Next

LEMMA DisciplineInvariant == Spec => [](NodeInv /\ Disciplined)
  BY NodeInvInit, NodeInvStep, DisciplineInit, DisciplineStep, PTL DEF Spec

\* The inductive invariants of ClientProperties, of any application and of a
\* disciplined one.
THEOREM ClientInvariantsCorrect == Spec => []ClientInv /\ []DisciplineInv
<1>1. NodeInv /\ Disciplined => ClientInv /\ DisciplineInv
  BY NodeInvParts, DisciplineParts DEF NodeInv, Disciplined
<1> QED
  BY DisciplineInvariant, <1>1, PTL

\* Of a disciplined application, the record's outpoint, nonce, timeout and
\* balance are those of one coin, however many payments, refreshes, failures
\* and channels came before.
THEOREM RecordCorrect == Spec => []RecordNamesItsCoin
<1>1. NodeInv /\ Disciplined => RecordNamesItsCoin
  BY DEF Disciplined, Discipline, Named, RecordNamesItsCoin
<1> QED
  BY DisciplineInvariant, <1>1, PTL

\* Until the first failure, no coin that such a client has locked is lost to
\* it.
THEOREM TracksCorrect == Spec => []TracksItsMoney
<1>1. NodeInv /\ Disciplined => TracksItsMoney
  BY DEF Disciplined, Discipline, Tracked, TracksItsMoney
<1> QED
  BY DisciplineInvariant, <1>1, PTL

\* What the facilitator rebuilds is what was signed, when the coin holds what
\* the record says and the payment goes to the signing address; and the
\* covenant takes it.
LEMMA RebuiltIsSigned ==
    ASSUME NEW params \in OwnParams, NEW input \in Nat, NEW payment \in Nat \ {0},
           Affordable(input, payment)
    PROVE  /\ ClientOutputs(params, input, SigningAddress, payment)
                 = FacilitatorOutputs(params, input, payment)
           /\ SettleValid(params, input, FacilitatorOutputs(params, input, payment))
<1> DEFINE rest == input - payment - Fee
           outs == FacilitatorOutputs(params, input, payment)
           next == ChannelAddress(NextParams(params))
<1>1. ClientOutputs(params, input, SigningAddress, payment) = outs
  BY DEF ClientOutputs, FacilitatorOutputs
<1>2. outs[1].amount = payment /\ outs # << >>
  BY DEF FacilitatorOutputs, Pay
<1>3. rest > Fee => Len(outs) = 2 /\ outs[2].address = next /\ outs[2].amount = rest
  BY DEF FacilitatorOutputs, Pay
<1>4. payment + Fee <= input
  BY FeeAssumption DEF Affordable
<1>5. next = ChannelAddress([params EXCEPT !.nonce = params.nonce + 1])
  BY DEF NextParams
<1> HIDE DEF outs, next
<1>6. SettleValid(params, input, outs)
  BY <1>2, <1>3, <1>4, <1>5 DEF SettleValid
<1> QED
  BY <1>1, <1>6 DEF outs

\* Signature, payload and coin agree although the record is read three times:
\* the settle of what such a client has sent is accepted.
THEOREM SentCorrect == Spec => []SentIsSettleable
<1>1. ASSUME NodeInv, Disciplined, disciplined, NEW f \in Fetches,
             pc[f] = "sent", terms[f].output0 = SigningAddress
      PROVE  \E coin \in Created : Settleable(f, coin)
  <2>1. /\ ask[f] = record[current] /\ Described
        /\ \A coin \in Spent : coin.outpoint # record[current].outpoint
        /\ payload[f].outpoint = record[current].outpoint
        /\ payload[f].params = record[current].params
    BY <1>1, CallKinds DEF Disciplined, Discipline, InOrder, PayingAt, PayPoints
  <2>2. PICK coin \in Created : Describes(record[current], coin)
    BY <2>1 DEF Described
  <2>3. /\ coin.outpoint = payload[f].outpoint /\ coin.outpoint = ask[f].outpoint
        /\ coin.address = ChannelAddress(payload[f].params)
        /\ coin.amount = ask[f].balance /\ ask[f].params = payload[f].params
    BY <2>1, <2>2 DEF Describes
  <2>4. /\ payload[f] \in Payments /\ NodeOK
    BY <1>1, CallKinds DEF NodeInv, Base, CallsOK, CallOK
  <2>5. /\ Affordable(coin.amount, payload[f].amount) /\ payload[f].amount = terms[f].amount
        /\ payload[f].sig = Sign(Self, coin.outpoint,
                                 ClientOutputs(payload[f].params, coin.amount,
                                               SigningAddress, payload[f].amount))
    BY <1>1, <2>3 DEF NodeInv, SignedAsAsked, PayPoints
  <2>6. coin \in Coins /\ payload[f].params \in OwnParams /\ payload[f].amount \in Nat \ {0}
    BY <2>4, CreatedTyped, ClientAssumption DEF Payments, NodeOK
  <2> DEFINE tx == SettleTx(f, coin)
             sigs == {payload[f].sig} \cup WalletSigs(FacilitatorKey, tx)
  <2>7. tx.ins = {coin} /\ tx.outs = FacilitatorOutputs(payload[f].params, coin.amount,
                                                        payload[f].amount)
    BY DEF SettleTx
  <2>8. coin \notin Consumed /\ coin \notin Pending
    BY <2>1, <2>3 DEF Spent
  <2>9. coin \in Utxo /\ coin \in CoinNamed(payload[f].params, payload[f].outpoint)
    BY <2>3, <2>8 DEF Utxo, CoinNamed, CoinsAt
  <2>10. /\ payload[f].sig = Sign(Self, coin.outpoint, tx.outs)
         /\ SettleValid(payload[f].params, coin.amount, tx.outs)
    BY <2>5, <2>6, <2>7, RebuiltIsSigned DEF Coins
  <2>11. Sign(FacilitatorKey, coin.outpoint, tx.outs) \in WalletSigs(FacilitatorKey, tx)
    BY <2>7 DEF WalletSigs
  <2>12. IsChannelAddress(coin.address) /\ coin.address.params = payload[f].params
    BY <2>3, <2>6, ChannelAddressTyped DEF ChannelAddress
  <2>13. payload[f].params.client = Self
    BY <2>6 DEF OwnParams
  <2> HIDE DEF tx
  <2>14. Unlocks(coin, tx, sigs)
    BY <2>10, <2>11, <2>12, <2>13 DEF Unlocks, SettleAccepts
  <2>15. NodeAccepts(tx, sigs)
    BY <2>7, <2>8, <2>9, <2>14 DEF NodeAccepts
  <2> QED
    BY <2>5, <2>9, <2>15 DEF Settleable, tx
<1>2. NodeInv /\ Disciplined => SentIsSettleable
  BY <1>1 DEF SentIsSettleable
<1> QED
  BY DisciplineInvariant, <1>2, PTL

=============================================================================
