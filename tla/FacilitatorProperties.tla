----------------------- MODULE FacilitatorProperties -----------------------
(***************************************************************************)
(* What must hold of the facilitator: types, safety, the payment channel   *)
(* it implements, liveness, and at the end the statements of the           *)
(* repository's documents that its code does not keep.                     *)
(***************************************************************************)
EXTENDS Facilitator

-----------------------------------------------------------------------------
(* Types.                                                                  *)

TxIds == ({"fund"} \X Channels) \cup ({"float"} \X {FacilitatorKey})
            \cup ({"settle", "forward"} \X Settles) \cup ({"sweep"} \X Sweeps)

Owners == Merchants \cup {FacilitatorKey, ColdWallet}

Addresses == { WalletAddress(owner) : owner \in Owners }
                \cup [kind : {"channel"}, params : ChannelParams]

Outputs == [address : Addresses, amount : Nat]

Outpoints == TxIds \X (Nat \ {0})

Coins == [outpoint : Outpoints, address : Addresses, amount : Nat]

Txs == [id : TxIds, ins : SUBSET Coins, outs : Seq(Outputs)]

Signatures == [signer : Clients \cup {FacilitatorKey},
               spends : Outpoints, outputs : Seq(Outputs)]

Bodies == [outpoint : Outpoints, params : ChannelParams, sig : Signatures,
           accepted : Terms, required : Terms]

TypeOK ==
    /\ chain \subseteq Txs
    /\ mempool \subseteq Txs
    /\ pc \in [Handlers -> Awaits \cup {"idle", "done", "lost"}]
    /\ req \in [Requests -> Bodies \cup {None}]
    /\ draft \in [Handlers -> Txs \cup {None}]
    /\ waited \in [Handlers -> 0 .. MinConf]
    /\ polls \in [Handlers -> 0 .. MaxPolls]
    /\ outcome \in [Handlers -> Outcomes]
    /\ failures \in 0 .. MaxFailures
    /\ crashes \in 0 .. MaxCrashes

-----------------------------------------------------------------------------
(* Safety.                                                                 *)

HasId(tx, kind, h) == tx.id = << kind, h >>

Succeeded(r) == r \in Settles /\ outcome[r] = "success"

\* The channel coin and the outputs of a settle are those of request r, and
\* the channel's client signed exactly that.
Settlement(r, tx) ==
    \E coin \in Created :
        /\ tx = SettleTx(r, coin)
        /\ coin.outpoint = req[r].outpoint
        /\ coin.address = ChannelAddress(req[r].params)

\* A payment buys one response: two settle calls that both answer success
\* spent two different coins, although nothing in facilitator.ts remembers
\* what was settled, a coin being spent is still reported to the lookups of
\* verify and settle, and the process may restart between the two calls.
OnePaymentPerSuccess ==
    \A r1, r2 \in Settles :
        r1 # r2 /\ Succeeded(r1) /\ Succeeded(r2)
            => req[r1].outpoint # req[r2].outpoint

\* A success is backed by a transaction the node took, which pays the price
\* the resource server required to the facilitator out of the coin the
\* payload names, under the client's signature: true on every path to the
\* success response of settle, those through a failed forward included.  That
\* output 0 pays the facilitator is facilitator.ts:271; in scheme_exact_kaspa.md
\* (:87, :137, :217) and packages/client/README.md:53 it pays the merchant.
SuccessPaysThePrice ==
    \A r \in Settles : Succeeded(r) =>
        \E tx \in Known :
            /\ HasId(tx, "settle", r)
            /\ Settlement(r, tx)
            /\ tx.outs[1] = Pay(SigningAddress, req[r].required.amount)
            /\ req[r].sig = Sign(req[r].params.client, req[r].outpoint, tx.outs)

\* Whatever is put together from the signatures of clients and JSON nobody
\* signs, and whichever calls get an answer, a channel coin is only spent as
\* its client signed: what does not come back to a channel is the price in
\* output 0 and at most two miner fees.
ClientConsents ==
    \A tx \in Known : \A coin \in { c \in tx.ins : IsChannelAddress(c.address) } :
        \E r \in Settles :
            LET change == Total({ c \in OutputsOf(tx) : IsChannelAddress(c.address) })
            IN  /\ HasId(tx, "settle", r)
                /\ req[r].sig = Sign(coin.address.params.client, coin.outpoint, tx.outs)
                /\ coin.amount - change <= req[r].sig.outputs[1].amount + 2 * Fee

\* What output 0 of these transactions pays.
Received(txs) == MapThenSumSet(LAMBDA tx : tx.outs[1].amount, txs)

\* What was forwarded to a merchant never exceeds what was settled for it:
\* forwardToMerchant spends from one wallet for all merchants, so a payment
\* forwarded twice would be another merchant's money.
MerchantsNotOverpaid ==
    \A m \in Merchants :
        Received({ tx \in Known : tx.id[1] = "forward"
                                    /\ tx.outs[1].address = WalletAddress(m) })
        <= Received({ tx \in Known : tx.id[1] = "settle"
                                    /\ req[tx.id[2]].required.payTo = m })

-----------------------------------------------------------------------------
(* The inductive invariant behind OnePaymentPerSuccess and                 *)
(* SuccessPaysThePrice.                                                    *)

\* Each route's handler stays on its own control points, has no answer before
\* it ends, and has a body while it works on it.
Control ==
    /\ \A v \in Verifies : pc[v] \in {"idle", "verify", "done", "lost"}
    /\ \A r \in Settles : pc[r] \notin SweepPoints
    /\ \A s \in Sweeps : pc[s] \in SweepPoints \cup {"idle", "done", "lost"}
    /\ \A h \in Handlers : pc[h] # "done" => outcome[h] = "none"
    /\ \A r \in Requests : pc[r] \in Awaits => req[r] \in Bodies

\* What a handler is about to submit is its own transaction.
KindAt(point) ==
    CASE point = "submit"        -> "settle"
      [] point = "forwardSubmit" -> "forward"
      [] point = "sweepSubmit"   -> "sweep"

DraftOwned ==
    \A h \in Handlers : pc[h] \in SubmitPoints =>
        draft[h] \in Txs /\ draft[h].id = << KindAt(pc[h]), h >>

DraftSettles ==
    \A r \in Settles : pc[r] = "submit" => Settlement(r, draft[r])

UniqueIds == \A t, u \in Known : t.id = u.id => t = u

NoDoubleSpend == \A t, u \in Known : t # u => t.ins \cap u.ins = {}

\* No transaction of a handler is known before the handler submits it.
Fresh ==
    \A tx \in Known :
        /\ \A r \in Settles :
              pc[r] \in {"idle", "verify", "lookup", "submit"} => tx.id # << "settle", r >>
        /\ \A r \in Settles :
              pc[r] \notin {"done", "lost"} => tx.id # << "forward", r >>
        /\ \A s \in Sweeps :
              pc[s] \notin {"done", "lost"} => tx.id # << "sweep", s >>

\* Past its broadcast, a settle has its transaction at the node.
Backed ==
    \A r \in Settles :
        pc[r] \in ConfirmPoints \cup ForwardPoints \/ outcome[r] = "success" =>
            \E tx \in Known : HasId(tx, "settle", r)

\* Every settle at the node is what its request asked and its client signed.
SettledAsSigned ==
    \A tx \in Known : \A r \in Settles : HasId(tx, "settle", r) =>
        /\ req[r] \in Bodies
        /\ Settlement(r, tx)
        /\ req[r].sig = Sign(req[r].params.client, req[r].outpoint, tx.outs)

TypeInv == TypeOK /\ Control /\ DraftOwned

SettleInv ==
    /\ DraftSettles /\ UniqueIds /\ NoDoubleSpend
    /\ Fresh /\ Backed /\ SettledAsSigned

-----------------------------------------------------------------------------
(* The channels seen through the chain, and the promise they implement.    *)

ChannelOf(coin) == [coin.address.params EXCEPT !.nonce = 0]

CoinsOfChannel(coins, ch) ==
    { coin \in coins : IsChannelAddress(coin.address) /\ ChannelOf(coin) = ch }

LiveCoins(ch) == CoinsOfChannel(Utxo, ch)

SettlesOf(ch) == { tx \in chain : CoinsOfChannel(tx.ins, ch) # {} }

ChannelBalance == [ch \in Channels |-> Total(LiveCoins(ch))]
ChannelNonce == [ch \in Channels |-> Cardinality(SettlesOf(ch))]
ChannelPaid == [ch \in Channels |-> Received(SettlesOf(ch))]

PC == INSTANCE PaymentChannel
        WITH balance <- ChannelBalance, nonce <- ChannelNonce, paid <- ChannelPaid

\* Node, covenant and facilitator together are a payment channel: whatever is
\* submitted, lost, repeated or refused, each channel moves by whole
\* settlements, each worth one payment and its fee.
ImplementsPaymentChannel == PC!ChSpec

\* A channel is one coin, and its nonce counts the settlements before it, so
\* the address derived from (client, timeout, nonce) names one coin.
ChannelIsOneCoin ==
    \A ch \in Channels : \A coin \in LiveCoins(ch) :
        /\ LiveCoins(ch) = {coin}
        /\ coin.address.params.nonce = Cardinality(SettlesOf(ch))

-----------------------------------------------------------------------------
(* The inductive invariant behind ClientConsents, MerchantsNotOverpaid,    *)
(* ChannelIsOneCoin and ImplementsPaymentChannel, on top of SettleInv.     *)

\* A transaction of the signing wallet: it leaves every channel alone.
WalletOnly(tx) ==
    /\ \A coin \in tx.ins : ~ IsChannelAddress(coin.address)
    /\ \A vout \in DOMAIN tx.outs : ~ IsChannelAddress(tx.outs[vout].address)

\* What forwardToMerchant builds: output 0 is the price, to the payee.
Forwards(r, tx) ==
    tx.outs[1] = Pay(WalletAddress(req[r].required.payTo), req[r].required.amount)

WalletDrafts ==
    \A h \in Handlers :
        /\ pc[h] \in {"forwardSubmit", "sweepSubmit"} => WalletOnly(draft[h])
        /\ pc[h] = "forwardSubmit" => Forwards(h, draft[h])

\* A settle at the node is affordable.
Payment(r, tx) ==
    /\ HasId(tx, "settle", r)
    /\ \A coin \in tx.ins : Affordable(coin.amount, req[r].required.amount)

\* The node knows fundings, settles and transactions of the wallet.
Kinds ==
    \A tx \in Known :
        \/ \E ch \in Channels : tx = FundTx(ch)
        \/ \E r \in Settles : Payment(r, tx)
        \/ WalletOnly(tx)

\* A forward at the node has the settle it forwards there as well.
ForwardsBacked ==
    \A tx \in Known : tx.id[1] = "forward" =>
        \E r \in Settles :
            /\ tx.id = << "forward", r >>
            /\ Forwards(r, tx)
            /\ \E settled \in Known : HasId(settled, "settle", r)

\* The coins of the mempool are unspent, those of the chain were created.
NodeInv ==
    /\ mempool \cap chain = {}
    /\ Consumed \subseteq Created
    /\ \A tx \in mempool : tx.ins \subseteq Utxo
    /\ \A ch \in Channels : FundTx(ch) \in chain

\* What the handlers have submitted.
Moves == { tx \in Known : tx.id[1] \notin {"fund", "float"} }

\* Every channel coin is one of a channel that was opened.
ChannelsKnown ==
    \A coin \in Created : IsChannelAddress(coin.address) => ChannelOf(coin) \in Channels

MoneyInv ==
    /\ WalletDrafts /\ Kinds /\ ForwardsBacked
    /\ NodeInv /\ IsFiniteSet(Moves)

ChannelInv ==
    /\ ChannelsKnown /\ ChannelIsOneCoin
    /\ \A ch \in Channels : IsFiniteSet(SettlesOf(ch))

-----------------------------------------------------------------------------
(* Liveness.                                                               *)

\* Every call is answered, unless the process restarts under it: the waits of
\* waitForConfirmation and forwardToMerchant end.
EveryCallAnswered ==
    \A h \in Handlers : pc[h] # "idle" ~> pc[h] \in {"done", "lost"}

Undisturbed == failures = 0 /\ crashes = 0

-----------------------------------------------------------------------------
(* What the repository says and the code does not do.                      *)

\* specs/scheme_exact_kaspa.md: success says whether settlement succeeded.  A
\* settle that answers failure has settled nothing.
FailureSettledNothing ==
    \A r \in Settles : outcome[r] \in {"refused", "error"} =>
        \A tx \in Known : ~ HasId(tx, "settle", r)

Quiescent ==
    /\ mempool = {}
    /\ \A h \in Handlers : pc[h] \in {"idle", "done"}

\* README.md: the merchant gets KAS deposited to its address for every paid
\* request.
EveryPaymentForwarded ==
    Quiescent => \A r \in Settles : Succeeded(r) =>
        \E tx \in chain : HasId(tx, "forward", r)

\* README.md: the sweep sends accumulated fees to the cold wallet.  It does
\* not spend a payment whose merchant has not been paid yet.
SweepTakesOnlyFees ==
    \A s \in Sweeps, r \in Settles :
        \A tx \in Known : HasId(tx, "sweep", s) =>
            \/ \A coin \in tx.ins : coin.outpoint # << << "settle", r >>, 1 >>
            \/ \E forward \in Known : HasId(forward, "forward", r)

=============================================================================
