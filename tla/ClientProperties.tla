-------------------------- MODULE ClientProperties --------------------------
(***************************************************************************)
(* What the client's records say about its money.  Most of it holds only   *)
(* of an application that keeps the discipline of Orderly, which the code  *)
(* leaves to the application: disciplined is the premise, and it says how  *)
(* much is missing from the code.                                          *)
(***************************************************************************)
EXTENDS Client

-----------------------------------------------------------------------------
(* Types.                                                                  *)

TxIds == ({"savings"} \X {Self}) \cup ({"deploy"} \X Openers)
            \cup ({"settle"} \X Fetches)

\* Every channel of this client is its own.
OwnParams == [client : {Self}, timeout : Timeouts, nonce : Nat]

Owners == Merchants \cup {Self, FacilitatorKey}

Addresses == { WalletAddress(owner) : owner \in Owners }
                \cup [kind : {"channel"}, params : OwnParams]

Outputs == [address : Addresses, amount : Nat]

Outpoints == TxIds \X (Nat \ {0})

Coins == [outpoint : Outpoints, address : Addresses, amount : Nat]

Txs == [id : TxIds, ins : SUBSET Coins, outs : Seq(Outputs)]

Signatures == [signer : {Self}, spends : Outpoints, outputs : Seq(Outputs)]

Infos == [outpoint : Outpoints, params : OwnParams, balance : Nat]

Payments == [outpoint : Outpoints, params : OwnParams, sig : Signatures,
             amount : Amounts]

Answers == {"none", "insufficient balance", "not found", "no funds", "rejected",
            "opened", "no channel", "dropped", "refreshed", "paid", "updated",
            "unpaid", "failed"}

\* Every record, ask, draft and payload is there when its await ends.
ClientTypeOK ==
    /\ chain \subseteq Txs
    /\ mempool \subseteq Txs
    /\ record \in [Openers -> Infos \cup {None}]
    /\ current \in Openers \cup {None}
    /\ current # None => record[current] \in Infos
    /\ pc \in [Calls -> Awaits \cup {"idle", "done"}]
    /\ held \in [Calls -> Openers \cup {None}]
    /\ terms \in [Calls -> Offers \cup {None}]
    /\ ask \in [Calls -> Infos \cup {None}]
    /\ draft \in [Calls -> Txs \cup {None}]
    /\ signed \in [Calls -> Signatures \cup {None}]
    /\ payload \in [Calls -> Payments \cup {None}]
    /\ answer \in [Calls -> Answers]
    /\ \A c \in Calls :
          /\ pc[c] \in {"deploySubmit", "deployed"} => draft[c] \in Txs
          /\ c \in Fetches /\ pc[c] \in Awaits => terms[c] \in Offers
          /\ pc[c] \in {"payLookup", "signed", "sent", "connect", "refresh"} =>
                held[c] # None /\ record[held[c]] \in Infos
          /\ pc[c] \in {"payLookup", "signed", "sent", "refresh"} => ask[c] \in Infos
          /\ pc[c] \in {"signed", "sent"} => signed[c] \in Signatures
          /\ pc[c] = "sent" => payload[c] \in Payments
    /\ failures \in 0 .. MaxFailures
    /\ disciplined \in BOOLEAN

-----------------------------------------------------------------------------
(* Safety.                                                                 *)

Describes(info, coin) ==
    /\ info.outpoint = coin.outpoint
    /\ ChannelAddress(info.params) = coin.address
    /\ info.balance = coin.amount

\* The five fields of the record agree on one coin, over any sequence of
\* payments, updates, refreshes, failures and new channels: a nonce that
\* falls behind its outpoint would make every later payment fail.  It takes a
\* disciplined application: an update that arrives while a fetch opens
\* another channel, or after another one, moves a record that is not its own.
RecordNamesItsCoin ==
    disciplined /\ current # None =>
        \E tx \in Known : \E coin \in OutputsOf(tx) : Describes(record[current], coin)

Live == { coin \in UNION { OutputsOf(tx) : tx \in Known } :
            /\ IsChannelAddress(coin.address)
            /\ coin \notin Consumed \cup Pending }

\* The client knows of all the money it has locked: every unspent channel
\* coin is named by the record, is the change of a payment still to be
\* reported, or has just been broadcast.  One failure or one call out of
\* order and the coin is lost to the client, for nothing else remembers the
\* timeout and the nonce its address is derived from.
TracksItsMoney ==
    disciplined /\ failures = 0 =>
        \A coin \in Live :
            \/ current # None /\ record[current].outpoint = coin.outpoint
            \/ coin \in Owed
            \/ \E c \in Openers : pc[c] = "deployed" /\ coin \in OutputsOf(draft[c])

\* Whatever calls interleave, a settle at the node is one the client signed
\* for that fetch: an update between the signature and the payload, or a
\* second fetch of the same coin, makes a payment that is refused, not one
\* that spends another coin or another amount.
SettlesAreSigned ==
    \A tx \in Known : \A f \in Fetches : tx.id = << "settle", f >> =>
        \A coin \in tx.ins : signed[f] = Sign(Self, coin.outpoint, tx.outs)

\* What a disciplined client sends, the facilitator can settle, for the second
\* and the later payments of a channel as for the first: signature, payload
\* and coin agree although the record is read three times, with an await
\* between the readings.  The 402 must have announced the signing address.
SentIsSettleable ==
    disciplined =>
        \A f \in Fetches :
            pc[f] = "sent" /\ terms[f].output0 = SigningAddress
                => \E coin \in Created : Settleable(f, coin)

-----------------------------------------------------------------------------
(* The inductive invariant behind them: first of any application.          *)

DeployPoints == {"deployLookup", "deploySubmit", "deployed"}
PayPoints == {"payLookup", "signed", "sent"}
RefreshPoints == {"connect", "refresh"}

\* Each method's calls stay on its own control points and have no answer
\* before they end.
CallControl ==
    \A c \in Calls :
        /\ pc[c] \in DeployPoints => c \in Openers
        /\ pc[c] \in PayPoints => c \in Fetches
        /\ pc[c] \in RefreshPoints => c \in Refreshes
        /\ pc[c] # "done" => answer[c] = "none"

\* A deployment locks the funding in its first output, and nothing else in a
\* channel.
Deploys(c, tx) ==
    /\ tx.id = << "deploy", c >>
    /\ IsChannelAddress(tx.outs[1].address)
    /\ tx.outs[1].amount = DefaultFunding
    /\ Change(tx) = {Coin(tx, 1)}

DraftDeploys ==
    \A c \in Calls :
        /\ pc[c] \in {"deploySubmit", "deployed"} => Deploys(c, draft[c])
        /\ pc[c] = "deployed" => draft[c] \in Known

UniqueIds == \A t, u \in Known : t.id = u.id => t = u

InputsCreated == \A tx \in Known : tx.ins \subseteq Created

\* No transaction of a call is known before the call submits it.
Fresh ==
    \A tx \in Known : \A c \in Calls :
        /\ tx.id = << "deploy", c >> => pc[c] \notin {"idle", "deployLookup", "deploySubmit"}
        /\ tx.id = << "settle", c >> => pc[c] = "done"

\* A payment is signed for what its ask and its terms say, and is affordable.
SignedAsAsked ==
    \A f \in Fetches :
        /\ pc[f] \in PayPoints => Affordable(ask[f].balance, terms[f].amount)
        /\ pc[f] \in {"signed", "sent"} =>
              signed[f] = Sign(Self, ask[f].outpoint,
                               ClientOutputs(ask[f].params, ask[f].balance,
                                             terms[f].output0, terms[f].amount))
        /\ pc[f] = "sent" => payload[f].sig = signed[f] /\ payload[f].amount = terms[f].amount

\* A settle leaves one channel coin at most, its second output.
SettlesChange ==
    \A tx \in Known : \A f \in Fetches :
        tx.id = << "settle", f >> => \A coin \in Change(tx) : coin.outpoint = << tx.id, 2 >>

ClientInv ==
    /\ ClientTypeOK /\ CallControl /\ DraftDeploys
    /\ UniqueIds /\ InputsCreated /\ Fresh
    /\ SignedAsAsked /\ SettlesChange /\ SettlesAreSigned

-----------------------------------------------------------------------------
(* Then of a disciplined one.                                              *)

Unspent(outpoint) == \A coin \in Consumed \cup Pending : coin.outpoint # outpoint

\* One call at a time, and no call while a change is to be reported.
OneCall == \A c, d \in InFlight : c = d

Reported == InFlight # {} => Owed = {}

\* A channel is opened when there is none, and its coin is not spent before
\* the record names it.
Opening ==
    \A c \in Calls :
        /\ pc[c] \in DeployPoints => current = None
        /\ pc[c] = "deployed" => Unspent(<< draft[c].id, 1 >>)

\* What a fetch has read of the record is still so.
Paying ==
    \A f \in Fetches :
        /\ pc[f] \in PayPoints =>
              /\ current # None /\ held[f] = current /\ ask[f] = record[current]
              /\ Unspent(record[current].outpoint)
        /\ pc[f] \in {"signed", "sent"} =>
              \E coin \in Created : Describes(record[current], coin)
        /\ pc[f] = "sent" => /\ payload[f].outpoint = record[current].outpoint
                             /\ payload[f].params = record[current].params

\* A refresh looks up a coin the chain has had.
Refreshing ==
    \A c \in Calls : pc[c] \in RefreshPoints =>
        /\ current # None /\ held[c] = current
        /\ pc[c] = "refresh" => ask[c] = record[current]
        /\ \E coin \in Created : coin.outpoint = record[current].outpoint

\* The settle of a paid fetch whose change is still to be reported.
Owing(tx) ==
    /\ tx \in Known /\ Change(tx) # {}
    /\ \E f \in Fetches : tx.id = << "settle", f >> /\ answer[f] = "paid"

\* There is one at most.  It spends the coin of the record, and its change is
\* at the record's next address.
OwedIsNext ==
    \A tx \in Known : Owing(tx) =>
        /\ current # None
        /\ \E coin \in tx.ins : coin.outpoint = record[current].outpoint
        /\ \A coin \in Change(tx) :
              coin.address = ChannelAddress(NextParams(record[current].params))
        /\ \A other \in Known : Owing(other) => other = tx

DisciplineInv ==
    /\ disciplined =>
          OneCall /\ Reported /\ Opening /\ Paying /\ Refreshing /\ OwedIsNext
    /\ RecordNamesItsCoin
    /\ TracksItsMoney

-----------------------------------------------------------------------------
(* What the repository says and the code does not do.                      *)

\* packages/client/README.md: the SDK reuses the channel for subsequent
\* payments.  A fetch that has the client to itself does not set out to spend
\* a spent coin while the change of an earlier paid fetch affords the price.
ReusesChannel ==
    [][ \A f \in Fetches :
            InFlight = {} /\ pc[f] = "idle" /\ pc'[f] = "payLookup" =>
                \/ \A coin \in Consumed : coin.outpoint # ask'[f].outpoint
                \/ \A coin \in Owed \cap Utxo :
                      ~ Affordable(coin.amount, terms'[f].amount) ]_vars

=============================================================================
