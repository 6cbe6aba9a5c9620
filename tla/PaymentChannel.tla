--------------------------- MODULE PaymentChannel ---------------------------
(***************************************************************************)
(* What a payment channel promises, without transactions, signatures,      *)
(* mempools or servers: a channel holds a balance, a settlement moves part *)
(* of it to the facilitator, pays the miner and leaves the rest under the  *)
(* next nonce.  The detailed specification of the facilitator and the node *)
(* is shown to implement this one.                                         *)
(***************************************************************************)
EXTENDS Covenant

CONSTANTS
    Channels,   \* the channels' parameters at nonce 0
    Funding     \* Funding[ch]: what openChannel locked in ch

ASSUME FundingAssumption == /\ Channels \subseteq ChannelParams
                            /\ Funding \in [Channels -> Nat]

VARIABLES
    balance,    \* balance[ch]: value of the channel's live coin, 0 once closed
    nonce,      \* nonce[ch]: settlements so far
    paid        \* paid[ch]: what the facilitator received from ch

chVars == << balance, nonce, paid >>

ChInit ==
    /\ balance = Funding
    /\ nonce = [ch \in Channels |-> 0]
    /\ paid = [ch \in Channels |-> 0]

\* Mutant: any remainder is carried over.
Carried_AnyRemainder(rest) == IF rest > 0 THEN rest ELSE 0

\* A remainder the contract would not carry over goes to the miner.
Carried(rest) == IF rest > Fee THEN rest ELSE 0

Settle(ch, payment) ==
    /\ payment > 0
    /\ Affordable(balance[ch], payment)
    /\ balance' = [balance EXCEPT ![ch] = Carried(@ - payment - Fee)]
    /\ nonce' = [nonce EXCEPT ![ch] = @ + 1]
    /\ paid' = [paid EXCEPT ![ch] = @ + payment]

ChNext == \E ch \in Channels : \E payment \in 1 .. balance[ch] : Settle(ch, payment)

ChSpec == ChInit /\ [][ChNext]_chVars

-----------------------------------------------------------------------------
(* Properties.                                                             *)

ChTypeOK ==
    /\ balance \in [Channels -> Nat]
    /\ nonce \in [Channels -> Nat]
    /\ paid \in [Channels -> Nat]

\* What has left the channel without reaching the facilitator.
MinerFees(ch) == Funding[ch] - balance[ch] - paid[ch]

\* A channel that still holds a coin has lost exactly one fee per settlement;
\* a closed one has lost at most one fee more.  So a client pays each request's
\* price and a fixed network fee, whatever the sequence of payments: this is
\* the "remainder > fee" rule shared by channel.ts, facilitator.ts and the
\* contract.
FeesBounded ==
    \A ch \in Channels :
        /\ MinerFees(ch) >= nonce[ch] * Fee
        /\ MinerFees(ch) <= (nonce[ch] + 1) * Fee
        /\ balance[ch] > 0 => MinerFees(ch) = nonce[ch] * Fee

\* The coin of ch after nonce[ch] settlements.
LiveParams(ch) == [ch EXCEPT !.nonce = nonce[ch]]

\* At every point of a channel's life, a payment that passes the balance test
\* of verify (facilitator.ts) and of buildPayment (client.ts) is one the
\* contract's settle accepts when the facilitator rebuilds the outputs, and
\* one that fails it is refused by the contract: the test the facilitator
\* makes before it signs is exactly the contract's.
BalanceTestIsExact ==
    \A ch \in Channels : \A payment \in 1 .. Funding[ch] :
        Affordable(balance[ch], payment) <=>
            SettleValid(LiveParams(ch), balance[ch],
                        FacilitatorOutputs(LiveParams(ch), balance[ch], payment))

\* The client's signature covers the very outputs the facilitator rebuilds,
\* whenever the client's balance is the coin's amount and it was told to pay
\* the facilitator's signing address (channel.ts and facilitator.ts compute
\* the list independently).
SignedIsRebuilt ==
    \A ch \in Channels : \A payment \in 1 .. Funding[ch] :
        ClientOutputs(LiveParams(ch), balance[ch], SigningAddress, payment)
            = FacilitatorOutputs(LiveParams(ch), balance[ch], payment)

=============================================================================
