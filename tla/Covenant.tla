------------------------------ MODULE Covenant ------------------------------
(***************************************************************************)
(* The X402Channel covenant and the two programs that build the            *)
(* transaction it must accept.                                             *)
(*                                                                         *)
(* A settle transaction is computed three times in this system: by the     *)
(* client when it signs (channel.ts), by the facilitator when it rebuilds  *)
(* what the client signed (facilitator.ts), and by the contract when it    *)
(* validates the outputs (x402-channel-v4-locked.sil).  Nothing but        *)
(* convention keeps the three in agreement, so each is written here from   *)
(* its own source.                                                         *)
(*                                                                         *)
(* A P2SH address is the hash of the contract patched with the channel's   *)
(* parameters; it is represented by those parameters, which is what an     *)
(* injective encoding followed by a collision-free hash amounts to.        *)
(***************************************************************************)
EXTENDS Integers, Sequences

CONSTANTS
    Clients,         \* x-only public keys of the clients
    Timeouts,        \* values of the contract's timeout parameter
    FacilitatorKey,  \* the key hardcoded in the v4 contract
    Fee              \* STANDARD_FEE in TypeScript, minerFee in the contract

ASSUME FeeAssumption == Fee \in Nat

\* The facilitator does not open channels with itself.
ASSUME KeyAssumption == FacilitatorKey \notin Clients

-----------------------------------------------------------------------------
(* Addresses, outputs and coins.                                           *)

ChannelParams == [client : Clients, timeout : Timeouts, nonce : Nat]

WalletAddress(owner) == [kind |-> "wallet", owner |-> owner]

\* Mutant: the patch leaves the template's nonce in place.
ChannelAddress_NonceNotPatched(params) ==
    [kind |-> "channel", params |-> [params EXCEPT !.nonce = 0]]

ChannelAddress(params) == [kind |-> "channel", params |-> params]

IsChannelAddress(address) == address.kind = "channel"

\* The facilitator's signing wallet (P2PK of its hot key).
SigningAddress == WalletAddress(FacilitatorKey)

Pay(address, amount) == [address |-> address, amount |-> amount]

NextParams(params) == [params EXCEPT !.nonce = @ + 1]

\* A SIGHASH_ALL signature covers the outpoint that is spent and every output.
Sign(key, outpoint, outputs) ==
    [signer |-> key, spends |-> outpoint, outputs |-> outputs]

-----------------------------------------------------------------------------
(* The outputs the client signs.  inputAmount is the balance in the        *)
(* client's own channel record, payTo is chosen by buildPayment.           *)

\* Mutant: off by one at the boundary of the change output.
ClientOutputs_ChangeAtFee(params, inputAmount, payTo, payment) ==
    LET remainder == inputAmount - payment - Fee
    IN  IF remainder >= Fee
        THEN << Pay(payTo, payment),
                Pay(ChannelAddress(NextParams(params)), remainder) >>
        ELSE << Pay(payTo, payment) >>

ClientOutputs(params, inputAmount, payTo, payment) ==
    LET remainder == inputAmount - payment - Fee
        change    == Pay(ChannelAddress(NextParams(params)), remainder)
    IN  IF remainder > Fee
        THEN << Pay(payTo, payment), change >>
        ELSE << Pay(payTo, payment) >>

(* The outputs the facilitator rebuilds.  inputAmount is the amount of the *)
(* coin found on chain, the payment is that of the requirements.           *)

FacilitatorOutputs(params, inputAmount, payment) ==
    LET remainder == inputAmount - payment - Fee
        nextParams == NextParams(params)
    IN  IF remainder > Fee
        THEN << Pay(SigningAddress, payment),
                Pay(ChannelAddress(nextParams), remainder) >>
        ELSE << Pay(SigningAddress, payment) >>

(* What the contract's settle entrypoint asks of the outputs.  A missing   *)
(* output fails the script.                                                *)

\* Mutant: the payment is compared with the input, the fee is forgotten.
SettleValid_FeeForgotten(params, inputValue, outputs) ==
    LET paymentAmount == outputs[1].amount
        remainder     == inputValue - paymentAmount - Fee
    IN  /\ paymentAmount > 0
        /\ paymentAmount <= inputValue
        /\ remainder > Fee =>
              /\ Len(outputs) >= 2
              /\ outputs[2].address = ChannelAddress(
                    [params EXCEPT !.nonce = params.nonce + 1])
              /\ outputs[2].amount = remainder

SettleValid(params, inputValue, outputs) ==
    LET paymentAmount == outputs[1].amount
        remainder     == inputValue - paymentAmount - Fee
    IN  /\ outputs # << >>
        /\ paymentAmount > 0
        /\ paymentAmount + Fee <= inputValue
        /\ remainder > Fee =>
              /\ Len(outputs) >= 2
              /\ outputs[2].address = ChannelAddress(
                    [params EXCEPT !.nonce = params.nonce + 1])
              /\ outputs[2].amount = remainder

(* The whole entrypoint: both signatures, then the outputs.                *)

\* Mutant: only the facilitator's signature is checked.
SettleAccepts_ClientUnchecked(params, coin, outputs, sigs) ==
    /\ Sign(FacilitatorKey, coin.outpoint, outputs) \in sigs
    /\ SettleValid(params, coin.amount, outputs)

SettleAccepts(params, coin, outputs, sigs) ==
    /\ Sign(params.client, coin.outpoint, outputs) \in sigs
    /\ Sign(FacilitatorKey, coin.outpoint, outputs) \in sigs
    /\ SettleValid(params, coin.amount, outputs)

(* The balance test of verify and of buildPayment.                         *)

\* Mutant: the miner's fee is left out of the test.
Affordable_FeeForgotten(balance, payment) == balance >= payment

Affordable(balance, payment) == balance >= payment + Fee

=============================================================================
