---------------------------- MODULE MCFacilitator ----------------------------
(* Small instances of the facilitator.  The price 1 does not exceed Fee and *)
(* is not forwarded, 2 and 3 are.  Two payments of 3 leave alice a remainder *)
(* of Fee, which is not carried over, as three payments of 2 do of           *)
(* ReplayFunding; bob's channel is closed by one payment.                    *)
EXTENDS FacilitatorProperties, TLC

CONSTANTS alice, bob, shop, cafe

MCClients == {alice, bob}
MCTimeouts == {5}
AliceChannel == [client |-> alice, timeout |-> 5, nonce |-> 0]
BobChannel == [client |-> bob, timeout |-> 5, nonce |-> 0]
OneChannel == {AliceChannel}
TwoChannels == {AliceChannel, BobChannel}
MCFunding == [ch \in Channels |-> IF ch = AliceChannel THEN 9 ELSE 5]
ReplayFunding == [ch \in Channels |-> 10]
OneMerchant == {shop}
TwoMerchants == {shop, cafe}

Symmetry == Permutations(Settles) \cup Permutations(Merchants)

=============================================================================
