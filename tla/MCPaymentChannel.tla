-------------------------- MODULE MCPaymentChannel --------------------------
(* Two channels, one of them so small that a single payment may close it.  *)
EXTENDS PaymentChannel

CONSTANTS alice, bob

MCClients == {alice, bob}
MCTimeouts == {5}
AliceChannel == [client |-> alice, timeout |-> 5, nonce |-> 0]
BobChannel == [client |-> bob, timeout |-> 5, nonce |-> 0]
MCChannels == {AliceChannel, BobChannel}
MCFunding == [ch \in MCChannels |-> IF ch = AliceChannel THEN 20 ELSE 7]

=============================================================================
