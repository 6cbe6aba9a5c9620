-------------------------- MODULE MCResourceServer --------------------------
(* Two gated requests, one to a paywall and one to the example API, over    *)
(* one channel.  Their routes may cost the same or not and pay one merchant  *)
(* or two, so a payment may or may not pass at the other server, with the    *)
(* terms it was made for or with others filled in.                           *)
EXTENDS ResourceServerProperties, TLC

CONSTANTS alice, shop, cafe, paywall, api, g1, g2, v1, v2, r1, r2

MCClients == {alice}
MCTimeouts == {5}
AliceChannel == [client |-> alice, timeout |-> 5, nonce |-> 0]
MCChannels == {AliceChannel}
MCFunding == [ch \in MCChannels |-> 9]
MCKind == (paywall :> "paywall") @@ (api :> "example")
MCServerOf == (g1 :> paywall) @@ (g2 :> api)
MCVerifyCall == (g1 :> v1) @@ (g2 :> v2)
MCSettleCall == (g1 :> r1) @@ (g2 :> r2)

Symmetry == Permutations({shop, cafe})

=============================================================================
