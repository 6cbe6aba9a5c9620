------------------------------ MODULE MCClient ------------------------------
(* One client with money for two channels.  A channel of 9 pays 3 twice and *)
(* closes on the second payment, whose remainder does not exceed Fee.        *)
EXTENDS ClientProperties, TLC

CONSTANTS alice, shop

MCClients == {alice}
MCTimeouts == {5, 6}

Symmetry == Permutations(Fetches)

=============================================================================
