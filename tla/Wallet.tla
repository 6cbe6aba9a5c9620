------------------------------- MODULE Wallet -------------------------------
(***************************************************************************)
(* Ordinary wallet transactions, as kaspa-wasm's createTransactions builds *)
(* them for forwardToMerchant and sweepFees of the facilitator and for     *)
(* deployContract of the covenant package.  Its caller looks up the coins  *)
(* of an address, asks for one output and names the address of the change. *)
(***************************************************************************)
EXTENDS KaspaNode, FiniteSets, FiniteSetsExt

CONSTANTS
    NetFee,     \* network fee of one wallet transaction
    Supply      \* no amount exceeds the coin supply

ASSUME WalletAssumption == {NetFee, Supply} \subseteq Nat

-----------------------------------------------------------------------------

Total(coins) == MapThenSumSet(LAMBDA coin : coin.amount, coins)

Covers(coins, amount) == Total(coins) >= amount + NetFee

\* The library takes entries in turn until they cover the amount and the
\* network fee: some coin of the choice is needed, and what is over is change.
Selections(entries, amount) ==
    { choice \in (SUBSET entries) \X (0 .. Supply) :
        LET coins == choice[1]
            change == choice[2]
        IN  /\ Total(coins) = amount + NetFee + change
            /\ \E last \in coins : ~ Covers(coins \ {last}, amount) }

WalletTx(id, coins, payment, changeAddress, change) ==
    [id |-> id, ins |-> coins,
     outs |-> IF change > 0
              THEN << payment, Pay(changeAddress, change) >>
              ELSE << payment >>]

\* None when the entries do not cover the amount: createTransactions throws.
WalletTxs(id, entries, to, amount, changeAddress) ==
    { WalletTx(id, choice[1], Pay(to, amount), changeAddress, choice[2]) :
        choice \in Selections(entries, amount) }

\* Every input is signed with the one key the wallet holds.
WalletSigs(key, tx) ==
    { Sign(key, coin.outpoint, tx.outs) : coin \in tx.ins }

=============================================================================
