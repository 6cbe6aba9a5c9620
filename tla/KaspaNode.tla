----------------------------- MODULE KaspaNode -----------------------------
(***************************************************************************)
(* The Kaspa node as the programs of this repository use it through the    *)
(* kaspa-wasm RPC client: getUtxosByAddresses, submitTransaction and       *)
(* getBlockDagInfo.  External code: modelled from its callers.             *)
(*                                                                         *)
(* The unspent coins are derived from the accepted transactions, so there  *)
(* is one source of truth.  Two facts about the node matter to the callers *)
(* and are easily forgotten:                                               *)
(*   - a lookup reports the accepted state only: a coin spent by a         *)
(*     transaction that still sits in the mempool is still reported, and   *)
(*     the outputs of that transaction are not;                            *)
(*   - the DAA score advances whether or not a given transaction has been  *)
(*     accepted.                                                           *)
(***************************************************************************)
EXTENDS Covenant

VARIABLES
    chain,      \* accepted transactions
    mempool     \* transactions taken by the node and not yet accepted

node == << chain, mempool >>

-----------------------------------------------------------------------------
(* A transaction is [id, ins, outs]: ins is the set of coins it spends,    *)
(* outs a sequence of outputs.  A coin is an output with its outpoint.     *)

Coin(tx, vout) ==
    [outpoint |-> << tx.id, vout >>,
     address |-> tx.outs[vout].address,
     amount |-> tx.outs[vout].amount]

OutputsOf(tx) == { Coin(tx, vout) : vout \in DOMAIN tx.outs }

Created == UNION { OutputsOf(tx) : tx \in chain }
Consumed == UNION { tx.ins : tx \in chain }
Pending == UNION { tx.ins : tx \in mempool }

Utxo == Created \ Consumed

\* getUtxosByAddresses
CoinsAt(address) == { coin \in Utxo : coin.address = address }

Known == chain \cup mempool

-----------------------------------------------------------------------------
(* submitTransaction with allowOrphan false.                               *)

\* The script of one spent coin.  A wallet coin needs its owner's signature;
\* the signer of every wallet transaction here is the owner.
Unlocks(coin, tx, sigs) ==
    IF IsChannelAddress(coin.address)
    THEN SettleAccepts(coin.address.params, coin, tx.outs, sigs)
    ELSE Sign(coin.address.owner, coin.outpoint, tx.outs) \in sigs

NodeAccepts(tx, sigs) ==
    /\ tx.ins \subseteq Utxo
    /\ tx.ins \cap Pending = {}
    /\ \A coin \in tx.ins : Unlocks(coin, tx, sigs)

Enqueue(tx) ==
    /\ mempool' = mempool \cup {tx}
    /\ UNCHANGED chain

\* A block accepts a transaction of the mempool.
Accept(tx) ==
    /\ tx \in mempool
    /\ mempool' = mempool \ {tx}
    /\ chain' = chain \cup {tx}

=============================================================================
