------------------------------- MODULE Client -------------------------------
(***************************************************************************)
(* X402Client of client/src/client.ts, with deployContract and             *)
(* buildPartialSettle of the covenant package, which its methods await.    *)
(*                                                                         *)
(* The client keeps one record for the facilitator, in a Map that every    *)
(* method reads and writes between its awaits.  Nothing orders the calls   *)
(* of an application: each await is a control point, and the methods       *)
(* interleave.  A record is an object, so a method that holds one sees     *)
(* what another method changes in it, and keeps it when the Map has a new  *)
(* one.  What the resource server does with a payment is Answered below.   *)
(***************************************************************************)
EXTENDS Wallet

CONSTANTS
    Fetches, Opens, Refreshes,  \* calls of fetch, openChannel, refreshChannel
    Self,           \* the key of this client
    Merchants,      \* payees a 402 may name
    Amounts,        \* prices a 402 may name
    DefaultFunding, \* defaultFunding: what openChannel locks
    Savings,        \* the client's wallet coin at the start
    MaxFailures,    \* bound: RPC and HTTP failures
    None            \* no record, no transaction

ASSUME ClientAssumption ==
    /\ Self \in Clients
    /\ Amounts \subseteq Nat \ {0}
    /\ {DefaultFunding, Savings, MaxFailures} \subseteq Nat
    /\ Fetches \cap Opens = {} /\ Fetches \cap Refreshes = {}
    /\ Opens \cap Refreshes = {}
    /\ None \notin Fetches \cup Opens

VARIABLES
    record,     \* record[c]: the ChannelInfo that call c created
    current,    \* whose record the Map holds
    pc,         \* pc[c]: the await at which call c is suspended
    held,       \* held[c]: the record call c works on
    terms,      \* terms[f]: what the 402 of f asks for
    ask,        \* ask[c]: what c read of its record before it awaited
    draft,      \* draft[c]: the deployment that c is submitting
    signed,     \* signed[f]: the client's signature
    payload,    \* payload[f]: the payment f has sent
    answer,     \* answer[c]: what the call returned, "none" before
    failures,   \* failures so far
    disciplined \* the application has used the client one call at a time

calls == << pc, held, terms, ask, draft, signed, payload, answer >>
vars == << node, record, current, calls, failures, disciplined >>

Openers == Fetches \cup Opens
Calls == Openers \cup Refreshes

Awaits == {"deployLookup", "deploySubmit", "deployed", "payLookup", "signed",
           "sent", "connect", "refresh"}

-----------------------------------------------------------------------------
(* Transactions.                                                           *)

SavingsTx ==
    [id |-> << "savings", Self >>, ins |-> {},
     outs |-> << Pay(WalletAddress(Self), Savings) >>]

ParamsAt(timeout, nonce) == [client |-> Self, timeout |-> timeout, nonce |-> nonce]

\* The timeout is the clock's time and a lifetime: two channels may share it.
Deployments(c, entries) ==
    UNION { WalletTxs(<< "deploy", c >>, entries, ChannelAddress(ParamsAt(timeout, 0)),
                      DefaultFunding, WalletAddress(Self)) : timeout \in Timeouts }

\* The coin an ask or a payload names, if the node reports it.
CoinNamed(params, outpoint) ==
    { coin \in CoinsAt(ChannelAddress(params)) : coin.outpoint = outpoint }

\* The settle that the facilitator builds from the payment of f.
SettleTx(f, coin) ==
    [id |-> << "settle", f >>, ins |-> {coin},
     outs |-> FacilitatorOutputs(payload[f].params, coin.amount, payload[f].amount)]

-----------------------------------------------------------------------------
(* Control.                                                                *)

InFlight == { c \in Calls : pc[c] \in Awaits }

Change(tx) == { coin \in OutputsOf(tx) : IsChannelAddress(coin.address) }

\* The changes of paid fetches that updateChannelAfterSettle was not told of.
Owed ==
    UNION { Change(tx) : tx \in { t \in Known :
        \E f \in Fetches : t.id = << "settle", f >> /\ answer[f] = "paid" } }

Goto(c, point) == pc' = [pc EXCEPT ![c] = point]

Return(c, result) ==
    /\ Goto(c, "done")
    /\ answer' = [answer EXCEPT ![c] = result]
    /\ held' = [held EXCEPT ![c] = None]
    /\ terms' = [terms EXCEPT ![c] = None]
    /\ ask' = [ask EXCEPT ![c] = None]
    /\ draft' = [draft EXCEPT ![c] = None]
    /\ payload' = [payload EXCEPT ![c] = None]
    /\ UNCHANGED signed

\* The application waits for a call to end, reports the change of a paid
\* settle before it goes on, lets no fetch use a coin that is spent (of a
\* payment without change nothing can be reported), opens no second channel
\* and refreshes no coin that is not yet accepted.  Nothing in the client
\* asks for it.
Orderly(c) ==
    /\ InFlight = {} /\ Owed = {}
    /\ c \in Fetches /\ current # None =>
          \A coin \in Consumed \cup Pending : coin.outpoint # record[current].outpoint
    /\ c \in Opens => current = None
    /\ c \in Refreshes /\ current # None =>
          \E coin \in Created : coin.outpoint = record[current].outpoint

Begin(c) ==
    /\ pc[c] = "idle"
    /\ disciplined' = (disciplined /\ Orderly(c))

-----------------------------------------------------------------------------
(* buildPayment: the part that follows the choice of the record.           *)

\* Mutant: a channel that does not afford the price is replaced by a new one.
PayFrom_Reopens(f, k, info, offer) ==
    /\ terms' = [terms EXCEPT ![f] = offer]
    /\ \/ /\ ~ Affordable(info.balance, offer.amount)
          /\ Goto(f, "deployLookup")
          /\ UNCHANGED << held, ask, draft, signed, payload, answer >>
       \/ /\ Affordable(info.balance, offer.amount)
          /\ Goto(f, "payLookup")
          /\ held' = [held EXCEPT ![f] = k]
          /\ ask' = [ask EXCEPT ![f] = info]
          /\ draft' = [draft EXCEPT ![f] = None]
          /\ UNCHANGED << signed, payload, answer >>

\* Runs without an await from the record to the lookup of buildPartialSettle,
\* whose arguments are read here.
PayFrom(f, k, info, offer) ==
    \/ /\ ~ Affordable(info.balance, offer.amount)
       /\ Return(f, "insufficient balance")
    \/ /\ Affordable(info.balance, offer.amount)
       /\ Goto(f, "payLookup")
       /\ terms' = [terms EXCEPT ![f] = offer]
       /\ held' = [held EXCEPT ![f] = k]
       /\ ask' = [ask EXCEPT ![f] = info]
       /\ draft' = [draft EXCEPT ![f] = None]
       /\ UNCHANGED << signed, payload, answer >>

\* What the client makes of a 402: the price, and output 0 of the settle,
\* which goes to the payee when the 402 announces no signing address.
Offers ==
    [amount : Amounts,
     output0 : {SigningAddress} \cup { WalletAddress(m) : m \in Merchants }]

\* The 402 has arrived.
Fetch(f) ==
    /\ Begin(f)
    /\ \E offer \in Offers :
          \/ /\ current = None
             /\ Goto(f, "deployLookup")
             /\ terms' = [terms EXCEPT ![f] = offer]
             /\ UNCHANGED << held, ask, draft, signed, payload, answer >>
          \/ /\ current # None
             /\ PayFrom(f, current, record[current], offer)
    /\ UNCHANGED << node, record, current, failures >>

\* buildPartialSettle finds the coin and signs the settle that spends it.
PayLookup(f) ==
    /\ pc[f] = "payLookup"
    /\ \/ /\ CoinNamed(ask[f].params, ask[f].outpoint) = {}
          /\ Return(f, "not found")
       \/ /\ CoinNamed(ask[f].params, ask[f].outpoint) # {}
          /\ signed' = [signed EXCEPT ![f] =
                Sign(Self, ask[f].outpoint,
                     ClientOutputs(ask[f].params, ask[f].balance,
                                   terms[f].output0, terms[f].amount))]
          /\ Goto(f, "signed")
          /\ UNCHANGED << held, terms, ask, draft, payload, answer >>
    /\ UNCHANGED << node, record, current, failures, disciplined >>

\* Disconnected: outpoint, nonce and timeout of the payload are read from the
\* record now, after the awaits of buildPartialSettle.
Send(f) ==
    LET info == record[held[f]]
    IN  /\ pc[f] = "signed"
        /\ payload' = [payload EXCEPT ![f] =
              [outpoint |-> info.outpoint, params |-> info.params,
               sig |-> signed[f], amount |-> terms[f].amount]]
        /\ Goto(f, "sent")
        /\ UNCHANGED << node, record, current, held, terms, ask, draft, signed,
                        answer, failures, disciplined >>

-----------------------------------------------------------------------------
(* openChannel, by itself and inside fetch.                                *)

Open(c) ==
    /\ Begin(c)
    /\ Goto(c, "deployLookup")
    /\ UNCHANGED << node, record, current, held, terms, ask, draft, signed,
                    payload, answer, failures >>

DeployLookup(c) ==
    LET entries == CoinsAt(WalletAddress(Self))
    IN  /\ pc[c] = "deployLookup"
        /\ \/ /\ Deployments(c, entries) = {}
              /\ Return(c, "no funds")
           \/ \E tx \in Deployments(c, entries) :
                 /\ draft' = [draft EXCEPT ![c] = tx]
                 /\ Goto(c, "deploySubmit")
                 /\ UNCHANGED << held, terms, ask, signed, payload, answer >>
        /\ UNCHANGED << node, record, current, failures, disciplined >>

DeploySubmit(c) ==
    /\ pc[c] = "deploySubmit"
    /\ \/ /\ NodeAccepts(draft[c], WalletSigs(Self, draft[c]))
          /\ Enqueue(draft[c])
          /\ Goto(c, "deployed")
          /\ UNCHANGED << held, terms, ask, draft, signed, payload, answer >>
       \/ /\ ~ NodeAccepts(draft[c], WalletSigs(Self, draft[c]))
          /\ Return(c, "rejected")
          /\ UNCHANGED node
    /\ UNCHANGED << record, current, failures, disciplined >>

\* Disconnected: the record goes into the Map, in the place of any other.
Deployed(c) ==
    LET coin == Coin(draft[c], 1)
        info == [outpoint |-> coin.outpoint, params |-> coin.address.params,
                 balance |-> DefaultFunding]
    IN  /\ pc[c] = "deployed"
        /\ record' = [record EXCEPT ![c] = info]
        /\ current' = c
        /\ \/ /\ c \in Opens
              /\ Return(c, "opened")
           \/ /\ c \in Fetches
              /\ PayFrom(c, c, info, terms[c])
        /\ UNCHANGED << node, failures, disciplined >>

-----------------------------------------------------------------------------
(* refreshChannel and updateChannelAfterSettle.                            *)

\* The record is looked up in the Map before the connection is awaited.
Refresh(c) ==
    /\ Begin(c)
    /\ \/ /\ current = None
          /\ Return(c, "no channel")
       \/ /\ current # None
          /\ Goto(c, "connect")
          /\ held' = [held EXCEPT ![c] = current]
          /\ UNCHANGED << terms, ask, draft, signed, payload, answer >>
    /\ UNCHANGED << node, record, current, failures >>

\* Connected: the address is read from it now, the outpoint after the lookup.
RefreshConnected(c) ==
    /\ pc[c] = "connect"
    /\ ask' = [ask EXCEPT ![c] = record[held[c]]]
    /\ Goto(c, "refresh")
    /\ UNCHANGED << node, record, current, held, terms, draft, signed, payload,
                    answer, failures, disciplined >>

\* Mutant: the record itself is cleared.
RefreshLookup_RecordCleared(c) ==
    LET found == CoinNamed(ask[c].params, record[held[c]].outpoint)
    IN  /\ pc[c] = "refresh"
        /\ \/ /\ found = {}
              /\ record' = [record EXCEPT ![held[c]] = None]
              /\ current' = None
              /\ Return(c, "dropped")
           \/ \E coin \in found :
                 /\ record' = [record EXCEPT ![held[c]].balance = coin.amount]
                 /\ Return(c, "refreshed")
                 /\ UNCHANGED current
        /\ UNCHANGED << node, failures, disciplined >>

\* The Map is keyed by facilitator: what is deleted is the current record.
RefreshLookup(c) ==
    LET found == CoinNamed(ask[c].params, record[held[c]].outpoint)
    IN  /\ pc[c] = "refresh"
        /\ \/ /\ found = {}
              /\ current' = None
              /\ Return(c, "dropped")
              /\ UNCHANGED record
           \/ \E coin \in found :
                 /\ record' = [record EXCEPT ![held[c]].balance = coin.amount]
                 /\ Return(c, "refreshed")
                 /\ UNCHANGED current
        /\ UNCHANGED << node, failures, disciplined >>

\* Mutant: the nonce of the record is left as it was.
Update_NonceKept(f) ==
    /\ answer[f] = "paid"
    /\ \E tx \in Known : \E coin \in Change(tx) :
          /\ tx.id = << "settle", f >>
          /\ record' = IF current = None THEN record ELSE
                [record EXCEPT ![current].outpoint = coin.outpoint,
                               ![current].balance = coin.amount]
    /\ answer' = [answer EXCEPT ![f] = "updated"]
    /\ disciplined' = (disciplined /\ InFlight = {})
    /\ UNCHANGED << node, current, pc, held, terms, ask, draft, signed, payload,
                    failures >>

\* The application reports the change of a paid settle.  It names the
\* facilitator, so it is the current record that moves on.
Update(f) ==
    /\ answer[f] = "paid"
    /\ \E tx \in Known : \E coin \in Change(tx) :
          /\ tx.id = << "settle", f >>
          /\ record' = IF current = None THEN record ELSE
                [record EXCEPT ![current].outpoint = coin.outpoint,
                               ![current].params = NextParams(@),
                               ![current].balance = coin.amount]
    /\ answer' = [answer EXCEPT ![f] = "updated"]
    /\ disciplined' = (disciplined /\ InFlight = {})
    /\ UNCHANGED << node, current, pc, held, terms, ask, draft, signed, payload,
                    failures >>

-----------------------------------------------------------------------------
(* The server that f pays: the facilitator settles what it can settle.     *)

Settleable(f, coin) ==
    /\ coin \in CoinNamed(payload[f].params, payload[f].outpoint)
    /\ Affordable(coin.amount, payload[f].amount)
    /\ NodeAccepts(SettleTx(f, coin),
                   {payload[f].sig} \cup WalletSigs(FacilitatorKey, SettleTx(f, coin)))

Paid(f) ==
    /\ \E coin \in Created : Settleable(f, coin) /\ Enqueue(SettleTx(f, coin))
    /\ Return(f, "paid")

Unpaid(f) ==
    /\ \A coin \in Created : ~ Settleable(f, coin)
    /\ Return(f, "unpaid")
    /\ UNCHANGED node

Answered(f) ==
    /\ pc[f] = "sent"
    /\ Paid(f) \/ Unpaid(f)
    /\ UNCHANGED << record, current, failures, disciplined >>

-----------------------------------------------------------------------------
(* Failures.  disconnect's are caught, every other one makes the call      *)
(* throw; a broadcast or a settle may have been made all the same.         *)

Fails(c) ==
    /\ pc[c] \in Awaits \ {"deployed", "signed"}
    /\ failures < MaxFailures
    /\ failures' = failures + 1
    /\ \/ UNCHANGED node
       \/ /\ pc[c] = "deploySubmit"
          /\ NodeAccepts(draft[c], WalletSigs(Self, draft[c]))
          /\ Enqueue(draft[c])
       \/ /\ pc[c] = "sent"
          /\ \E coin \in Created : Settleable(c, coin) /\ Enqueue(SettleTx(c, coin))
    /\ Return(c, "failed")
    /\ UNCHANGED << record, current, disciplined >>

-----------------------------------------------------------------------------

Init ==
    /\ chain = {SavingsTx}
    /\ mempool = {}
    /\ record = [c \in Openers |-> None]
    /\ current = None
    /\ pc = [c \in Calls |-> "idle"]
    /\ held = [c \in Calls |-> None]
    /\ terms = [c \in Calls |-> None]
    /\ ask = [c \in Calls |-> None]
    /\ draft = [c \in Calls |-> None]
    /\ signed = [c \in Calls |-> None]
    /\ payload = [c \in Calls |-> None]
    /\ answer = [c \in Calls |-> "none"]
    /\ failures = 0
    /\ disciplined = TRUE

NodeStep ==
    /\ \E tx \in mempool : Accept(tx)
    /\ UNCHANGED << record, current, calls, failures, disciplined >>

Step(c) ==
    \/ c \in Openers /\ (DeployLookup(c) \/ DeploySubmit(c) \/ Deployed(c))
    \/ c \in Fetches /\ (PayLookup(c) \/ Send(c) \/ Answered(c))
    \/ c \in Refreshes /\ (RefreshConnected(c) \/ RefreshLookup(c))

Next ==
    \/ NodeStep
    \/ \E f \in Fetches : Fetch(f) \/ Update(f)
    \/ \E c \in Opens : Open(c)
    \/ \E c \in Refreshes : Refresh(c)
    \/ \E c \in Calls : Step(c) \/ Fails(c)

Spec == Init /\ [][Next]_vars

=============================================================================
