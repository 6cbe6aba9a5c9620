---------------------------- MODULE Facilitator ----------------------------
(***************************************************************************)
(* The facilitator: POST /verify, POST /settle and POST /sweep of          *)
(* facilitator/src/server.ts over KaspaFacilitator of facilitator.ts.      *)
(*                                                                         *)
(* Node.js runs a handler without interruption between two awaits, so each *)
(* await of a handler is a control point and each action runs from the     *)
(* node's answer to the next await.  Any number of handlers are in flight  *)
(* at once and share nothing but the node: the facilitator keeps no record *)
(* of the payments it is settling.                                         *)
(***************************************************************************)
EXTENDS Wallet

CONSTANTS
    Verifies, Settles, Sweeps,  \* identifiers of the calls to the three routes
    Merchants,      \* owners of the addresses merchants are paid at
    ColdWallet,     \* owner of feeAddress
    Channels,       \* channels already deployed, as parameters at nonce 0
    Funding,        \* Funding[ch]: what was locked in ch
    Float,          \* value of the signing wallet's own coin, 0 for none
    Amounts,        \* prices of the resources, in sompi
    SweepUnit,      \* the 10000n of sweepFees
    MinConf,        \* minConfirmations
    MaxPolls,       \* the 15 attempts of forwardToMerchant
    Mixing,         \* bodies may be put together from several payments
    MaxFailures,    \* bound: failed or lost RPC calls
    MaxCrashes,     \* bound: restarts by systemd
    None            \* no request, no draft

ASSUME FacilitatorAssumption ==
    /\ Channels \subseteq ChannelParams
    /\ \A ch \in Channels : ch.nonce = 0
    /\ Funding \in [Channels -> Nat]
    /\ Amounts \subseteq Nat \ {0}
    /\ Mixing \in BOOLEAN
    /\ {Float, SweepUnit, MinConf, MaxPolls} \subseteq Nat
    /\ {MaxFailures, MaxCrashes} \subseteq Nat
    /\ Settles \cap Verifies = {} /\ Settles \cap Sweeps = {}
    /\ Verifies \cap Sweeps = {}

VARIABLES
    pc,         \* pc[h]: the await at which handler h is suspended
    req,        \* req[r]: the body of request r
    draft,      \* draft[h]: the transaction h has built and is submitting
    waited,     \* waited[r]: DAA score seen since waitForConfirmation began
    polls,      \* polls[r]: lookups of forwardToMerchant that found nothing
    outcome,    \* outcome[h]: the response, "none" before
    failures,   \* RPC failures so far
    crashes     \* restarts so far

handlers == << pc, req, draft, waited, polls, outcome >>
vars == << chain, mempool, handlers, failures, crashes >>

Requests == Verifies \cup Settles
Handlers == Requests \cup Sweeps

\* Control points.  Each name is the await the handler is suspended at.
ConfirmPoints == {"start", "confirm"}
ForwardPoints == {"forwardLookup", "forwardSubmit"}
SweepPoints == {"sweepLookup", "sweepSubmit"}
SubmitPoints == {"submit", "forwardSubmit", "sweepSubmit"}
Awaits == {"verify", "lookup", "submit"} \cup ConfirmPoints
              \cup ForwardPoints \cup SweepPoints
Outcomes == {"none", "valid", "invalid", "success", "refused", "error",
             "swept", "nothing"}

-----------------------------------------------------------------------------
(* Transactions.  Each handler submits at most one of each kind, so the    *)
(* kind and the handler name the transaction id.                           *)

FundTx(ch) ==
    [id |-> << "fund", ch >>, ins |-> {},
     outs |-> << Pay(ChannelAddress(ch), Funding[ch]) >>]

FloatTx ==
    [id |-> << "float", FacilitatorKey >>, ins |-> {},
     outs |-> << Pay(SigningAddress, Float) >>]

SettleTx(r, coin) ==
    [id |-> << "settle", r >>, ins |-> {coin},
     outs |-> FacilitatorOutputs(req[r].params, coin.amount, req[r].required.amount)]

\* The wallet transactions of the facilitator.
HotWalletTxs(id, to, amount) ==
    WalletTxs(id, CoinsAt(SigningAddress), to, amount, SigningAddress)

HotWalletSigs(tx) == WalletSigs(FacilitatorKey, tx)

SettleSigs(r, tx) == {req[r].sig} \cup HotWalletSigs(tx)

SigsOf(h, tx) == IF pc[h] = "submit" THEN SettleSigs(h, tx) ELSE HotWalletSigs(tx)

-----------------------------------------------------------------------------
(* Responses and control.                                                  *)

Goto(h, point) == pc' = [pc EXCEPT ![h] = point]

Respond(h, answer) ==
    /\ Goto(h, "done")
    /\ outcome' = [outcome EXCEPT ![h] = answer]
    /\ draft' = [draft EXCEPT ![h] = None]
    /\ waited' = [waited EXCEPT ![h] = 0]
    /\ polls' = [polls EXCEPT ![h] = 0]
    /\ UNCHANGED req

\* What the handler answers when its request does not verify.
Refusal(r) == IF r \in Verifies THEN "invalid" ELSE "refused"

-----------------------------------------------------------------------------
(* Requests.  A client signs the settle of a coin it has looked up, which  *)
(* may be spent when the payload arrives, for a price.  Output 0 goes to   *)
(* extra.facilitatorSigningAddress or, when the resource server does not   *)
(* announce one, to payTo.  That signature is all a body cannot make up:   *)
(* the accepted terms, the payee among them, the channel's parameters and  *)
(* the outpoint are JSON that nobody signs, and nothing keeps a payload    *)
(* from being presented again, by the same resource server or another one. *)

Terms == [amount : Amounts, payTo : Merchants]

ChannelCoins == { coin \in Created : IsChannelAddress(coin.address) }

SettlePayees == {SigningAddress} \cup { WalletAddress(m) : m \in Merchants }

\* The client's signature for paying price to payee out of coin.
ClientSig(coin, payee, price) ==
    LET params == coin.address.params
    IN  Sign(params.client, coin.outpoint,
             ClientOutputs(params, coin.amount, payee, price))

ClientSigs ==
    { ClientSig(coin, payee, price) :
        coin \in ChannelCoins, payee \in SettlePayees, price \in Amounts }

\* A body names a coin by its outpoint, and its address by the parameters.
Body(named, derived, sig, accepted, required) ==
    [outpoint |-> named.outpoint, params |-> derived.address.params, sig |-> sig,
     accepted |-> accepted, required |-> required]

\* Without Mixing, the outpoint, the parameters and the signature of a body
\* are those of one coin.
OneCoin(named, derived, sig) == derived = named /\ sig.spends = named.outpoint

PaymentBodies ==
    { Body(b.named, b.derived, b.sig, b.accepted, b.required) :
        b \in { c \in [named : ChannelCoins, derived : ChannelCoins, sig : ClientSigs,
                       accepted : Terms, required : Terms] :
                    Mixing \/ OneCoin(c.named, c.derived, c.sig) } }

\* The checks of verify that need no RPC.
TermsMatch(body) ==
    /\ body.accepted.amount = body.required.amount
    /\ body.accepted.payTo = body.required.payTo

\* A body whose terms do not agree is answered at once and not kept.
ReceiveBody(r, body) ==
    /\ pc[r] = "idle"
    /\ \/ /\ TermsMatch(body)
          /\ req' = [req EXCEPT ![r] = body]
          /\ Goto(r, "verify")
          /\ UNCHANGED outcome
       \/ /\ ~ TermsMatch(body)
          /\ Goto(r, "done")
          /\ outcome' = [outcome EXCEPT ![r] = Refusal(r)]
          /\ UNCHANGED req
    /\ UNCHANGED << node, draft, waited, polls, failures, crashes >>

Receive(r) == \E body \in PaymentBodies : ReceiveBody(r, body)

-----------------------------------------------------------------------------
(* POST /verify, and the same code at the head of POST /settle.            *)

\* The coin the payload names, if the node reports it at the channel's address.
CoinOf(r) == { coin \in CoinsAt(ChannelAddress(req[r].params)) :
                   coin.outpoint = req[r].outpoint }

Verifiable(r) ==
    \E coin \in CoinOf(r) : Affordable(coin.amount, req[r].required.amount)

VerifyLookup(r) ==
    /\ pc[r] = "verify"
    /\ \/ /\ ~ Verifiable(r)
          /\ Respond(r, Refusal(r))
       \/ /\ Verifiable(r) /\ r \in Verifies
          /\ Respond(r, "valid")
       \/ /\ Verifiable(r) /\ r \in Settles
          /\ Goto(r, "lookup")
          /\ UNCHANGED << req, draft, waited, polls, outcome >>
    /\ UNCHANGED << node, failures, crashes >>

-----------------------------------------------------------------------------
(* POST /settle.                                                           *)

SettleLookup(r) ==
    /\ pc[r] = "lookup"
    /\ \/ /\ CoinOf(r) = {}
          /\ Respond(r, "refused")
       \/ \E coin \in CoinOf(r) :
             /\ draft' = [draft EXCEPT ![r] = SettleTx(r, coin)]
             /\ Goto(r, "submit")
             /\ UNCHANGED << req, waited, polls, outcome >>
    /\ UNCHANGED << node, failures, crashes >>

\* Mutant: a rejected broadcast is taken for one that is already under way.
SettleSubmit_RejectionIgnored(r) ==
    /\ pc[r] = "submit"
    /\ IF NodeAccepts(draft[r], SigsOf(r, draft[r]))
       THEN Enqueue(draft[r]) ELSE UNCHANGED node
    /\ Goto(r, "start")
    /\ draft' = [draft EXCEPT ![r] = None]
    /\ UNCHANGED << req, waited, polls, outcome, failures, crashes >>

\* Mutant: a rejected broadcast is tried again from the lookup.
SettleSubmit_RetriedForever(r) ==
    /\ pc[r] = "submit"
    /\ IF NodeAccepts(draft[r], SigsOf(r, draft[r]))
       THEN Enqueue(draft[r]) /\ Goto(r, "start")
       ELSE Goto(r, "lookup") /\ UNCHANGED node
    /\ draft' = [draft EXCEPT ![r] = None]
    /\ UNCHANGED << req, waited, polls, outcome, failures, crashes >>

SettleSubmit(r) ==
    /\ pc[r] = "submit"
    /\ \/ /\ NodeAccepts(draft[r], SigsOf(r, draft[r]))
          /\ Enqueue(draft[r])
          /\ Goto(r, "start")
          /\ draft' = [draft EXCEPT ![r] = None]
          /\ UNCHANGED << req, waited, polls, outcome >>
       \/ /\ ~ NodeAccepts(draft[r], SigsOf(r, draft[r]))
          /\ Respond(r, "error")
          /\ UNCHANGED node
    /\ UNCHANGED << failures, crashes >>

\* waitForConfirmation reads the DAA score, then polls it once a second.
StartConfirmation(r) ==
    /\ pc[r] = "start"
    /\ Goto(r, "confirm")
    /\ UNCHANGED << node, req, draft, waited, polls, outcome, failures, crashes >>

Confirmed(r) ==
    /\ pc[r] = "confirm"
    /\ waited[r] = MinConf
    /\ \/ /\ req[r].required.amount > Fee
          /\ Goto(r, "forwardLookup")
          /\ waited' = [waited EXCEPT ![r] = 0]
          /\ UNCHANGED << req, draft, polls, outcome >>
       \/ /\ req[r].required.amount <= Fee
          /\ Respond(r, "success")
    /\ UNCHANGED << node, failures, crashes >>

\* Mutant: the wait does not stop at its target.
DaaAdvance_NoTarget ==
    /\ \E r \in Settles : pc[r] = "confirm" /\ waited[r] < MinConf + 1
    /\ waited' = [r \in Handlers |->
                    IF pc[r] = "confirm" THEN waited[r] + 1 ELSE waited[r]]
    /\ UNCHANGED << node, pc, req, draft, polls, outcome, failures, crashes >>

\* Blocks are added: every wait sees the score advance.
DaaAdvance ==
    /\ \E r \in Settles : pc[r] = "confirm" /\ waited[r] < MinConf
    /\ waited' = [r \in Handlers |->
                    IF pc[r] = "confirm" /\ waited[r] < MinConf
                    THEN waited[r] + 1 ELSE waited[r]]
    /\ UNCHANGED << node, pc, req, draft, polls, outcome, failures, crashes >>

\* forwardToMerchant.  Whatever happens in it, the settle has succeeded.
ForwardLookup(r) ==
    LET entries == CoinsAt(SigningAddress)
        forwards == HotWalletTxs(<< "forward", r >>,
                                 WalletAddress(req[r].required.payTo),
                                 req[r].required.amount)
    IN  /\ pc[r] = "forwardLookup"
        /\ \/ /\ entries = {} /\ polls[r] < MaxPolls
              /\ polls' = [polls EXCEPT ![r] = @ + 1]
              /\ UNCHANGED << pc, req, draft, waited, outcome >>
           \/ /\ entries = {} /\ polls[r] = MaxPolls
              /\ Respond(r, "success")
           \/ /\ entries # {} /\ forwards = {}
              /\ Respond(r, "success")
           \/ \E tx \in forwards :
                 /\ draft' = [draft EXCEPT ![r] = tx]
                 /\ Goto(r, "forwardSubmit")
                 /\ UNCHANGED << req, waited, polls, outcome >>
        /\ UNCHANGED << node, failures, crashes >>

\* Mutant: a failed forward fails the settle.
ForwardSubmit_FailureReported(r) ==
    /\ pc[r] = "forwardSubmit"
    /\ \/ /\ NodeAccepts(draft[r], SigsOf(r, draft[r]))
          /\ Enqueue(draft[r])
          /\ Respond(r, "success")
       \/ /\ ~ NodeAccepts(draft[r], SigsOf(r, draft[r]))
          /\ Respond(r, "error")
          /\ UNCHANGED node
    /\ UNCHANGED << failures, crashes >>

ForwardSubmit(r) ==
    /\ pc[r] = "forwardSubmit"
    /\ IF NodeAccepts(draft[r], SigsOf(r, draft[r]))
       THEN Enqueue(draft[r])
       ELSE UNCHANGED node
    /\ Respond(r, "success")
    /\ UNCHANGED << failures, crashes >>

-----------------------------------------------------------------------------
(* POST /sweep.                                                            *)

SweepCall(s) ==
    /\ pc[s] = "idle"
    /\ Goto(s, "sweepLookup")
    /\ UNCHANGED << node, req, draft, waited, polls, outcome, failures, crashes >>

SweepReserve(entries) == Cardinality(entries) * SweepUnit + SweepUnit

\* Everything at the signing address but the reserve for the miner.  Without a
\* feeAddress ColdWallet is the facilitator's own key.
SweepTxs(s, entries) ==
    UNION { HotWalletTxs(<< "sweep", s >>, WalletAddress(ColdWallet), amount) :
                amount \in { a \in 1 .. Supply :
                                 Total(entries) = a + SweepReserve(entries) } }

SweepLookup(s) ==
    LET entries == CoinsAt(SigningAddress)
    IN  /\ pc[s] = "sweepLookup"
        /\ \/ /\ entries = {} \/ Total(entries) <= SweepReserve(entries)
              /\ Respond(s, "nothing")
           \/ /\ entries # {} /\ Total(entries) > SweepReserve(entries)
              /\ SweepTxs(s, entries) = {}
              /\ Respond(s, "error")
           \/ \E tx \in SweepTxs(s, entries) :
                 /\ draft' = [draft EXCEPT ![s] = tx]
                 /\ Goto(s, "sweepSubmit")
                 /\ UNCHANGED << req, waited, polls, outcome >>
        /\ UNCHANGED << node, failures, crashes >>

SweepSubmit(s) ==
    /\ pc[s] = "sweepSubmit"
    /\ \/ /\ NodeAccepts(draft[s], SigsOf(s, draft[s]))
          /\ Enqueue(draft[s])
          /\ Respond(s, "swept")
       \/ /\ ~ NodeAccepts(draft[s], SigsOf(s, draft[s]))
          /\ Respond(s, "error")
          /\ UNCHANGED node
    /\ UNCHANGED << failures, crashes >>

-----------------------------------------------------------------------------
(* Failures.                                                               *)

\* Mutant: a broadcast whose answer is missing is reported as done.
AnswerToFailure_Optimistic(h) ==
    CASE pc[h] = "verify"                     -> Refusal(h)
      [] pc[h] \in ForwardPoints \cup {"submit"} -> "success"
      [] OTHER                                -> "error"

\* The answer of the handler whose RPC call throws: verify and settle catch
\* everything, settle catches the forward apart, sweep's error is a 500.
AnswerToFailure(h) ==
    CASE pc[h] = "verify"        -> Refusal(h)
      [] pc[h] \in ForwardPoints -> "success"
      [] OTHER                   -> "error"

RpcFails(h) ==
    /\ pc[h] \in Awaits
    /\ failures < MaxFailures
    /\ failures' = failures + 1
    /\ Respond(h, AnswerToFailure(h))
    /\ UNCHANGED << node, crashes >>

\* Mutant: a forward whose answer is missing is tried again.
SubmitAnswerLost_ForwardRetried(h) ==
    /\ pc[h] \in SubmitPoints
    /\ failures < MaxFailures
    /\ NodeAccepts(draft[h], SigsOf(h, draft[h]))
    /\ Enqueue(draft[h])
    /\ failures' = failures + 1
    /\ IF pc[h] = "forwardSubmit"
       THEN /\ Goto(h, "forwardLookup")
            /\ UNCHANGED << req, draft, waited, polls, outcome >>
       ELSE Respond(h, AnswerToFailure(h))
    /\ UNCHANGED crashes

\* The node took the transaction, the answer never came back.
SubmitAnswerLost(h) ==
    /\ pc[h] \in SubmitPoints
    /\ failures < MaxFailures
    /\ NodeAccepts(draft[h], SigsOf(h, draft[h]))
    /\ Enqueue(draft[h])
    /\ failures' = failures + 1
    /\ Respond(h, AnswerToFailure(h))
    /\ UNCHANGED crashes

\* The node takes what the handler is submitting.
Submittable(h) == pc[h] \in SubmitPoints /\ NodeAccepts(draft[h], SigsOf(h, draft[h]))

\* The process dies and systemd starts it again: nothing was persisted.  Of
\* the submits that were under way, any may still have reached the node (one
\* that arrives later is one whose node step commutes with the restart).
Crash ==
    /\ crashes < MaxCrashes
    /\ \E h \in Handlers : pc[h] \in Awaits
    /\ crashes' = crashes + 1
    /\ pc' = [h \in Handlers |-> IF pc[h] \in Awaits THEN "lost" ELSE pc[h]]
    /\ draft' = [h \in Handlers |-> None]
    /\ waited' = [h \in Handlers |-> 0]
    /\ polls' = [h \in Handlers |-> 0]
    /\ \E arrived \in SUBSET { h \in Handlers : Submittable(h) } :
          /\ IsFiniteSet(arrived)
          /\ \A g, h \in arrived : g # h => draft[g].ins \cap draft[h].ins = {}
          /\ mempool' = mempool \cup { draft[h] : h \in arrived }
    /\ UNCHANGED << chain, req, outcome, failures >>

-----------------------------------------------------------------------------

Init ==
    /\ chain = { FundTx(ch) : ch \in Channels }
                  \cup (IF Float > 0 THEN {FloatTx} ELSE {})
    /\ mempool = {}
    /\ pc = [h \in Handlers |-> "idle"]
    /\ req = [r \in Requests |-> None]
    /\ draft = [h \in Handlers |-> None]
    /\ waited = [h \in Handlers |-> 0]
    /\ polls = [h \in Handlers |-> 0]
    /\ outcome = [h \in Handlers |-> "none"]
    /\ failures = 0
    /\ crashes = 0

NodeStep ==
    /\ \E tx \in mempool : Accept(tx)
    /\ UNCHANGED << handlers, failures, crashes >>

SettleStep(r) ==
    \/ SettleLookup(r) \/ SettleSubmit(r) \/ StartConfirmation(r)
    \/ Confirmed(r) \/ ForwardLookup(r) \/ ForwardSubmit(r)

SweepStep(s) == SweepLookup(s) \/ SweepSubmit(s)

\* Every step but the arrival of a request.
Progress ==
    \/ NodeStep
    \/ DaaAdvance
    \/ \E r \in Requests : VerifyLookup(r)
    \/ \E r \in Settles : SettleStep(r)
    \/ \E s \in Sweeps : SweepCall(s) \/ SweepStep(s)
    \/ \E h \in Handlers : RpcFails(h) \/ SubmitAnswerLost(h)
    \/ Crash

Next == Progress \/ \E r \in Requests : Receive(r)

\* The event loop resumes every handler whose await is answered, the node
\* answers every call, and blocks keep coming.  No call need ever arrive.
Fairness ==
    /\ WF_vars(NodeStep)
    /\ WF_vars(DaaAdvance)
    /\ \A r \in Requests : WF_vars(VerifyLookup(r))
    /\ \A r \in Settles : WF_vars(SettleStep(r))
    /\ \A s \in Sweeps : WF_vars(SweepStep(s))

SafetySpec == Init /\ [][Next]_vars

Spec == SafetySpec /\ Fairness

=============================================================================
