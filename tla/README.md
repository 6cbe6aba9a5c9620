# x402-KAS in TLA+

x402-KAS lets an HTTP client pay for a resource in KAS. The client locks money in
a covenant on the Kaspa chain (a *channel*), signs one settlement of it per
request, and a *facilitator* co-signs and broadcasts the settlement for the
resource server. This directory holds TLA+ models of that code, the TLC runs that
check them on small instances, and TLAPS proofs that hold for every instance.

    tlc -workers 2 -config MCFacilitatorReplay.cfg MCFacilitator.tla
    tlapm FacilitatorProofs.tla

Contents: 1 the system · 2 modules and code · 3 the runs · 4 the proofs ·
5 disagreements with the documents · 6 abstractions and bounds · 7 not modelled ·
8 plan.

## 1. The system

    app ── fetch ──> X402Client ── header ───> paywall, example ─── HTTP ──> facilitator
                        │                                                            │
                        └──────────── RPC ────────> Kaspa node <─────── RPC ─────────┘
                                                 (coins locked by the covenant)

| Component | State it keeps | Operations | What is hard | What makes it correct |
|---|---|---|---|---|
| **Covenant v4** `x402-channel-v4-locked.sil` | the coin's script: client key, timeout, nonce | `settle(clientSig, facilitatorSig)` | the boundary "remainder > fee" | accepts exactly the settlements its two signers computed; carries the remainder to nonce + 1 |
| **Channel library** `covenant/src/channel.ts, helpers.ts, deploy.ts` | none | `deployChannel`, `buildPartialSettle`, `getChannelAddress`, `refundChannel`, transaction helpers | the outputs are computed three times: client, facilitator, contract | the signature covers the transaction that is broadcast |
| **Template patcher** `covenant/src/template-patcher.ts` | template, descriptor (both constant) | `extractPatchDescriptor`, `applyPatch`, `encodeScriptInt`, `encodeFixedInt` | placeholders that occur in other data, encodings that change length | a patched script is what the compiler would have produced |
| **Facilitator** `facilitator/src/facilitator.ts` | an RPC client; **no record of payments** | `verify`, `settle`, `forwardToMerchant`, `sweepFees`, `waitForConfirmation` | concurrent handlers around awaits, replays, lost answers, restarts, one wallet for all merchants | one payment buys one success; a success is paid; nobody is paid twice |
| **Facilitator server** `facilitator/src/server.ts`, `deploy/facilitator.service` | none | `POST /verify /settle /sweep`, `GET /supported /health`, shutdown | restart while a settle is in flight; a stop does not wait for a handler whose caller is gone | every call is answered; a stop leaves no caller waiting |
| **Client SDK** `client/src/client.ts` | map facilitator key → channel record, one object shared by all calls | `fetch`, `buildPayment`, `openChannel`, `refreshChannel`, `updateChannelAfterSettle`, `refund` | concurrent fetches share a record; reads after awaits | the record names the channel's coin; what is signed is what is sent; locked money is not forgotten |
| **Resource server** `server/src/middleware.ts` | none | `processPayment`, the paywall, `HttpFacilitatorClient` | a payload presented twice or to two servers; the answer of a settle lost after the money moved | served only if paid, once; if paid and nothing fails, served |
| **Example API** `examples/paid-api/server.ts` | the signing address, learnt after start | its handler, start-up request to `/health` | a path without `try`: a broken call ends the process | every request is answered or dropped with its process |
| **RPC connection** `getRpc`, `connect`, `close` | one shared `rpc` | connect, disconnect at shutdown | published before it is connected; a stop while handlers run | one connection per process; a stop closes it when no caller waits any more |
| **Kaspa node** (external) | accepted transactions, mempool | lookup, submit, acceptance, DAA score | lookups ignore the mempool | no double spend |

Interactions. Client and resource server exchange HTTP headers. The resource
server calls the facilitator over HTTP and may call again. Client and facilitator
share no memory: they meet only in the coins they look up at the node. Handlers of
the facilitator interleave at every `await` and also share nothing but the node.
Every hazard found in the code is listed with its line in `PROJECT.json`, with the
properties that cover it, or the reason why none does.

## 2. Modules and code

| Module | Models |
|---|---|
| `Covenant` | parameters, addresses and signatures; the outputs computed by client (`ClientOutputs`), facilitator (`FacilitatorOutputs`) and contract (`SettleAccepts`); the balance test (`Affordable`) |
| `PaymentChannel` | the **abstract specification**: what a channel promises, as balance, nonce and amount paid, with one action `Settle` |
| `PaymentChannelProofs` | its theorems |
| `KaspaNode` | external: `chain` and `mempool`, lookups that see the chain only, `NodeAccepts`, `Accept` |
| `Wallet` | external: wallet transactions as `createTransactions` builds them, for forwards, sweeps and deployments |
| `Facilitator` | `verify`, `settle`, `sweep` as concurrent handlers over the node, with failures and restarts |
| `FacilitatorProperties` | its types, safety, inductive invariant, refinement mapping and liveness |
| `FacilitatorProofs` | its theorems about payments |
| `SumProofs` | lemmas: sums over finite sets of coins and of transactions |
| `FacilitatorMoneyProofs` | the facilitator's theorems about money, and its refinement of `PaymentChannel` |
| `FacilitatorProcess` | the process around the handlers: the shared RPC connection, shutdown, restart; its properties |
| `FacilitatorProcessProofs` | its theorems |
| `ResourceServer` | the **composition**: paywalls and example APIs calling one `Facilitator` |
| `ResourceServerProperties` | served and paid, one response per payment, liveness end to end |
| `ResourceServerProofs` | its theorems, the composition's refinement of the facilitator among them |
| `Client` | `X402Client` and the deployment of channels, over the node |
| `ClientProperties` | what its records say about its money, and the inductive invariants behind that |
| `ClientProofs` | its theorems |
| `TemplatePatcher` | the patcher, byte by byte |
| `TemplatePatcherProofs` | its theorems |
| `MC...` | the instances TLC checks |

`ResourceServer` EXTENDS `FacilitatorProperties` EXTENDS `Facilitator`; `Facilitator` and
`Client` EXTEND `Wallet` EXTENDS `KaspaNode` EXTENDS `Covenant`. `PaymentChannel` EXTENDS
`Covenant`, and `FacilitatorProperties` INSTANCEs it under a refinement mapping.

**Facilitator, code to model.** Node.js runs a handler without interruption between
two awaits. Hence `pc[h]` names the await handler `h` is suspended at, and an action
is what runs from the answer of that await to the next one:

| Action | Code (`facilitator.ts`) |
|---|---|
| `Receive` | the request arrives; the checks of `verify` before its first await |
| `VerifyLookup` | `verify` from `getUtxosByAddresses` to its answer, or to the second lookup of `settle` |
| `SettleLookup` | the second lookup of `settle`, outputs, transaction, signatures, up to `submitTransaction` |
| `SettleSubmit` | the node's decision on the broadcast |
| `StartConfirmation`, `DaaAdvance`, `Confirmed` | `waitForConfirmation`: first score, polling, target reached |
| `ForwardLookup`, `ForwardSubmit` | `forwardToMerchant`, and the answer of `settle` whatever happens in it |
| `SweepCall`, `SweepLookup`, `SweepSubmit` | `POST /sweep` and `sweepFees` |
| `RpcFails` | any RPC call that throws, with the answer its `catch` gives |
| `SubmitAnswerLost` | the node took a transaction and its answer never came |
| `Crash` | the process dies and systemd restarts it; of the submits under way, any may still arrive |
| `NodeStep` | the node accepts a mempool transaction |

A request is a record: an outpoint, the parameters of a channel, a client's signature
(over outpoint and outputs), the terms said to be accepted and the terms the resource
server requires. Only the signature is something a body cannot make up; all the rest is
JSON that nobody signs. `PaymentBodies` therefore joins any signature a client may have
made (`ClientSigs`: for any channel coin there has been, any price, paid to the signing
address or to a merchant) to any accepted and any required terms, and with `Mixing` also
to the outpoint and the parameters of other coins: a payload whose outpoint or nonce has
gone stale (`client.ts:222`), one with another payee filled in, a retry, a header
presented twice. `Receive` takes any of them.

**ResourceServer, code to model.** `at[g]` names the await of the handler of request
`g`; `VerifyCall[g]` and `SettleCall[g]` are the two calls of `Facilitator` it may
make, and `Deliver` is their `ReceiveBody`. Nothing else of the facilitator changes:
calls that belong to no gated request still arrive at any time.

| Action | Code (`middleware.ts`, `examples/paid-api/server.ts`) |
|---|---|
| `Offer` | no header the server reads: 402 with `buildPaymentRequired` |
| `BadHeader` | a header it cannot parse: 400 |
| `Present` | a payment it can parse; the handler calls `POST /verify` |
| `Deliver` | the call arrives at the facilitator |
| `Verified`, `Settled` | the two steps of `processPayment`, and the response |
| `CallBroken` | the facilitator restarted under the call: `fetch` throws |
| `CallLost` | the connection fails before, during or after the call; the facilitator goes on |
| `Throw` | paywall: 500; example, raw JSON: 400; example, base64: unhandled rejection, `Die` |
| `LearnSigningAddress` | the example's start-up request to `/health` is answered |

A payment carries a signature made for an offer of *some* server (`OfferSigs`), so the
client may present to one server what it signed for another, and says that it accepted
any terms at all (`Payments`). The requirements are the server's own.

**Client, code to model.** `record` is the heap of `ChannelInfo` objects, `current`
what the Map holds: a call that awaited keeps its object (`held`) while another may
change it or replace it. `ask` is what a call read before its await.

| Action | Code (`client.ts`, `deploy.ts`, `channel.ts`) |
|---|---|
| `Fetch` | the 402 has arrived; `buildPayment` up to its first await |
| `Open`, `DeployLookup`, `DeploySubmit`, `Deployed` | `openChannel` with `deployContract`, alone or inside `fetch` |
| `PayFrom` | balance test and arguments, from the record to the lookup |
| `PayLookup` | lookup and signature of `buildPartialSettle` |
| `Send` | the payload, read from the record after the awaits; the second request |
| `Answered` | external: the facilitator settles what it can settle, and `fetch` returns |
| `Refresh`, `RefreshConnected`, `RefreshLookup` | `refreshChannel` up to the connect, then the address it asks for, then what it makes of the coins |
| `Update` | `updateChannelAfterSettle`, told the change of a paid fetch |
| `Fails` | any await that throws; a broadcast or a settle may have been made |

The SDK leaves the order of calls to the application. `disciplined` is a history
variable that stays TRUE while the application does what `Orderly` says: one call at a
time, every paid settlement reported before the next call, no fetch with a record
whose coin is spent, no second channel, no refresh before the deployment is accepted.
It is the premise of three of the client's properties; each of its clauses is there
because without it TLC finds the property violated, so `Orderly` is also a list of what
the SDK does not protect against. It is no guard: undisciplined behaviours are all
explored, and `SettlesAreSigned` holds in them.

**FacilitatorProcess, code to model.** `rpc` is `this.rpc`, a client named by the
handler that created it, `link` its connection. `Receive` and `BodyRead` are the two ends
of `readBody`. A request is `MaxCalls` RPC calls, each through `getRpc`; `Connected`,
`ConnectFails`, `Called` and `CallFails` are the answers. A caller may close its connection
at any time (`CallerDrops`), and its handler goes on. `Signal`, `Drained`, `Disconnected`,
`TimerFires` are `shutdown` of `server.ts`, step by step; the callback of `server.close`
waits for the connections, hence for the callers that are still there (`Waiting`), and not
for the handlers. `Exit` ends the process and what it holds, `Restart` is systemd.
`Facilitator` sees all this as `RpcFails` and `Crash`.

**TemplatePatcher.** `Init` loads a template with its placeholder arguments and
extracts the descriptor (`server.ts` start-up), `PatchChannelContract` patches
arbitrary channel arguments. The compiler is external: `Compile` lays out the fields
of the contract, then the parameters used in code behind their pushes, then other
opcodes, which is the shape of the compiled v4 contract (timeout and nonce
initialise fields, 8 bytes each, and the client key follows). `Unambiguous` says
that each placeholder occurs once, which was verified of
`contracts/compiled/x402-channel-v4-locked.json` with the arguments of
`x402-channel-v4-locked-ctor.json`: offsets 1, 10 and 21 of 190 bytes. `Occurrences` is
what the search finds and `FindAllOccurrences` puts it in the order in which the loop
meets it; `Power` are the powers of the byte size, which the code reaches by dividing.

## 3. The runs

Passing runs:

| Run | Question | Instance |
|---|---|---|
| `covenant` | Do client, facilitator and contract agree on test and outputs at every point of a channel's life, and are only the announced fees lost? | two channels of 20 and 7, fee 2, every payment amount |
| `patcher` | Is a patched script the compiled one, is it always produced, and are its parameters readable? | bytes of 2 bits, fields of 2 bytes, all four assignments of parameters to fields or code, keys and code that repeat placeholder bytes |
| `replay` | Can concurrency, repetition, lost answers, a restart or a payload put together from several payments take two successes out of one coin, or move a channel otherwise than `PaymentChannel` allows? | three settles of one channel of 10, price 2, `Mixing`, two failures, one restart |
| `funds` | Has every success paid its price, does a channel coin leave only as its client signed, and is any merchant overpaid, whatever terms a body says were accepted? | two settles and a sweep, two merchants, prices 1 and 3, a float of 3, one failure, one restart |
| `gateway` | Is whoever is served somebody who paid this server's price, and does a payment buy one response, even when it was signed for another server, carries other terms than it was signed for, is presented twice, or its answer is lost? | a paywall and an example API, of one merchant or two, over one facilitator and a channel of 9, one request each, prices 1 and 3, one lost call, one restart |
| `gateway_live` | Does every call and request end; is what is settled served; does a payable coin buy somebody a response? | the same with one merchant, price 3, one RPC failure, one restart, fairness |
| `client` | Is every settle what the client signed for that fetch, and does a disciplined client's record track its money? | two fetches, an `openChannel` and a `refreshChannel`, savings for two channels, prices 3 and 7, two timeouts, one failure |
| `process` | Do racing handlers open one connection, and does a stop end, with nobody left waiting if it says so? | three requests of two calls, two callers that drop, one failure, two signals, one restart |

Properties worth reading first:

- `OnePaymentPerSuccess` — two successful settles spent different coins. Nothing in
  the facilitator remembers payments; only the node's refusal of a double spend and
  the order "broadcast, then answer" give this.
- `SuccessPaysThePrice` — a success is backed by a transaction at the node that pays
  the price under the client's signature, on every path to a success response. It pays
  the facilitator, as the code has it (section 5 on what the documents say).
- `ClientConsents` — whatever bodies are put together, a channel coin is spent only as
  its client signed: all of it comes back but output 0 of what was signed and two fees.
- `MerchantsNotOverpaid` — forwards to a merchant never exceed what was settled for
  it, although one wallet pays all merchants and forwards may fail or lose answers.
- `ChannelIsOneCoin` — a channel has at most one unspent coin, whose nonce counts
  its settlements, so (client, timeout, nonce) finds it.
- `ImplementsPaymentChannel` — the refinement: a channel's balance is its unspent
  coin, its nonce and amount paid are read off the accepted settlements.
- `ServedIsPaid` — behind every served request is a settle made for it, at the node,
  that pays the price of *that* route under the signature of the client whose coin it
  spends; `verify` looks at no signature, payments travel between servers, and the terms
  a payment says it accepted are signed by nobody. It says nothing of the payee: which
  merchant the facilitator forwards to is the server's word (`route`), not the client's.
- `OneResponsePerPayment` — over all servers of a facilitator, two served requests
  presented two different coins, though no server and no facilitator remembers any.
- `SettledIsServed` — once the money has moved for a request, it is served, unless RPC,
  facilitator or connection fail: a failed forward is no reason to refuse.
- `PayableCoinBuysResponse` — a payment that is good when its server calls `/verify`
  buys a response, if not for this request then for another that presents its coin.
- `SettlesAreSigned` — however the calls of a client interleave, a settle at the node is
  what it signed for that fetch.
- `RecordNamesItsCoin`, `TracksItsMoney`, `SentIsSettleable` — of a disciplined client:
  the fields of the record agree on one coin, every unspent channel coin is known to
  the client, and what it sends can be settled, for later payments as for the first.
- `NobodyLeftWaiting`, `SignalEnds` — a handler that a stop interrupts had lost its
  caller before, or the exit code is 1, requests that come in during the stop included;
  a signal ends the process all the same. Exit code 0 does *not* mean that every settle
  was run to its end: one whose caller dropped may be cut off after its broadcast.
- `FeesBounded`, `BalanceTestIsExact`, `SignedIsRebuilt` — the arithmetic of the three
  programs that compute a settlement, at the boundary of the change output too.
- `PatchedIsCompiled`, `PatchesWhatFits`, `ParametersReadBack` — the patcher, when
  arguments look like placeholders and integers change length.

*Why the bounds are enough.* The races are between two handlers for one coin; a third
settle adds the successor coin and the repetition of an old request after it. One
failure and one restart at any await of any handler, in any order, give every
combination the code has a branch for; a second failure only repeats one of them on
another handler, which `replay` does. Prices 1 and 3 lie on both sides of the forward's
condition `amount > STANDARD_FEE`. Funding 9 gives change, a remainder equal to the fee
(two payments of 3: not carried over) and a coin too small to pay; the other remainders
are met in `covenant`, which tries every amount. `replay` has one price, 2, because
`Mixing` multiplies the bodies: three payments out of 10 leave, again, a remainder of
the fee, and a signature for one coin meets the outpoint and the parameters of any
other. In `funds` and `gateway` a body names one coin, with any terms; two merchants are
the fewest for which a payee can be the wrong one, and two prices for an amount.
`MinConf = 1` and `MaxPolls = 1` keep one round of each waiting loop (10 and 15 in the
code); a longer wait only interleaves more of the same steps. A sweep and settles meet
in `funds`. Two servers of both kinds and two requests give every pair that can meet
over one payment; a third only repeats one of the kinds. Two fetches, an open and a
refresh are every pair of methods that share a record; an instance with three fetches
and one price (2.5 million states) holds as well. In `process` two handlers can meet a
connection that a third one makes, and two callers may drop while a third one waits. For
the patcher, base 4 and width 2 let integers up to 16 cross every boundary: one-opcode
integers, minimal encodings of one, two and three bytes, the byte added for the sign,
the sign bit of a field, an integer too large for it.

*Symmetry* permutes settle identifiers and merchants in `replay` and `funds`, merchants
in `gateway`, fetches in `client`, none of which has a liveness property. *Deadlock* is
not checked where the bounded calls may all be answered, or a channel's balance be used
up: there the system rightly stops.

*Fairness* (`gateway_live`, `process`): weak fairness of `NodeStep`, `DaaAdvance`, and
of every handler's own steps. The event loop resumes each handler whose await is
answered, the node answers each call, transactions taken are accepted and blocks keep
coming. A server's handler is fair too: its call arrives, and it goes on when the call
is answered or broken. No request need ever arrive and no failure need happen. In
`process` the answer of `connect` is not fair: the vendored client keeps trying to
reach its node, so a handler may wait for ever, and only the timer ends the stop.

## 4. The proofs

The assumptions are those of the modules:
`FeeAssumption` (the fee is a natural number), `KeyAssumption` (the facilitator is
not its own client), `FundingAssumption` (initial balances), `FacilitatorAssumption`
(amounts and bounds are naturals, the call identifiers of the routes are distinct,
channels are deployed at nonce 0, as `deployContract` does), `WalletAssumption`,
`ClientAssumption` (the client's key is a client's, prices are positive, the identifiers
of its calls are distinct), `ProcessAssumption` (bounds are naturals), `ServerAssumption`
(each gated request has a verify call and a settle call of its own), `PatcherAssumption`
(a byte has an even number of values and a field at least one byte; scripts and keys are
sequences of integers, and a client key is as long as the template's, because
`kaspaAddressToPubkeyBytes` returns an x-only key of 32 bytes) and `TemplatesFit` (the
integers a template was compiled with fit a field, as the compiler's do).
Calls, servers, channels, merchants, prices, failures and restarts are arbitrary in number.

**PaymentChannelProofs.** `FeesAreBounded`: a channel loses exactly one miner fee per
settlement and at most one more when it closes; the invariant is `FeesBounded` with
the types, and the arithmetic of nonce × fee is a lemma of its own (`FeeMultiples`).
`BalanceTestCorrect`: what `verify` tests is what the contract accepts, from the
stateless `CovenantAgreesWithFacilitator`. `SignedIsRebuiltCorrect`: both programs
compute one list of outputs.

**FacilitatorProofs.** `TypesAreCorrect`, `OnePaymentCorrect` and `PriceCorrect`, in
three stages.

1. *Types* (`TypeInv`): `TypeOK` is not inductive by itself. It needs to know which
   control points a handler can be at (`Control`) and that a handler about to submit
   holds its own transaction (`DraftOwned`); without it nothing is known of the
   transaction `Enqueue` adds.
2. *Summary of a step* (`StepSummary`): each action is reduced to two facts — how the
   handlers advance (`Advances`) and how the node changes (`NodeMoves`: not at all, by
   acceptance, or by submitted drafts: one, or at a crash any set that spends no
   coin twice). The rest of the proof never looks at the 15
   actions again.
3. *Settlement* (`SettleInv`): transaction ids are unique and no coin is spent twice
   (`UniqueIds`, `NoDoubleSpend`); no transaction of a handler is known before it
   submits it (`Fresh`); past its broadcast a settle has its transaction at the node
   (`Backed`); each settle at the node is what its request asked under the client's
   signature (`SettledAsSigned`, from `DraftSettles` and the contract's acceptance).

   Then two successes have two settles by `Backed`, different by their ids, so they
   spend different coins by `NoDoubleSpend`, and distinct coins have distinct outpoints
   by `UniqueIds`: `OnePaymentPerSuccess`. `Backed` and `SettledAsSigned` give
   `SuccessPaysThePrice`. The invariant is needed because the two properties speak of
   answers only, long after the facts that make them true.

**SumProofs.** What the money proofs need of sums over finite sets (`SumOver`, the value
of `MapThenSumSet`): any element can be set apart (`SumApart`, `SumAdd`: the order in which
`CHOOSE` takes the elements does not matter), and a set whose elements have partners of the
same weight in another set, each its own, does not outweigh it (`SumInjects`). The
library's induction theorems take an operator as a parameter, which the provers cannot
instantiate; here a counterexample of least cardinality takes their place, in the set of
subsets of one given set, so no operator is quantified.

**FacilitatorMoneyProofs.** `MoneyInv` joins to the coins of the node (`NodeInv`) what
the money properties leave unsaid: every transaction at the node is the funding of a
channel, a settle whose coin affords the price, or one that touches no channel coin
(`Kinds`); the forwards and sweeps under way are of this last kind, and a forward pays
what its request says (`WalletDrafts`); and every forward at the node has its settle
there (`ForwardsBacked`). `ConsentCorrect` reads `ClientConsents` off the kind of the
spending transaction: the contract wanted the client's signature on these outputs, and
the only one that comes with a settle is the payload's. `MerchantsCorrect` maps forwards
to the settles that back them, which is injective by their ids, and sums along that map.
`OneCoinCorrect` needs `ChannelInv`: a coin under a channel's address belongs to a
channel that was opened (`ChannelsKnown`), and an accepted settle replaces the one live
coin by its change. `ChannelRefinement` takes the same case split: the acceptance of a
settle is `Settle` of its channel, with the balance, nonce and amount paid that the
mapping reads off the chain; every other step is a stutter. `ChannelFeesCorrect` then
transports `FeesAreBounded` of the abstract channel to the facilitator, discharging the
assumptions of the instance. TLC checked `MoneyInv` and `ChannelInv` on the
facilitator's instances before they were proved.

**ResourceServerProofs.** `ServersImplementFacilitator`: the composition implements
`SafetySpec` of the facilitator, in which callers are arbitrary. A step of a server is a
stutter of the facilitator or an arrival; that what arrives is under a signature some
client may have made (`OffersAreSigned`, `PaymentsAreBodies`), at the moment of arrival
too (`PaymentBodiesGrow`), is what the refinement needs. So the facilitator's invariants
hold here. `CallsFollow` carries them to the responses: a settle call holds its
request's payment under the server's own terms, and a served request has a settle call
that succeeded. Its step combines what a step may do to a call (`SettleCallStep`) and to
a request (`RequestStep`). `OneResponseCorrect` then follows from
`OnePaymentPerSuccess`, because two requests have two settle calls.
`ServedIsPaidCorrect` follows from the settle that backs a success (`SettledAsSigned`):
it is for this request's body, hence for the route's price, and the contract accepted
the signature in it. Nothing in the proof relies on the accepted terms; the model's
payments carry any.

**FacilitatorProcessProofs.** `OneConnectionCorrect`: with the types, `OneConnection` is
inductive, because `this.rpc` is set in the step that creates the client and unset only
when the process ends. `NobodyIsLeftWaiting`: the action property needs that no caller
waits while the process disconnects, which holds because a server that is closing takes no
new connection and one that has closed takes no request at all.

**ClientProofs.** In three stages, all for any number of calls, prices and failures.

1. *Types* (`Base`): `ClientTypeOK` with `CallControl` (calls of a method stay on its
   control points) and what is being deployed (`Deploys`). One lemma per action says
   what it does to its call (`FetchStep` ... `FailsStep`); every later argument uses these
   lemmas instead of the actions.
2. *Any application* (`ClientInv`): ids are unique, inputs exist, nothing of a call is
   known before it submits (`Fresh`), and a payment is signed for what was asked
   (`SignedAsAsked`). The covenant wants a signature of the client; of the two signatures
   that come with a settle one is the facilitator's, who is not a client, so the other one
   is the payload's, which is `signed`: `SettlesSignedCorrect`.
3. *A disciplined application* (`DisciplineInv`): one call is in flight and nothing is
   owed meanwhile (`OneCall`, `Reported`), the record it works on does not move (`Opening`,
   `Paying`, `Refreshing`), and the one settle whose change is still to be reported spends
   the record's coin and pays to its next address (`OwedIsNext`). Each clause of `Orderly`
   is used. `RecordCorrect` and `TracksCorrect` are conjuncts; `SentCorrect` follows because
   the coin the lookup found is still unspent when the payload is sent, and because client,
   facilitator and covenant agree on the outputs (`RebuiltIsSigned`). It holds after failures
   too: a failed settle leaves a record whose coin is spent, which `Orderly` keeps from
   being used, or unspent, which can be paid from.

`ClientInv` and `DisciplineInv` were checked by TLC on the instance of `client` before they
were proved.

**TemplatePatcherProofs.** For every byte size, field width, template and channel, in
four stages.

1. *Encodings*: powers of the byte size exist and grow (`PowerTyped`: a recursive function
   is a `CHOOSE`, so its existence and uniqueness are proved first); digits, fixed and
   minimal encodings are byte sequences of the expected length (`FixedIntTyped`,
   `ScriptIntTyped`).
2. *Layout*: the compiled script is what comes before a parameter, its bytes, and what
   comes after (`Splits`); both sides stay the same while another value of the same size
   is put there (`SurroundingsKept`), and the offset depends on sizes only (`SameStart`).
   A placeholder that occurs once therefore is found at that offset (`FoundOnce`).
3. *Patching*: the two loops of `applyPatch` are unrolled (`ParamWritten`, `PatchSteps`).
   By `ParamReplaced` each round turns the script compiled with some arguments into the one
   compiled with one of them replaced, or throws; `PatchCompiles` chains the three. This is
   why a parameter that happens to look like a later placeholder does no harm: the offsets
   were taken from the template, and the bytes there are still the template's.
   `PatchedIsCompiledCorrect` and `PatchesWhatFitsCorrect` read it off the invariant
   `PatcherInv`, in which the script is the outcome for the arguments.
4. *Reading*: adding up the digits of an integer gives it back, because the digit above
   the lowest ones is what division leaves (`DigitAbove`), and the sign bit is free
   (`FieldReadBack`). With the offset of the field (`FieldAt`) this is
   `ParametersReadBackCorrect`.

TLC checked `PatcherInv` on the instance of `patcher`.

**Model-checked only.** Liveness (`EveryCallAnswered`, `EveryRequestAnswered`,
`SettledIsServed`, `PayableCoinBuysResponse`, `SignalEnds`), which needs ENABLED. The
violated properties of section 5 are runs only.

## 5. Where documents and code disagree

Each has a run that TLC finds violated, checking one property that states the document.

| Run | Document | Code |
|---|---|---|
| `failure_settles` | `specs/scheme_exact_kaspa.md:198`, the field `success`: "Whether settlement succeeded" | an error after the broadcast (lost answer, `waitForConfirmation` throwing) is answered `success: false`, although the money has moved |
| `forward_lost` | `README.md:33`, the merchant gets "KAS deposited to their address for every paid request" | two concurrent settles build conflicting forwards; the refused one is logged and never repeated |
| `sweep_takes_payment` | `README.md:117`, "Accumulated fees → cold wallet" | a sweep also spends a settlement that awaits its forward |
| `reuse_channel` | `packages/client/README.md:52`, "Reuses the channel for subsequent payments (incrementing nonce)" | `fetch` never updates the record and nothing calls `updateChannelAfterSettle`: the next fetch looks for the spent coin and fails |

More disagreements are visible in the model and have no run of their own.
`facilitator.ts:9` says that the facilitator "Validates client's partial signature", but
`verify` answers `isValid: true` without looking at it; only the broadcast in `settle`
meets the signature (`VerifyLookup` has no such conjunct, and `ServedIsPaid` shows that
no server relies on it). `specs/scheme_exact_kaspa.md:94` and `fetch` (`client.ts:323`)
send the payment in `PAYMENT-SIGNATURE`, as raw JSON; the paywall reads `x-payment` only,
as base64 (`middleware.ts:264`), so it answers the client's automatic retry with a second
402 (`Offer` with a header). The example API reads both.

Further ones that the properties take a side in, the code's:

- *Who output 0 pays.* `specs/scheme_exact_kaspa.md:87`, `:137` and `:217` ("Output[0] MUST
  pay to the `payTo` address from PaymentRequirements") and `packages/client/README.md:53`
  ("Each payment is a settle TX that pays the merchant directly") have the settle pay the
  merchant. `facilitator.ts:271` pays the facilitator's signing address, on every success, and
  a wallet transaction forwards the price less its fee; the signature of a client that
  follows the document (no `facilitatorSigningAddress` in the offer) is refused by the node.
  `SuccessPaysThePrice` and `ServedIsPaid` state what the code does.
- *When the resource is served.* `specs/scheme_exact_kaspa.md:147` has the resource server
  serve the content and then call `/settle`, and `:282` argues from a server that "already
  served the resource". `processPayment` (`middleware.ts:203`) verifies and settles before the
  paywall or the example serves. `CallsFollow` and `ServedIsPaid` state this; the mutant
  `Verified_ServedFirst` is the document's order, and violates the first.
- *The timeout.* `specs/scheme_exact_kaspa.md:142` and `:213` have `/verify` reject a channel
  whose timeout has passed. `verify` compares no time with it, so neither `Verifiable` nor
  `PayableAt` does; of contract v4, which has no refund, this takes nothing from anybody.
- *Graceful shutdown.* `server.ts:183` calls `shutdown` so, and its exit code 0 comes after
  `server.close`; a handler whose caller has dropped is not waited for
  (`NobodyLeftWaiting` excepts it), so a settle may be cut off and reported as a clean stop.

## 6. Abstractions and bounds

- A signature is the record of what it covers (signer, outpoint, outputs). A P2SH
  address is the parameters patched into the script; that the patch is faithful is
  what `TemplatePatcher` checks, and that hashing is injective is assumed.
- `TermsMatch` stands for the comparison of amount and payee; protocol version,
  scheme, network, and the facilitator's public key are constants that agree.
- `createTransactions` of kaspa-wasm, external: any set of entries that covers amount
  and `NetFee` and stops covering them without its last entry, in one transaction.
- Without a `feeAddress` the sweep pays the signing address itself: `ColdWallet` is then the
  facilitator's own key, which no assumption excludes. Where `createTransactions` returns
  several transactions the loops over them are one submit here.
- A transaction's id is its kind and the handler that builds it: each handler submits
  at most one of each kind. `vout` counts from 1.
- The node's lookup reports accepted coins only; a submit is refused when an input is
  unknown, spent, spent in the mempool, or not unlocked (`allowOrphan` false). Mempool
  transactions are not evicted and blocks are not reorganised.
- In `Facilitator` channels are deployed at the start, with distinct parameters;
  `channelTimeout` is always announced. In `Client` they are deployed by the client, and
  two may share a timeout. The client's environment settles at once what the facilitator
  could settle (`Settleable`): its waits and forwards do not touch the client.
- HTTP: a header is a name and a form; a call either gets its answer or makes `fetch`
  throw. Every request of the model is for a gated route. DAA score is relative to the
  start of each wait.
- Bounds: `MaxLost` (calls of a server without an answer), `MaxSignals`, `MaxCalls`,
  `MaxDrops`, `MaxRestarts` (process), `Mixing` (whether the outpoint, parameters and
  signature of a body may belong to different coins; the proofs hold for both values),
  `MaxFailures` (failed or lost RPC calls), `MaxCrashes` (restarts), the sets of calls
  `Verifies`, `Settles`, `Sweeps`; `MinConf` and `MaxPolls` are parameters of the code;
  `Supply` limits the amounts TLC enumerates for change and exceeds the money in the
  instance. `SweepUnit` stands for `10000n`, `Base`, `Width`, `SmallMax` for 256, 8, 16.

## 7. Not modelled

- `refund` and `refundChannel`: `buildSigScript` looks up an entrypoint `refund` that the
  compiled v4 contract does not have and throws, before the submit and before the record
  is touched. On every path the call changes nothing, so a balance too small for any
  payment stays locked. `completeSettle` returns a constant.
- `findGatedRoute`, `findKaspaRequirement`: pure searches. `/supported` and `/health` of the
  facilitator: configuration.
- `kascov-cli.ts`: a developer tool that runs an external binary. Contracts v1 to v3:
  superseded. `kaspa-wasm`: vendored and generated; what is used of it is external in
  `KaspaNode` and `Wallet`. Deploy scripts and end-to-end tests: set-up and demonstration.
- Reorganisations of the chain and eviction from the mempool.

## 8. Plan

Done, in this order: `Covenant`, `PaymentChannel` (abstract), `KaspaNode`,
`Facilitator`, their proofs, `TemplatePatcher`; `Wallet`, `ResourceServer` and its proofs,
`Client`, `FacilitatorProcess` and its proofs; sums, the facilitator's money and the
refinement of `PaymentChannel`; the client's proofs; the template patcher's.

1. `Client` composed with `ResourceServer`, in place of its environment `Answered` and of
   the payments `Payments`, if an instance small enough keeps both kinds of races.
