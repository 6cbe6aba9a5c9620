----------------------- MODULE PaymentChannelProofs -----------------------
(* The payment channel for any fee, any channels and any funding.          *)
EXTENDS PaymentChannel, TLAPS

\* A settlement keeps the balance a natural number: the balance test and the
\* rule for the change leave nothing negative.
LEMMA CarriedIsNat ==
    ASSUME NEW b \in Nat, NEW payment \in Nat, Affordable(b, payment)
    PROVE  Carried(b - payment - Fee) \in Nat
  BY FeeAssumption, SMT DEF Affordable, Carried

\* The amounts and counts of every channel are natural numbers: no sequence of
\* payments drives a balance below zero.
THEOREM ChTypeCorrect == ChSpec => []ChTypeOK
<1>1. ChInit => ChTypeOK
  BY FundingAssumption DEF ChInit, ChTypeOK
<1>2. ChTypeOK /\ [ChNext]_chVars => ChTypeOK'
  <2> SUFFICES ASSUME ChTypeOK, [ChNext]_chVars
               PROVE  ChTypeOK'
    OBVIOUS
  <2> USE DEF ChTypeOK
  <2>1. ASSUME NEW ch \in Channels, NEW payment \in 1 .. balance[ch],
               Settle(ch, payment)
        PROVE  ChTypeOK'
    <3>1. /\ balance[ch] \in Nat /\ payment \in Nat
          /\ Affordable(balance[ch], payment)
      BY <2>1 DEF Settle
    <3>2. Carried(balance[ch] - payment - Fee) \in Nat
      BY <3>1, CarriedIsNat
    <3>3. balance' \in [Channels -> Nat]
      BY <2>1, <3>2 DEF Settle
    <3>4. nonce' \in [Channels -> Nat] /\ paid' \in [Channels -> Nat]
      BY <2>1, <3>1 DEF Settle
    <3> QED
      BY <3>3, <3>4
  <2>2. CASE UNCHANGED chVars
    BY <2>2 DEF chVars
  <2> QED
    BY <2>1, <2>2 DEF ChNext
<1> QED
  BY <1>1, <1>2, PTL DEF ChSpec

\* One more settlement, one more fee.
LEMMA FeeMultiples ==
    ASSUME NEW n \in Nat
    PROVE  /\ n * Fee \in Nat
           /\ (n + 1) * Fee = n * Fee + Fee
           /\ ((n + 1) + 1) * Fee = n * Fee + Fee + Fee
  BY FeeAssumption, SMT

\* Each settlement costs the channel its price and one fee, the one that closes
\* it at most one fee more, for any sequence of payments.
THEOREM FeesAreBounded == ChSpec => []FeesBounded
<1>1. ChInit => FeesBounded
  <2> SUFFICES ASSUME ChInit, NEW ch \in Channels
               PROVE  /\ MinerFees(ch) >= nonce[ch] * Fee
                      /\ MinerFees(ch) <= (nonce[ch] + 1) * Fee
                      /\ balance[ch] > 0 => MinerFees(ch) = nonce[ch] * Fee
    BY DEF FeesBounded
  <2>1. Funding[ch] \in Nat /\ Fee \in Nat
    BY FundingAssumption, FeeAssumption
  <2>2. balance[ch] = Funding[ch] /\ nonce[ch] = 0 /\ paid[ch] = 0
    BY DEF ChInit
  <2>3. MinerFees(ch) = 0
    BY <2>1, <2>2, SMT DEF MinerFees
  <2> QED
    BY <2>1, <2>2, <2>3, SMT
<1>2. ChTypeOK /\ FeesBounded /\ [ChNext]_chVars => FeesBounded'
  <2> SUFFICES ASSUME ChTypeOK, FeesBounded, [ChNext]_chVars
               PROVE  FeesBounded'
    OBVIOUS
  <2>1. ASSUME NEW c \in Channels, NEW payment \in 1 .. balance[c],
               Settle(c, payment), NEW ch \in Channels
        PROVE  /\ MinerFees(ch)' >= nonce'[ch] * Fee
               /\ MinerFees(ch)' <= (nonce'[ch] + 1) * Fee
               /\ balance'[ch] > 0 => MinerFees(ch)' = nonce'[ch] * Fee
    <3>1. CASE ch # c
      <4>1. balance'[ch] = balance[ch] /\ nonce'[ch] = nonce[ch] /\ paid'[ch] = paid[ch]
        BY <2>1, <3>1 DEF Settle, ChTypeOK
      <4> QED
        BY <4>1 DEF FeesBounded, MinerFees
    <3>2. CASE ch = c
      <4>1. /\ Funding[ch] \in Nat /\ balance[ch] \in Nat /\ paid[ch] \in Nat
            /\ nonce[ch] \in Nat /\ payment \in Nat /\ payment > 0
        BY <2>1, <3>2, FundingAssumption DEF ChTypeOK
      <4>2. Affordable(balance[ch], payment)
        BY <2>1, <3>2 DEF Settle
      <4>3. balance[ch] > 0
        BY <4>1, <4>2, FeeAssumption, SMT DEF Affordable
      <4>4. Funding[ch] - balance[ch] - paid[ch] = nonce[ch] * Fee
        BY <4>3 DEF FeesBounded, MinerFees
      <4>5. /\ balance'[ch] = Carried(balance[ch] - payment - Fee)
            /\ nonce'[ch] = nonce[ch] + 1
            /\ paid'[ch] = paid[ch] + payment
        BY <2>1, <3>2 DEF Settle, ChTypeOK
      <4>6. MinerFees(ch)' = Funding[ch] - balance'[ch] - paid'[ch]
        BY DEF MinerFees
      <4>7. /\ MinerFees(ch)' >= nonce[ch] * Fee + Fee
            /\ MinerFees(ch)' <= nonce[ch] * Fee + Fee + Fee
            /\ balance'[ch] > 0 => MinerFees(ch)' = nonce[ch] * Fee + Fee
        <5>1. nonce[ch] * Fee \in Nat
          BY <4>1, FeeMultiples
        <5>2. MinerFees(ch)' = Funding[ch] - balance'[ch] - (paid[ch] + payment)
          BY <4>5, <4>6
        <5>3. balance'[ch] \in Nat
          BY <4>1, <4>2, <4>5, CarriedIsNat
        <5> DEFINE nf == nonce[ch] * Fee
                   rest == balance'[ch]
        <5>4. /\ Funding[ch] - rest - (paid[ch] + payment) >= nf + Fee
              /\ Funding[ch] - rest - (paid[ch] + payment) <= nf + Fee + Fee
              /\ rest > 0 => Funding[ch] - rest - (paid[ch] + payment) = nf + Fee
          <6>1. /\ nf \in Nat /\ rest \in Nat
                /\ Funding[ch] - balance[ch] - paid[ch] = nf
                /\ rest = Carried(balance[ch] - payment - Fee)
            BY <4>4, <4>5, <5>1, <5>3
          <6>2. Fee \in Nat /\ balance[ch] >= payment + Fee
            BY <4>2, FeeAssumption DEF Affordable
          <6> HIDE DEF nf, rest
          <6>3. CASE balance[ch] - payment - Fee > Fee
            <7>1. rest = balance[ch] - payment - Fee
              BY <6>1, <6>3 DEF Carried
            <7> QED
              BY <4>1, <6>1, <6>2, <7>1, SMT
          <6>4. CASE ~ (balance[ch] - payment - Fee > Fee)
            <7>1. rest = 0
              BY <6>1, <6>4 DEF Carried
            <7> QED
              BY <4>1, <6>1, <6>2, <6>4, <7>1, SMT
          <6> QED
            BY <6>3, <6>4
        <5> QED
          BY <5>2, <5>4
      <4> QED
        BY <4>1, <4>5, <4>7, FeeMultiples
    <3> QED
      BY <3>1, <3>2
  <2>2. CASE UNCHANGED chVars
    BY <2>2 DEF chVars, FeesBounded, MinerFees
  <2>3. CASE ChNext
    BY <2>1, <2>3 DEF ChNext, FeesBounded
  <2> QED
    BY <2>2, <2>3
<1> QED
  BY <1>1, <1>2, ChTypeCorrect, PTL DEF ChSpec

\* The contract accepts what the facilitator rebuilds exactly when the balance
\* covers the payment and the fee, at any nonce and for any amounts.
LEMMA CovenantAgreesWithFacilitator ==
    ASSUME NEW params \in ChannelParams, NEW b \in Nat, NEW payment \in Nat \ {0}
    PROVE  Affordable(b, payment)
             <=> SettleValid(params, b, FacilitatorOutputs(params, b, payment))
<1> DEFINE outs == FacilitatorOutputs(params, b, payment)
           rest == b - payment - Fee
<1>1. Fee \in Nat /\ rest \in Int
  BY FeeAssumption
<1>2. outs # << >> /\ outs[1].amount = payment
  BY <1>1 DEF FacilitatorOutputs, Pay
<1>3. CASE rest > Fee
  <2>1. /\ Len(outs) = 2
        /\ outs[2].address = ChannelAddress(NextParams(params))
        /\ outs[2].amount = rest
    BY <1>3 DEF FacilitatorOutputs, Pay
  <2>2. NextParams(params) = [params EXCEPT !.nonce = params.nonce + 1]
    BY DEF NextParams
  <2>3. Affordable(b, payment)
    BY <1>1, <1>3, SMT DEF Affordable
  <2> HIDE DEF outs
  <2>4. SettleValid(params, b, outs)
    BY <1>1, <1>2, <1>3, <2>1, <2>2, <2>3, SMT DEF SettleValid, Affordable
  <2> QED
    BY <2>3, <2>4 DEF outs
<1>4. CASE ~ (rest > Fee)
  <2> HIDE DEF outs
  <2>1. Affordable(b, payment) <=> payment + Fee <= b
    BY <1>1, SMT DEF Affordable
  <2>2. SettleValid(params, b, outs) <=> payment + Fee <= b
    BY <1>1, <1>2, <1>4, SMT DEF SettleValid
  <2> QED
    BY <2>1, <2>2 DEF outs
<1> QED
  BY <1>3, <1>4

\* The facilitator's balance test is the contract's, throughout the life of
\* every channel.
THEOREM BalanceTestCorrect == ChSpec => []BalanceTestIsExact
<1>1. ChTypeOK => BalanceTestIsExact
  <2> SUFFICES ASSUME ChTypeOK, NEW ch \in Channels, NEW payment \in 1 .. Funding[ch]
               PROVE  Affordable(balance[ch], payment) <=>
                        SettleValid(LiveParams(ch), balance[ch],
                          FacilitatorOutputs(LiveParams(ch), balance[ch], payment))
    BY DEF BalanceTestIsExact
  <2>1. LiveParams(ch) \in ChannelParams
    <3>1. ch \in ChannelParams /\ nonce[ch] \in Nat
      BY FundingAssumption DEF ChTypeOK
    <3> QED
      BY <3>1 DEF LiveParams, ChannelParams
  <2>2. balance[ch] \in Nat /\ payment \in Nat \ {0}
    BY FundingAssumption DEF ChTypeOK
  <2> QED
    BY <2>1, <2>2, CovenantAgreesWithFacilitator
<1> QED
  BY <1>1, ChTypeCorrect, PTL

\* The client and the facilitator compute the same list of outputs, so the
\* client's signature is good for the transaction the facilitator broadcasts.
THEOREM SignedIsRebuiltCorrect == ChSpec => []SignedIsRebuilt
<1>1. SignedIsRebuilt
  BY DEF SignedIsRebuilt, ClientOutputs, FacilitatorOutputs
<1> QED
  BY <1>1, PTL

=============================================================================
