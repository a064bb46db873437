------------------------ MODULE AgentSession_proofs ------------------------
(***************************************************************************)
(* TypeOK and LossWithinCap are inductive together, whoever the owner and  *)
(* the session key are.  That nothing outlives the closing of a session    *)
(* needs more: while a ticket is out, the transaction is the session key's *)
(* and its session has not expired, so neither close_session (the owner's) *)
(* nor expire_refund (after the expiry) can be one of its calls.  The code *)
(* does not keep an owner from naming its own address as session key, and  *)
(* these last theorems assume that it has not.                             *)
(***************************************************************************)
EXTENDS AgentSession, TLAPS, SequenceTheorems

---------------------------------------------------------------------------
(* Tickets *)

\* Consuming a ticket leaves a sequence of tickets one shorter, and ends the
\* transaction exactly when it was the last.
LEMMA ConsumeLemma ==
    ASSUME TypeOK, NEW i \in DOMAIN tickets, Consume(i)
    PROVE  /\ tickets' \in Seq(TicketType)
           /\ sender' \in Senders \cup {NoSender}
           /\ tickets' = <<>> <=> sender' = NoSender
           /\ tickets' # <<>> => sender' = sender
<1> DEFINE before == SubSeq(tickets, 1, i - 1)
           after  == SubSeq(tickets, i + 1, Len(tickets))
<1>1. tickets \in Seq(TicketType) /\ i \in 1 .. Len(tickets) /\ Len(tickets) \in Nat
  BY LenProperties DEF TypeOK
<1>2. /\ before \in Seq(TicketType) /\ Len(before) = i - 1
      /\ after \in Seq(TicketType) /\ Len(after) = Len(tickets) - i
  <2>1. \A k \in 1 .. i - 1 : tickets[k] \in TicketType
    BY <1>1, ElementOfSeq
  <2>2. \A k \in i + 1 .. Len(tickets) : tickets[k] \in TicketType
    BY <1>1, ElementOfSeq
  <2>3. 1 \in Int /\ i - 1 \in Int /\ i + 1 \in Int /\ Len(tickets) \in Int
    BY <1>1
  <2>4. before \in Seq(TicketType) /\ Len(before) = i - 1
    BY <1>1, <2>1, <2>3
  <2>5. after \in Seq(TicketType) /\ Len(after) = Len(tickets) - i
    BY <1>1, <2>2, <2>3
  <2>. QED BY <2>4, <2>5
<1>3. tickets' = before \o after
  BY DEF Consume
<1>. HIDE DEF before, after
<1>4. tickets' \in Seq(TicketType) /\ Len(tickets') = Len(tickets) - 1
  BY <1>1, <1>2, <1>3, ConcatProperties
<1>5. tickets' = <<>> <=> Len(tickets') = 0
  BY <1>4, EmptySeq
<1>6. tickets # <<>> /\ sender # NoSender
  BY <1>1, EmptySeq DEF TypeOK
<1>7. sender' = IF Len(tickets) = 1 THEN NoSender ELSE sender
  BY DEF Consume
<1>. QED BY <1>1, <1>4, <1>5, <1>6, <1>7 DEF TypeOK

\* What a credit leaves of the exposure is an exposure, lower by no more than
\* the amount credited.
LEMMA CreditLemma ==
    ASSUME NEW exposure \in Nat, NEW amount \in Nat
    PROVE  /\ Credited(exposure, amount) \in Nat
           /\ exposure - amount <= Credited(exposure, amount)
           /\ Credited(exposure, amount) <= exposure
BY DEF Credited

\* Parking keeps the field a Boolean, its value a natural number, and an
\* absent field empty.
LEMMA ParkLemma ==
    ASSUME TypeOK, NEW tokens \in Nat, ParkTokens(tokens)
    PROVE  parked' \in Nat /\ field' \in BOOLEAN /\ (field' \/ parked' = 0)
<1>1. parked' \in Nat
  BY DEF TypeOK, ParkTokens
<1>2. field' \in BOOLEAN
  BY ZenonT(20) DEF TypeOK, ParkTokens
<1>3. CASE tokens > 0
  BY <1>1, <1>2, <1>3 DEF ParkTokens
<1>4. CASE ~(tokens > 0)
  <2>1. parked' = parked /\ (field' <=> field)
    BY <1>4 DEF TypeOK, ParkTokens
  <2>. QED BY <1>1, <1>2, <2>1 DEF TypeOK
<1>. QED BY <1>1, <1>2, <1>3, <1>4

---------------------------------------------------------------------------
(* The two inductive invariants *)

IInv == TypeOK /\ LossWithinCap

\* A newly opened session owes nothing.
LEMMA InitIInv == Init => IInv
<1>. SUFFICES ASSUME Init PROVE IInv
  OBVIOUS
<1>1. tickets \in Seq(TicketType)
  BY EmptySeq DEF Init
<1>2. TypeOK
  <2>1. field \in BOOLEAN /\ revoked \in BOOLEAN /\ universal \in BOOLEAN
    BY Zenon DEF Init
  <2>. QED BY <1>1, <2>1, SessionAssumption DEF Init, TypeOK, Senders
<1>3. LossWithinCap
  BY SessionAssumption DEF Init, LossWithinCap, Outstanding
<1>. QED BY <1>2, <1>3 DEF IInv

\* The session key's own trades: what leaves the escrow is charged first, and
\* what comes back is credited at most once.
LEMMA CurveTradeIInv ==
    ASSUME IInv, NEW s \in Senders,
           NEW amount \in Amounts, NEW other \in Amounts, NEW tokens \in Amounts
    PROVE  /\ BuyWithSession(s, amount, other, tokens) => IInv'
           /\ SellWithSession(s, tokens, other) => IInv'
<1>1. amount \in Nat /\ other \in Nat /\ tokens \in Nat /\ SpendCap \in Nat
  BY SessionAssumption
<1>2. ASSUME BuyWithSession(s, amount, other, tokens) PROVE IInv'
  <2>1. /\ Credited(spent + amount, other) \in Nat
        /\ spent + amount - other <= Credited(spent + amount, other)
        /\ Credited(spent + amount, other) <= spent + amount
    <3> DEFINE total == spent + amount
    <3>1. spent \in Nat /\ total \in Nat /\ total = spent + amount
      BY <1>1 DEF IInv, TypeOK
    <3>. HIDE DEF total
    <3>2. /\ Credited(total, other) \in Nat
          /\ total - other <= Credited(total, other)
          /\ Credited(total, other) <= total
      BY <1>1, <3>1, CreditLemma
    <3>. QED BY <1>1, <3>1, <3>2
  <2>2. TypeOK'
    <3>1. escrow' \in Nat /\ spent' \in Nat /\ UNCHANGED <<flags, ptb, ownerNet, now>>
      BY <1>1, <1>2, <2>1 DEF IInv, TypeOK, BuyWithSession
    <3>2. ParkTokens(tokens)
      BY <1>2 DEF BuyWithSession
    <3>. QED BY <1>1, <3>1, <3>2, ParkLemma DEF IInv, TypeOK, flags, ptb
  <2>3. LossWithinCap'
    BY <1>1, <1>2, <2>1
    DEF IInv, TypeOK, LossWithinCap, Outstanding, BuyWithSession, WithinCap
  <2>. QED BY <2>2, <2>3 DEF IInv
<1>3. ASSUME SellWithSession(s, tokens, other) PROVE IInv'
  <2>1. /\ Credited(spent, other) \in Nat
        /\ spent - other <= Credited(spent, other)
        /\ Credited(spent, other) <= spent
    BY <1>1, CreditLemma DEF IInv, TypeOK
  <2>2. TypeOK'
    BY <1>1, <1>3, <2>1 DEF IInv, TypeOK, SellWithSession, TakeTokens, flags, ptb
  <2>3. LossWithinCap'
    BY <1>1, <1>3, <2>1 DEF IInv, TypeOK, LossWithinCap, Outstanding, SellWithSession
  <2>. QED BY <2>2, <2>3 DEF IInv
<1>. QED BY <1>2, <1>3

\* A borrow is charged in full, so nested borrows see each other.
LEMMA BorrowIInv ==
    ASSUME IInv, NEW s \in Senders, NEW amount \in Amounts
    PROVE  /\ BorrowForBuy(s, amount) => IInv'
           /\ BorrowTokensForSell(s, amount) => IInv'
<1>1. amount \in Nat /\ SpendCap \in Nat /\ s # NoSender
  BY SessionAssumption
<1>2. ASSUME NEW t \in TicketType
      PROVE  Append(tickets, t) \in Seq(TicketType) /\ Append(tickets, t) # <<>>
  BY AppendProperties, EmptySeq DEF IInv, TypeOK
<1>3. ASSUME BorrowForBuy(s, amount) PROVE IInv'
  <2>1. tickets' \in Seq(TicketType) /\ tickets' # <<>>
    BY <1>1, <1>2, <1>3 DEF BorrowForBuy, TicketType
  <2>2. TypeOK'
    BY <1>1, <1>3, <2>1 DEF IInv, TypeOK, BorrowForBuy, Charged, flags, tokensHeld
  <2>3. LossWithinCap'
    BY <1>1, <1>3
    DEF IInv, TypeOK, LossWithinCap, Outstanding, BorrowForBuy, Charged, WithinCap
  <2>. QED BY <2>2, <2>3 DEF IInv
<1>4. ASSUME BorrowTokensForSell(s, amount) PROVE IInv'
  <2>1. tickets' \in Seq(TicketType) /\ tickets' # <<>>
    BY <1>1, <1>2, <1>4 DEF BorrowTokensForSell, TicketType
  <2>2. TypeOK'
    BY <1>1, <1>4, <2>1 DEF IInv, TypeOK, BorrowTokensForSell, TakeTokens, flags
  <2>3. LossWithinCap'
    BY <1>4 DEF IInv, LossWithinCap, Outstanding, BorrowTokensForSell
  <2>. QED BY <2>2, <2>3 DEF IInv
<1>. QED BY <1>3, <1>4

\* A settlement credits no more than it brings back, and a buy's credit is at
\* most what was borrowed.
LEMMA SettleIInv ==
    ASSUME IInv, NEW i \in DOMAIN tickets, NEW back \in Amounts, NEW tokens \in Amounts
    PROVE  /\ SettleBuy(i, back, tokens) => IInv'
           /\ SettleSell(i, back, tokens) => IInv'
<1> DEFINE borrowed == tickets[i].borrowed
           credit   == IF back > borrowed THEN borrowed ELSE back
<1>1. back \in Nat /\ tokens \in Nat /\ SpendCap \in Nat
  BY SessionAssumption
<1>2. borrowed \in Nat
  <2>1. tickets[i] \in TicketType
    BY LenProperties, ElementOfSeq DEF IInv, TypeOK
  <2>. QED BY <2>1 DEF TicketType
<1>3. credit \in Nat /\ credit <= back
  BY <1>1, <1>2
<1>. HIDE DEF borrowed
<1>4. ASSUME SettleBuy(i, back, tokens) PROVE IInv'
  <2>1. /\ Credited(spent, credit) \in Nat
        /\ spent - credit <= Credited(spent, credit)
        /\ Credited(spent, credit) <= spent
    BY <1>3, CreditLemma DEF IInv, TypeOK
  <2>2. spent' = Credited(spent, credit)
    BY <1>4 DEF SettleBuy, borrowed
  <2>. HIDE DEF credit
  <2>3. Consume(i) /\ TypeOK
    BY <1>4 DEF SettleBuy, IInv
  <2>4. TypeOK'
    <3>1. escrow' \in Nat /\ spent' \in Nat /\ ParkTokens(tokens) /\ UNCHANGED <<flags, ownerNet, now>>
      BY <1>1, <1>4, <2>1, <2>2, <2>3 DEF TypeOK, SettleBuy
    <3>. QED BY <1>1, <2>3, <3>1, ConsumeLemma, ParkLemma DEF TypeOK, flags
  <2>5. LossWithinCap'
    BY <1>1, <1>3, <1>4, <2>1, <2>2 DEF IInv, TypeOK, LossWithinCap, Outstanding, SettleBuy
  <2>. QED BY <2>4, <2>5 DEF IInv
<1>5. ASSUME SettleSell(i, back, tokens) PROVE IInv'
  <2>1. /\ Credited(spent, back) \in Nat
        /\ spent - back <= Credited(spent, back)
        /\ Credited(spent, back) <= spent
    BY <1>1, CreditLemma DEF IInv, TypeOK
  <2>2. Consume(i) /\ TypeOK
    BY <1>5 DEF SettleSell, IInv
  <2>3. TypeOK'
    <3>1. escrow' \in Nat /\ spent' \in Nat /\ ParkTokens(tokens) /\ UNCHANGED <<flags, ownerNet, now>>
      BY <1>1, <1>5, <2>1, <2>2 DEF TypeOK, SettleSell
    <3>. QED BY <1>1, <2>2, <3>1, ConsumeLemma, ParkLemma DEF TypeOK, flags
  <2>4. LossWithinCap'
    BY <1>1, <1>5, <2>1 DEF IInv, TypeOK, LossWithinCap, Outstanding, SettleSell
  <2>. QED BY <2>3, <2>4 DEF IInv
<1>. QED BY <1>4, <1>5

\* The owner's calls and the refund move the owner's SUI with the escrow.
LEMMA OwnerIInv ==
    ASSUME IInv, NEW s \in Senders
    PROVE  /\ \A amount \in Amounts : TopUpSession(s, amount) => IInv'
           /\ \A enabled \in BOOLEAN : SetUniversalTrading(s, enabled) => IInv'
           /\ RevokeSession(s) \/ CloseSession(s) \/ ExpireRefund(s) \/ SweepToken(s) => IInv'
<1>1. ASSUME NEW amount \in Amounts, TopUpSession(s, amount) PROVE IInv'
  <2>1. amount \in Nat
    BY SessionAssumption
  <2>. QED
    BY <1>1, <2>1
    DEF IInv, TypeOK, LossWithinCap, Outstanding, TopUpSession, flags, ptb, tokensHeld
<1>2. ASSUME NEW enabled \in BOOLEAN, SetUniversalTrading(s, enabled) PROVE IInv'
  BY <1>2 DEF IInv, TypeOK, LossWithinCap, Outstanding, SetUniversalTrading, ptb, tokensHeld
<1>3. ASSUME RevokeSession(s) PROVE IInv'
  BY <1>3 DEF IInv, TypeOK, LossWithinCap, Outstanding, RevokeSession, ptb, tokensHeld
<1>4. ASSUME CloseSession(s) \/ ExpireRefund(s) PROVE IInv'
  <2>1. Refund
    BY <1>4 DEF CloseSession, ExpireRefund
  <2>2. TypeOK'
    BY <2>1 DEF IInv, TypeOK, Refund, ptb, tokensHeld
  <2>3. LossWithinCap'
    BY <2>1 DEF IInv, TypeOK, LossWithinCap, Outstanding, Refund
  <2>. QED BY <2>2, <2>3 DEF IInv
<1>5. ASSUME SweepToken(s) PROVE IInv'
  BY <1>5 DEF IInv, TypeOK, LossWithinCap, Outstanding, SweepToken, flags, ptb
<1>. QED BY <1>1, <1>2, <1>3, <1>4, <1>5

\* Every step keeps both.
LEMMA NextIInv == IInv /\ [Next]_vars => IInv'
<1>. SUFFICES ASSUME IInv, [Next]_vars PROVE IInv'
  OBVIOUS
<1>1. CASE Tick
  BY <1>1 DEF IInv, TypeOK, LossWithinCap, Outstanding, Tick, flags, ptb, tokensHeld
<1>2. CASE UNCHANGED vars
  BY <1>2 DEF IInv, TypeOK, LossWithinCap, Outstanding, vars, flags, ptb, tokensHeld
<1>. QED
  BY <1>1, <1>2, CurveTradeIInv, BorrowIInv, SettleIInv, OwnerIInv DEF Next

\* The invariant of the session, for any owner, key and amounts.
THEOREM SessionInvariant == Spec => []IInv
<1>1. IInv /\ [Next]_vars => IInv'
  BY NextIInv
<1>2. QED
  BY <1>1, InitIInv, PTL DEF Spec

\* Every variable keeps its type; in particular spent is never negative, and
\* a transaction is under way exactly while tickets are out.
THEOREM SessionTypeCorrect == Spec => []TypeOK
<1>1. IInv => TypeOK
  BY DEF IInv
<1>2. QED
  BY <1>1, SessionInvariant, PTL

\* The SUI a session has out of its owner's escrow is counted, and capped, at
\* every step of every sequence of trades, borrows and settlements.
THEOREM LossIsCapped == Spec => []LossWithinCap
<1>1. IInv => LossWithinCap
  BY DEF IInv
<1>2. QED
  BY <1>1, SessionInvariant, PTL

---------------------------------------------------------------------------
(* Closing *)

\* While a ticket is out the session key's transaction goes on, and the
\* session has not expired.
OpenTickets == tickets # <<>> => sender = SessionKey /\ now < expiryMs

\* A ticket can only be made by, and leave standing, an open session.
LEMMA NextOpenTickets ==
    ASSUME Owner # SessionKey, SessionKey \in Senders, IInv, OpenTickets, [Next]_vars
    PROVE  OpenTickets'
<1>1. SessionKey # NoSender
  BY SessionAssumption
<1>2. now \in Nat /\ expiryMs \in Nat /\ (tickets = <<>> <=> sender = NoSender)
  BY DEF IInv, TypeOK
<1>3. ASSUME NEW i \in DOMAIN tickets, Consume(i), UNCHANGED <<flags, now>>
      PROVE  OpenTickets'
  <2>1. (tickets' # <<>> => sender' = sender) /\ tickets # <<>>
    BY <1>3, ConsumeLemma, EmptySeq DEF IInv
  <2>. QED BY <1>3, <2>1 DEF OpenTickets, flags
<1>4. ASSUME NEW i \in DOMAIN tickets, NEW back \in Amounts, NEW tokens \in Amounts,
             SettleBuy(i, back, tokens) \/ SettleSell(i, back, tokens)
      PROVE  OpenTickets'
  <2>1. Consume(i) /\ UNCHANGED <<flags, now>>
    BY <1>4 DEF SettleBuy, SettleSell
  <2>. QED BY <1>3, <2>1
<1>5. ASSUME NEW s \in Senders, NEW amount \in Amounts,
             BorrowForBuy(s, amount) \/ BorrowTokensForSell(s, amount)
      PROVE  OpenTickets'
  BY <1>5 DEF BorrowForBuy, BorrowTokensForSell, CanTrade, OpenTickets, flags
<1>6. ASSUME NEW s \in Senders, CloseSession(s) \/ ExpireRefund(s)
      PROVE  OpenTickets'
  BY <1>1, <1>2, <1>6
  DEF OpenTickets, CloseSession, ExpireRefund, Refund, Calls, Expired, ptb
<1>7. ASSUME Tick PROVE OpenTickets'
  BY <1>2, <1>7 DEF OpenTickets, Tick, ptb
<1>8. ASSUME UNCHANGED <<ptb, now, expiryMs>> PROVE OpenTickets'
  BY <1>8 DEF OpenTickets, ptb
<1>9. ASSUME NEW s \in Senders, RevokeSession(s) \/ SweepToken(s)
      PROVE  OpenTickets'
  BY <1>8, <1>9 DEF RevokeSession, SweepToken, flags
<1>10. ASSUME NEW s \in Senders, NEW amount \in Amounts, TopUpSession(s, amount)
       PROVE  OpenTickets'
  BY <1>8, <1>10 DEF TopUpSession, flags
<1>11. ASSUME NEW s \in Senders, NEW enabled \in BOOLEAN, SetUniversalTrading(s, enabled)
       PROVE  OpenTickets'
  BY <1>8, <1>11 DEF SetUniversalTrading
<1>12. ASSUME NEW s \in Senders,
              NEW amount \in Amounts, NEW other \in Amounts, NEW tokens \in Amounts,
              BuyWithSession(s, amount, other, tokens) \/ SellWithSession(s, tokens, other)
       PROVE  OpenTickets'
  BY <1>8, <1>12 DEF BuyWithSession, SellWithSession, flags
<1>13. CASE UNCHANGED vars
  BY <1>8, <1>13 DEF vars, flags
<1>. QED
  BY <1>4, <1>5, <1>6, <1>7, <1>9, <1>10, <1>11, <1>12, <1>13 DEF Next

\* The step of ClosedIsFinal, from the two invariants.
LEMMA ClosedStep ==
    ASSUME Owner # SessionKey, SessionKey \in Senders, IInv, OpenTickets, [Next]_vars,
           expiryMs = 0
    PROVE  /\ expiryMs' = 0
           /\ tickets = <<>> /\ tickets' = <<>>
           /\ spent' = spent
           /\ parked' <= parked
<1>1. tickets = <<>> /\ now \in Nat /\ parked \in Nat
  BY DEF IInv, TypeOK, OpenTickets
<1>2. ~(now < expiryMs) /\ DOMAIN tickets = {}
  BY <1>1
<1>3. \A s : ~CanTrade(s)
  BY <1>2 DEF CanTrade
<1>4. CASE UNCHANGED vars
  BY <1>1, <1>4 DEF vars, flags, ptb, tokensHeld
<1>5. CASE Tick
  BY <1>1, <1>5 DEF Tick, flags, ptb, tokensHeld
<1>6. ASSUME NEW s \in Senders,
             RevokeSession(s) \/ CloseSession(s) \/ ExpireRefund(s) \/ SweepToken(s)
      PROVE  /\ expiryMs' = 0 /\ tickets' = <<>> /\ spent' = spent /\ parked' <= parked
  BY <1>1, <1>6
  DEF RevokeSession, CloseSession, ExpireRefund, SweepToken, Refund, flags, ptb, tokensHeld
<1>7. ASSUME NEW s \in Senders, NEW amount \in Amounts, TopUpSession(s, amount)
      PROVE  /\ expiryMs' = 0 /\ tickets' = <<>> /\ spent' = spent /\ parked' <= parked
  BY <1>1, <1>7 DEF TopUpSession, flags, ptb, tokensHeld
<1>8. ASSUME NEW s \in Senders, NEW enabled \in BOOLEAN, SetUniversalTrading(s, enabled)
      PROVE  /\ expiryMs' = 0 /\ tickets' = <<>> /\ spent' = spent /\ parked' <= parked
  BY <1>1, <1>8 DEF SetUniversalTrading, ptb, tokensHeld
<1>. QED
  BY <1>1, <1>2, <1>3, <1>4, <1>5, <1>6, <1>7, <1>8
  DEF Next, BuyWithSession, SellWithSession, BorrowForBuy, BorrowTokensForSell

\* When the session key is not the owner's own address, a closed session is
\* out of reach of every trade, begun or yet to begin.
THEOREM ClosingIsFinal ==
    ASSUME Owner # SessionKey
    PROVE  Spec => ClosedIsFinal
<1> DEFINE Final == expiryMs = 0 =>
             /\ expiryMs' = 0
             /\ tickets = <<>> /\ tickets' = <<>>
             /\ spent' = spent
             /\ parked' <= parked
<1>1. SessionKey \in Senders
  BY DEF Senders
<1>2. Init => IInv /\ OpenTickets
  BY InitIInv DEF Init, OpenTickets
<1>3. IInv /\ OpenTickets /\ [Next]_vars => (IInv /\ OpenTickets)'
  BY <1>1, NextIInv, NextOpenTickets
<1>4. IInv /\ OpenTickets /\ [Next]_vars => [Final]_vars
  BY <1>1, ClosedStep
<1>5. Spec => [][Final]_vars
  BY <1>2, <1>3, <1>4, PTL DEF Spec
<1>6. QED
  BY <1>5, PTL DEF ClosedIsFinal
=============================================================================
