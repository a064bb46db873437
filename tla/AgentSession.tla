---------------------------- MODULE AgentSession ----------------------------
(***************************************************************************)
(* One AgentSession shared object of                                       *)
(* contracts-v10/sources/agent_session.move: an escrow the owner funds and *)
(* a session key trades with, up to a net-exposure cap and until an        *)
(* expiry.  A transaction may hold several calls; the hot-potato tickets   *)
(* of the universal path force it to go on until each is settled, and no   *)
(* other transaction, nor the clock, intervenes meanwhile.  What a venue   *)
(* pays or refunds is any amount: the module cannot check it.  Tokens of   *)
(* one type stand for all.                                                 *)
(***************************************************************************)
EXTENDS Integers, Sequences

CONSTANTS
    Owner, SessionKey, Others,   \* senders of transactions
    NoSender,
    Amounts,                     \* the amounts calls are made with
    Deposit, SpendCap, Expiry,   \* arguments of open_session
    MaxTime, MaxEscrow, MaxParked, MaxTickets  \* bounds of the model, not of the code

Senders == {Owner, SessionKey} \cup Others

ASSUME SessionAssumption ==
    /\ NoSender \notin Senders
    /\ Amounts \subseteq Nat
    /\ Deposit \in Nat /\ SpendCap \in Nat
    /\ Expiry \in Nat \ {0}      \* EZeroExpiry
    /\ MaxTime \in Nat /\ MaxEscrow \in Nat /\ MaxParked \in Nat /\ MaxTickets \in Nat

VARIABLES
    escrow, spent, expiryMs, revoked,
    field, parked, \* the dynamic object field for the tokens: is there one, its value
    universal,     \* the UNIVERSAL_TRADING_KEY marker
    tickets,       \* TradeTickets of the transaction under way
    sender,        \* its sender, NoSender between transactions
    ownerNet,      \* what the owner has deposited less what was refunded
    now

flags == <<expiryMs, revoked, universal>>
ptb   == <<tickets, sender>>
tokensHeld == <<field, parked>>
vars  == <<escrow, spent, tokensHeld, flags, ptb, ownerNet, now>>

\* open_session.
Init ==
    /\ escrow = Deposit /\ spent = 0 /\ expiryMs = Expiry /\ revoked = FALSE
    /\ field = FALSE /\ parked = 0 /\ universal = FALSE
    /\ tickets = <<>> /\ sender = NoSender
    /\ ownerNet = Deposit /\ now = 0

---------------------------------------------------------------------------
(* Guards and helpers *)

\* s can make the next call: no other transaction is under way.
Calls(s) == sender \in {NoSender, s}

\* The key alone, once the session has been opened.
CanTrade_mut(s) == s = SessionKey

\* assert_can_trade.
CanTrade(s) ==
    /\ s = SessionKey
    /\ ~revoked
    /\ now < expiryMs

\* The cap limits each call, not their sum.
WithinCap_mut(amount) == SpendCap > 0 => amount <= SpendCap

WithinCap(amount) == SpendCap > 0 => spent + amount <= SpendCap

\* A credit without the clamp.
Credited_mut(exposure, amount) == exposure - amount

\* credit_spent: what remains of the exposure, never below zero.
Credited(exposure, amount) == IF amount > exposure THEN 0 ELSE exposure - amount

\* park_tokens: nothing is parked, and no field made, for zero tokens.
ParkTokens(tokens) ==
    /\ parked + tokens <= MaxParked
    /\ parked' = parked + tokens
    /\ field' = (field \/ tokens > 0)

\* Tokens split off the field, which stays even when emptied.
TakeTokens(tokens) ==
    /\ field
    /\ tokens <= parked
    /\ parked' = parked - tokens
    /\ field' = field

---------------------------------------------------------------------------
(* The session key trades on the curve *)

\* buy_with_session: the curve refunds part of the payment, if any.
BuyWithSession(s, amount, refund, tokens) ==
    /\ Calls(s) /\ CanTrade(s)
    /\ escrow >= amount
    /\ WithinCap(amount)
    /\ amount > 0 /\ tokens > 0 /\ refund <= amount       \* buy()
    /\ escrow' = escrow - amount + refund
    /\ ParkTokens(tokens)
    /\ spent' = Credited(spent + amount, refund)
    /\ UNCHANGED <<flags, ptb, ownerNet, now>>

SellWithSession(s, tokens, proceeds) ==
    /\ Calls(s) /\ CanTrade(s)
    /\ tokens > 0                                         \* sell()
    /\ TakeTokens(tokens)
    /\ escrow + proceeds <= MaxEscrow
    /\ escrow' = escrow + proceeds
    /\ spent' = Credited(spent, proceeds)
    /\ UNCHANGED <<flags, ptb, ownerNet, now>>

---------------------------------------------------------------------------
(* Universal trading: borrow, trade anywhere, settle, in one transaction *)

SetUniversalTrading(s, enabled) ==
    /\ Calls(s) /\ s = Owner
    /\ universal' = enabled
    /\ UNCHANGED <<escrow, spent, tokensHeld, expiryMs, revoked, ptb, ownerNet, now>>

\* The borrow is charged when it settles.
Charged_mut(amount) == spent

\* A borrow is charged in full at once.
Charged(amount) == spent + amount

BorrowForBuy(s, amount) ==
    /\ Calls(s) /\ CanTrade(s)
    /\ universal
    /\ escrow >= amount
    /\ WithinCap(amount)
    /\ Len(tickets) < MaxTickets
    /\ spent' = Charged(amount)
    /\ escrow' = escrow - amount
    /\ tickets' = Append(tickets, [kind |-> "buy", borrowed |-> amount])
    /\ sender' = s
    /\ UNCHANGED <<tokensHeld, flags, ownerNet, now>>

BorrowTokensForSell(s, tokens) ==
    /\ Calls(s) /\ CanTrade(s)
    /\ universal
    /\ TakeTokens(tokens)
    /\ Len(tickets) < MaxTickets
    /\ tickets' = Append(tickets, [kind |-> "sell", borrowed |-> tokens])
    /\ sender' = s
    /\ UNCHANGED <<escrow, spent, flags, ownerNet, now>>

\* The ticket is consumed; with the last one the transaction can end.
Consume(i) ==
    /\ tickets' = SubSeq(tickets, 1, i - 1) \o SubSeq(tickets, i + 1, Len(tickets))
    /\ sender' = IF Len(tickets) = 1 THEN NoSender ELSE sender

SettleBuy(i, leftover, tokens) ==
    LET borrowed == tickets[i].borrowed
    IN  /\ tickets[i].kind = "buy"
        /\ escrow + leftover <= MaxEscrow
        /\ escrow' = escrow + leftover
        /\ spent' = Credited(spent, IF leftover > borrowed THEN borrowed ELSE leftover)
        /\ ParkTokens(tokens)
        /\ Consume(i)
        /\ UNCHANGED <<flags, ownerNet, now>>

SettleSell(i, proceeds, leftoverTokens) ==
    /\ tickets[i].kind = "sell"
    /\ escrow + proceeds <= MaxEscrow
    /\ escrow' = escrow + proceeds
    /\ spent' = Credited(spent, proceeds)
    /\ ParkTokens(leftoverTokens)
    /\ Consume(i)
    /\ UNCHANGED <<flags, ownerNet, now>>

---------------------------------------------------------------------------
(* The owner, and the refund anyone can trigger *)

TopUpSession(s, amount) ==
    /\ Calls(s) /\ s = Owner
    /\ escrow + amount <= MaxEscrow
    /\ escrow' = escrow + amount
    /\ ownerNet' = ownerNet + amount
    /\ UNCHANGED <<spent, tokensHeld, flags, ptb, now>>

RevokeSession(s) ==
    /\ Calls(s) /\ s = Owner
    /\ revoked' = TRUE
    /\ UNCHANGED <<escrow, spent, tokensHeld, expiryMs, universal, ptb, ownerNet, now>>

\* What close_session and expire_refund share: the CLOSED sentinel, and the
\* whole escrow to the owner.
Refund ==
    /\ revoked' = TRUE
    /\ expiryMs' = 0
    /\ escrow' = 0
    /\ ownerNet' = ownerNet - escrow
    /\ UNCHANGED <<spent, tokensHeld, universal, ptb, now>>

CloseSession(s) == Calls(s) /\ s = Owner /\ Refund

\* A session its owner has revoked waits for its owner.
Expired_mut == now >= expiryMs /\ ~revoked

Expired == now >= expiryMs

ExpireRefund(s) == Calls(s) /\ Expired /\ Refund

SweepToken(s) ==
    /\ Calls(s) /\ s = Owner
    /\ field
    /\ field' = FALSE
    /\ parked' = 0
    /\ UNCHANGED <<escrow, spent, flags, ptb, ownerNet, now>>

Tick ==
    /\ sender = NoSender
    /\ now < MaxTime
    /\ now' = now + 1
    /\ UNCHANGED <<escrow, spent, tokensHeld, flags, ptb, ownerNet>>

---------------------------------------------------------------------------

Next ==
    \/ \E s \in Senders, amount, other, tokens \in Amounts :
          BuyWithSession(s, amount, other, tokens)
    \/ \E s \in Senders, tokens, proceeds \in Amounts :
          SellWithSession(s, tokens, proceeds)
    \/ \E s \in Senders, enabled \in BOOLEAN : SetUniversalTrading(s, enabled)
    \/ \E s \in Senders, amount \in Amounts :
          \/ BorrowForBuy(s, amount)
          \/ BorrowTokensForSell(s, amount)
          \/ TopUpSession(s, amount)
    \/ \E i \in DOMAIN tickets, back, tokens \in Amounts :
          \/ SettleBuy(i, back, tokens)
          \/ SettleSell(i, back, tokens)
    \/ \E s \in Senders :
          \/ RevokeSession(s) \/ CloseSession(s) \/ ExpireRefund(s) \/ SweepToken(s)
    \/ Tick

Spec == Init /\ [][Next]_vars

\* A transaction that has begun ends, time passes, and somebody calls
\* expire_refund, which is open to everyone and stays so until it is called.
FairSpec ==
    /\ Spec
    /\ WF_vars(Tick)
    /\ WF_vars(\E i \in DOMAIN tickets, back, tokens \in Amounts :
                  SettleBuy(i, back, tokens) \/ SettleSell(i, back, tokens))
    /\ WF_vars(\E s \in Senders : escrow > 0 /\ ExpireRefund(s))

---------------------------------------------------------------------------
(* Properties *)

TicketType == [kind : {"buy", "sell"}, borrowed : Nat]

TypeOK ==
    /\ escrow \in Nat /\ spent \in Nat /\ parked \in Nat /\ ownerNet \in Int
    /\ expiryMs \in Nat /\ now \in Nat
    /\ field \in BOOLEAN /\ (field \/ parked = 0)
    /\ revoked \in BOOLEAN /\ universal \in BOOLEAN
    /\ tickets \in Seq(TicketType)
    /\ sender \in Senders \cup {NoSender}
    /\ tickets = <<>> <=> sender = NoSender

\* What the session has out of the owner's SUI, less all that came back.
Outstanding == ownerNet - escrow

\* "spend_cap reads as 'max SUI the agent may have deployed at any moment'":
\* through any sequence of buys, sells, nested borrows and settlements, with
\* whatever the venues or a donor return, the SUI missing from the owner's
\* escrow is covered by the exposure counted in spent, itself within the cap.
LossWithinCap ==
    /\ Outstanding <= spent
    /\ SpendCap > 0 => spent <= SpendCap

\* A closed session (the expiry_ms = 0 sentinel) is never reopened, no trade
\* touches it again, and none was left half done when it closed: a borrow and
\* a close never share a transaction, whoever sends it.
ClosedIsFinal ==
    [][expiryMs = 0 =>
         /\ expiryMs' = 0
         /\ tickets = <<>> /\ tickets' = <<>>
         /\ spent' = spent
         /\ parked' <= parked]_vars

\* The owner has the escrow back some time after the expiry, even if the owner
\* is gone and the key is lost or revoked.
OwnerGetsEscrowBack == now >= expiryMs ~> escrow = 0
=============================================================================
