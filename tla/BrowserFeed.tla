---------------------------- MODULE BrowserFeed ----------------------------
(***************************************************************************)
(* What the indexer tells an open page, and the two strategies of the page *)
(* that trade on it: useCopyTrade.js mirrors the trades of watched         *)
(* wallets, useSniper.js buys launches.  processEvent announces every      *)
(* event it processes, stored before or not; the web service passes the    *)
(* announcement on to the connected pages (api.js, emitEvent).  Sizes and  *)
(* filters are left out, and so are the indexer's faults, which only make  *)
(* it read more of its events again.                                       *)
(***************************************************************************)
EXTENDS EventIndexer

CONSTANTS
    Wallets, Me,       \* those that may be watched; the page's trading wallet
    NoCurve,
    MaxEvents          \* bound of the model

VARIABLES
    open,       \* the hooks whose EventSource is connected
    inbox,      \* by hook: messages that have arrived, as positions of events
    watched,    \* the enabled targets of useCopyTrade
    seen,       \* its firingRef.current
    snipes,     \* handlers of useSniper: [n, at], in a lookup or buying
    sniping,    \* its sniping_.current
    traded      \* by event, the trades it has led to (history)

feedVars == <<open, inbox, watched, seen, snipes, sniping, traded>>
feedSpecVars == <<indexerVars, feedVars>>

Hooks  == {"copytrade", "sniper"}
Trades == {"TokensPurchased", "TokensSold"}

FeedInit ==
    /\ IndexerInit
    /\ open = {} /\ inbox = [hook \in Hooks |-> <<>>]
    /\ watched = Wallets /\ seen = {}
    /\ snipes = <<>> /\ sniping = NoCurve /\ traded = <<>>

---------------------------------------------------------------------------
(* The chain and the indexer *)

\* A wallet trades, or launches a curve.
Happens ==
    /\ Len(events) < MaxEvents
    /\ \E type \in Types, wallet \in Wallets \cup {Me} :
           Emits(<<[tx |-> NextTx, type |-> type, trader |-> wallet]>>)
    /\ traded' = Append(traded, 0)
    /\ UNCHANGED <<rows, cursor, phase, todo, streamed, lost, failures,
                   open, inbox, watched, seen, snipes, sniping>>

\* The web service writes to the pages connected when it hears of an event.
Announced(nodes) ==
    /\ inbox' = [hook \in Hooks |->
                    IF hook \in open
                    THEN inbox[hook] \o SelectSeq([n \in DOMAIN events |-> n],
                                                  LAMBDA n : n \in nodes)
                    ELSE inbox[hook]]
    /\ UNCHANGED <<open, watched, seen, snipes, sniping, traded>>

Process ==
    \/ \E i \in DOMAIN TypeOrder : ReadPage(i) /\ Announced(Page(TypeOrder[i]))
    \/ StreamDelivers /\ Announced(FirstOf(Checkpoint, CheckpointSize))
    \/ (BackfillDone \/ StreamOpens \/ StreamEnds) /\ UNCHANGED feedVars

---------------------------------------------------------------------------
(* The page *)

\* The sniper is enabled, or some target of useCopyTrade is.
Connect(hook) ==
    /\ hook \notin open /\ (hook = "copytrade" => watched # {})
    /\ open' = open \cup {hook}
    /\ UNCHANGED <<indexerVars, inbox, watched, seen, snipes, sniping, traded>>

\* An error, another configuration of the sniper, or it is disabled.
Disconnect(hook) ==
    /\ hook \in open
    /\ open' = open \ {hook} /\ inbox' = [inbox EXCEPT ![hook] = <<>>]
    /\ UNCHANGED <<indexerVars, watched, seen, snipes, sniping, traded>>

\* A target is enabled or disabled, and the EventSource opened anew.
ToggleTarget(wallet) ==
    /\ watched' = IF wallet \in watched THEN watched \ {wallet} ELSE watched \cup {wallet}
    /\ open' = open \ {"copytrade"} /\ inbox' = [inbox EXCEPT !["copytrade"] = <<>>]
    /\ UNCHANGED <<indexerVars, seen, snipes, sniping, traded>>

\* The message the page gets: the digest goes by this name.
Message(n) == [type |-> events[n].type, digest |-> n, data |-> events[n]]

\* event.txDigest ?? d.tx_digest ?? '' : at most one element.
DigestOf(message) ==
    {message[f] : f \in DOMAIN message \cap {"txDigest"}} \cup
    {message.data[f] : f \in DOMAIN message.data \cap {"tx_digest"}}

Mirrored(message) ==
    /\ message.type \in Trades
    /\ DigestOf(message) \cap seen = {}
    /\ message.data.trader \in watched \ {Me}

\* The handlers share only firingRef, which they use before their first await.
\* The lookup of the token or the trade may fail, which ends the handler.
CopyTradeMessage ==
    /\ inbox["copytrade"] # <<>>
    /\ LET n == Head(inbox["copytrade"])
       IN  /\ seen' = IF Message(n).type \in Trades
                      THEN seen \cup DigestOf(Message(n)) ELSE seen
           /\ \/ Mirrored(Message(n)) /\ traded' = [traded EXCEPT ![n] = @ + 1]
              \/ UNCHANGED traded
    /\ inbox' = [inbox EXCEPT !["copytrade"] = Tail(@)]
    /\ UNCHANGED <<indexerVars, open, watched, snipes, sniping>>

\* After thirty seconds a digest may be mirrored again.
Forget(digest) ==
    /\ digest \in seen
    /\ seen' = seen \ {digest}
    /\ UNCHANGED <<indexerVars, open, inbox, watched, snipes, sniping, traded>>

\* A launch that passes the filters is looked up, if no other is being bought.
SniperMessage ==
    /\ inbox["sniper"] # <<>>
    /\ LET n == Head(inbox["sniper"])
       IN  \/ /\ events[n].type = "CurveCreated" /\ sniping = NoCurve
              /\ snipes' = Append(snipes, [n |-> n, at |-> "lookup"])
           \/ UNCHANGED snipes
    /\ inbox' = [inbox EXCEPT !["sniper"] = Tail(@)]
    /\ UNCHANGED <<indexerVars, open, watched, seen, sniping, traded>>

WithoutSnipe(k) == SubSeq(snipes, 1, k - 1) \o SubSeq(snipes, k + 1, Len(snipes))

\* The lookup is answered: executeSnipe, if it is not on this very curve already.
SnipeStarts(k) ==
    /\ snipes[k].at = "lookup"
    /\ \/ /\ sniping # snipes[k].n
          /\ sniping' = snipes[k].n /\ snipes' = [snipes EXCEPT ![k].at = "buying"]
       \/ snipes' = WithoutSnipe(k) /\ UNCHANGED sniping
    /\ UNCHANGED <<indexerVars, open, inbox, watched, seen, traded>>

\* The buy lands or fails; the finally clause.
SnipeEnds(k) ==
    /\ snipes[k].at = "buying"
    /\ sniping' = NoCurve /\ snipes' = WithoutSnipe(k)
    /\ \/ traded' = [traded EXCEPT ![snipes[k].n] = @ + 1]
       \/ UNCHANGED traded
    /\ UNCHANGED <<indexerVars, open, inbox, watched, seen>>

FeedNext ==
    \/ Happens \/ Process
    \/ \E hook \in Hooks : Connect(hook) \/ Disconnect(hook)
    \/ \E wallet \in Wallets : ToggleTarget(wallet)
    \/ CopyTradeMessage \/ SniperMessage
    \/ \E digest \in seen : Forget(digest)
    \/ \E k \in DOMAIN snipes : SnipeStarts(k) \/ SnipeEnds(k)

FeedSpec == FeedInit /\ [][FeedNext]_feedSpecVars

---------------------------------------------------------------------------
(* Properties *)

\* "Dedupe by tx digest" (useCopyTrade.js:229): an event of the chain makes the
\* page trade at most once, however often the indexer comes by it.
EventTradedOnce == \A n \in DOMAIN traded : traded[n] <= 1
=============================================================================
