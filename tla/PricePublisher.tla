--------------------------- MODULE PricePublisher ---------------------------
(***************************************************************************)
(* The price publisher (indexer/price_publisher.js): a loop that asks      *)
(* three exchanges for SUI/USD and publishes the median, when enough of    *)
(* them answer and agree, to the PriceConfig the curves read.              *)
(*                                                                         *)
(* A push is built, signed and sent.  It uses the PriceRelayerCap, an      *)
(* owned object, at the version it has when the push is built; a push      *)
(* whose answer is lost may land any time until another one uses the cap.  *)
(***************************************************************************)
EXTENDS Integers, FiniteSets, FiniteSetsExt

CONSTANTS
    Sources,            \* the exchanges
    Broken,             \* those whose answers have nothing to do with the market
    Quotes,             \* the prices there are, in thousandths of a dollar
    MIN_SOURCES,
    MAX_SPREAD,         \* in percent
    MIN_PRICE_SCALED, MAX_PRICE_SCALED,
    MaxReadings         \* bound: how often the sources are asked

ASSUME PublisherAssumption ==
    /\ IsFiniteSet(Sources) /\ Broken \subseteq Sources
    /\ MIN_SOURCES \in Nat /\ Cardinality(Broken) < MIN_SOURCES
    /\ Quotes \subseteq Nat \ {0} /\ MAX_SPREAD \in Nat
    /\ {MIN_PRICE_SCALED, MAX_PRICE_SCALED, MaxReadings} \subseteq Nat

VARIABLES
    market,     \* what SUI costs
    publisher,  \* what the loop is about to do: "ask", "build" or "await"
    reading,    \* its last reading: the price it gave, the market, its number
    pushes,     \* the signed pushes that may still land
    capVersion, \* of the PriceRelayerCap
    config      \* the PriceConfig: the reading published last

priceVars == <<market, publisher, reading, pushes, capVersion, config>>

NoReading == [price |-> 0, market |-> 0, number |-> 0]

PublisherInit ==
    /\ market \in Quotes
    /\ publisher = "ask" /\ reading = NoReading
    /\ pushes = {} /\ capVersion = 0 /\ config = NoReading

MarketMoves == /\ market' \in Quotes \ {market}
               /\ UNCHANGED <<publisher, reading, pushes, capVersion, config>>

\* What the sources that answer may say: fetchOne drops those that time out or
\* answer nothing that parses to a price.
Answers == UNION {{a \in [who -> Quotes] : \A s \in who \ Broken : a[s] = market} :
                  who \in SUBSET Sources}

Prices(a) == {a[s] : s \in DOMAIN a}

\* The middle answer, or the mean of the middle two, rounded down.
Median(a) ==
    LET below(p) == Cardinality({s \in DOMAIN a : a[s] < p})
        upTo(p)  == Cardinality({s \in DOMAIN a : a[s] <= p})
        nth(k)   == CHOOSE p \in Prices(a) : below(p) <= k /\ k < upTo(p)
        n        == Cardinality(DOMAIN a)
    IN  IF n % 2 = 1 THEN nth(n \div 2)
        ELSE (nth(n \div 2 - 1) + nth(n \div 2)) \div 2

Confident_mut(a) ==
    /\ Cardinality(DOMAIN a) > 0
    /\ (Max(Prices(a)) - Min(Prices(a))) * 100 <= MAX_SPREAD * Min(Prices(a))
    /\ Median(a) \in MIN_PRICE_SCALED .. MAX_PRICE_SCALED

\* Enough sources, close to one another, and a price the contract accepts.
Confident(a) ==
    /\ Cardinality(DOMAIN a) >= MIN_SOURCES
    /\ (Max(Prices(a)) - Min(Prices(a))) * 100 <= MAX_SPREAD * Min(Prices(a))
    /\ Median(a) \in MIN_PRICE_SCALED .. MAX_PRICE_SCALED

\* A tick of the loop: when not confident it does nothing until the next one.
Ask == /\ publisher = "ask" /\ reading.number < MaxReadings
       /\ \E a \in Answers :
             /\ publisher' = IF Confident(a) THEN "build" ELSE "ask"
             /\ reading' = [price  |-> IF Confident(a) THEN Median(a) ELSE 0,
                            market |-> market,
                            number |-> reading.number + 1]
       /\ UNCHANGED <<market, pushes, capVersion, config>>

\* tx.build looks up the cap's version, and the transaction is sent.
Build == /\ publisher = "build"
         /\ publisher' = "await"
         /\ pushes' = pushes \cup {[reading |-> reading, version |-> capVersion]}
         /\ UNCHANGED <<market, reading, capVersion, config>>

Current(p) == p.version = capVersion

\* set_sui_price, for a push built on the current version of the cap; those
\* built on older ones can not land any more.
Land(p) == /\ Current(p)
           /\ config' = p.reading
           /\ capVersion' = capVersion + 1
           /\ pushes' = pushes \ {p}
           /\ UNCHANGED <<market, publisher, reading>>

\* The push was executed, refused, or nothing was heard of it: all the same to
\* the loop, which sleeps.  A failure to build ends the tick as well.
EndTick == /\ publisher \in {"build", "await"}
           /\ publisher' = "ask"
           /\ UNCHANGED <<market, reading, pushes, capVersion, config>>

PublisherNext == \/ MarketMoves \/ Ask \/ Build \/ EndTick
                 \/ \E p \in pushes : Land(p)

PublisherSpec == PublisherInit /\ [][PublisherNext]_priceVars

---------------------------------------------------------------------------
(* Properties *)

Gap(p) == IF p.price > p.market THEN p.price - p.market ELSE p.market - p.price

\* "never push a number we are not confident in" (price_publisher.js:17).  With
\* one source broken, whatever it says and whichever others fail, the price on
\* chain is within the spread of what SUI cost when it was read; and a push
\* that may still land is of a later reading than the one on chain.
PriceFollowsMarket ==
    /\ config.price # 0 => Gap(config) * 100 <= MAX_SPREAD * config.market
    /\ \A p \in pushes : Current(p) => p.reading.number > config.number
=============================================================================
