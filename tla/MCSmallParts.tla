---------------------------- MODULE MCSmallParts ----------------------------
(***************************************************************************)
(* The small parts of the system, side by side: the arithmetic, the        *)
(* vesting locks, the price publisher, the content bounty, bundle          *)
(* detection, the capabilities, the keys of sessions, and the orders that  *)
(* a page executes.  They share nothing, so a behaviour is one of one of   *)
(* them, the others staying as they were.                                  *)
(***************************************************************************)
EXTENDS MCCurveMath, VestingLocks, PricePublisher, ContentBounty, TokenBundles,
        GraduationAuthority, SessionKeys, TrancheOrders, FiniteSetsExt

CONSTANTS BuyTimes, BuyAmounts, MaxBuys

VARIABLES part, funderOf, buys

bundleVars == <<funderOf, buys>>

vars == <<part, input, vestingVars, priceVars, bountyVars, bundleVars, authorityVars,
          keyVars, trancheVars>>

Init ==
    /\ part \in {"arithmetic", "locks", "price", "bounty", "bundles", "authority", "keys",
                "tranches"}
    /\ input = 0 /\ VestingInit /\ PublisherInit /\ BountyInit /\ AuthorityInit /\ KeysInit
    /\ TrancheInit
    /\ funderOf = [w \in Wallets |-> None] /\ buys = {}
    /\ part = "price" \/ market = CHOOSE q \in Quotes : TRUE
    /\ pcrs = CHOOSE build \in Builds : TRUE

Arithmetic ==
    /\ part = "arithmetic" /\ NextInput
    /\ UNCHANGED <<part, vestingVars, priceVars, bountyVars, bundleVars, authorityVars, keyVars, trancheVars>>

Locks == /\ part = "locks" /\ VestingNext
         /\ UNCHANGED <<part, input, priceVars, bountyVars, bundleVars, authorityVars, keyVars, trancheVars>>

Price == /\ part = "price" /\ PublisherNext
         /\ UNCHANGED <<part, input, vestingVars, bountyVars, bundleVars, authorityVars, keyVars, trancheVars>>

Bounty == /\ part = "bounty" /\ BountyNext
          /\ UNCHANGED <<part, input, vestingVars, priceVars, bundleVars, authorityVars, keyVars, trancheVars>>

\* a funder becomes known, or another buy is indexed
Bundles ==
    /\ part = "bundles"
    /\ \/ \E w \in Wallets, f \in Funders :
             funderOf[w] = None /\ buys = {} /\ funderOf' = [funderOf EXCEPT ![w] = f] /\ UNCHANGED buys
       \/ /\ Cardinality(buys) < MaxBuys
          /\ \E b \in [buyer : Wallets, at : BuyTimes, amount : BuyAmounts] : buys' = buys \cup {b}
          /\ UNCHANGED funderOf
    /\ UNCHANGED <<part, input, vestingVars, priceVars, bountyVars, authorityVars, keyVars, trancheVars>>

Authority == /\ part = "authority" /\ AuthorityNext
             /\ UNCHANGED <<part, input, vestingVars, priceVars, bountyVars, bundleVars, keyVars, trancheVars>>

SigningKeys ==
    /\ part = "keys" /\ KeysNext
    /\ UNCHANGED <<part, input, vestingVars, priceVars, bountyVars, bundleVars, authorityVars,
                   trancheVars>>

Tranches ==
    /\ part = "tranches" /\ TrancheNext
    /\ UNCHANGED <<part, input, vestingVars, priceVars, bountyVars, bundleVars, authorityVars, keyVars>>

Next == \/ Arithmetic \/ Locks \/ Price \/ Bounty
        \/ Bundles \/ Authority \/ SigningKeys \/ Tranches

Spec == Init /\ [][Next]_vars

MCHeld == [h \in Holders |-> 7]
MCLimit == [id \in OrderIds |-> 1]

\* Union-find, with its path compression and whatever the order of the groups,
\* ends with the clusters that the funding, co-buy and equal-amount links
\* describe, and calls one a funding cluster when funding reaches it.
ClustersAreLinks == Clusters(funderOf, buys) = LinkedClusters(funderOf, buys)
=============================================================================
