---------------------------- MODULE TokenBundles ----------------------------
(***************************************************************************)
(* Bundle detection (indexer/bundles.js): wallets that share a funder, buy *)
(* at the same moment, or buy for the same amount are put together by      *)
(* union-find, and a cluster is what such links connect.  Balances, and    *)
(* the score that is computed from them, are left out.                     *)
(***************************************************************************)
EXTENDS Integers, Sequences, FiniteSets, FiniteSetsExt, SequencesExt

CONSTANTS
    Wallets, Funders, None,     \* None: the funder is not known, or there is none
    COBUY_BUCKET, LAUNCH_WINDOW, AMOUNT_WINDOW,
    MIN_FUNDING_WALLETS, MIN_TEMPORAL_WALLETS

ASSUME BundlesAssumption ==
    /\ IsFiniteSet(Wallets) /\ IsFiniteSet(Funders) /\ None \notin Funders
    /\ COBUY_BUCKET \in Nat \ {0} /\ {LAUNCH_WINDOW, AMOUNT_WINDOW} \subseteq Nat
    /\ {MIN_FUNDING_WALLETS, MIN_TEMPORAL_WALLETS} \subseteq Nat \ {0}

---------------------------------------------------------------------------
(* The three signals.  A buy is [buyer, at, amount], buys a set of them.   *)

FundingGroups(funderOf) ==
    {g \in {{w \in Wallets : funderOf[w] = f} : f \in Funders} :
        Cardinality(g) >= MIN_FUNDING_WALLETS}

Since(buys, b) == b.at - Min({x.at : x \in buys})

Within(buys, window) == {b \in buys : Since(buys, b) <= window}

\* the buyers of the buys that some key maps to the same
GroupsBy(key(_), buys) ==
    {g \in {{b.buyer : b \in {x \in buys : key(x) = k}} : k \in {key(x) : x \in buys}} :
        Cardinality(g) >= MIN_TEMPORAL_WALLETS}

TemporalGroups(buys) ==
    LET bucket(b) == Since(buys, b) \div COBUY_BUCKET
        amount(b) == b.amount
    IN  GroupsBy(bucket, Within(buys, LAUNCH_WINDOW))
          \cup GroupsBy(amount, Within(buys, AMOUNT_WINDOW))

---------------------------------------------------------------------------
(* Union-find: parent maps each wallet of a group to its parent, a root to *)
(* itself.                                                                 *)

Root(parent, w) ==
    LET root[x \in DOMAIN parent] == IF parent[x] = x THEN x ELSE root[parent[x]]
    IN  root[w]

\* ufFind hangs all it passed directly under the root
Found(parent, w) ==
    LET root == Root(parent, w)
        path[x \in DOMAIN parent] == IF x = root THEN {} ELSE {x} \cup path[parent[x]]
    IN  [x \in DOMAIN parent |-> IF x \in path[w] THEN root ELSE parent[x]]

Present(parent, ws) ==
    [x \in DOMAIN parent \cup ws |-> IF x \in DOMAIN parent THEN parent[x] ELSE x]

\* a, and not the root of a, is hung under the root of b
Union_mut(parent, a, b) ==
    LET found == Found(Found(Present(parent, {a, b}), a), b)
    IN  [found EXCEPT ![a] = Root(found, b)]

\* ufUnion
Union(parent, a, b) ==
    LET found == Found(Found(Present(parent, {a, b}), a), b)
    IN  [found EXCEPT ![Root(found, a)] = Root(found, b)]

\* each group's members are joined to its first
MergeGroup(parent, g) ==
    LET first == CHOOSE w \in g : TRUE
    IN  FoldLeft(LAMBDA p, w : Union(p, first, w), parent, SetToSeq(g))

Merged(funderOf, buys) ==
    FoldLeft(MergeGroup, [w \in {} |-> w],
             SetToSeq(FundingGroups(funderOf)) \o SetToSeq(TemporalGroups(buys)))

\* the wallets under each root; a cluster that funding reaches is of its kind
Clusters(funderOf, buys) ==
    LET parent   == Merged(funderOf, buys)
        funded   == UNION FundingGroups(funderOf)
        under(r) == {w \in DOMAIN parent : Root(parent, w) = r}
    IN  {[wallets |-> under(r),
          kind    |-> IF under(r) \cap funded # {} THEN "funding" ELSE "temporal"] :
         r \in {w \in DOMAIN parent : parent[w] = w}}

---------------------------------------------------------------------------
(* What the clusters should be *)

\* "Overlapping clusters merge" (bundles.js:55): the cluster of a wallet is the
\* least set around it that has all or nothing of every group.
LinkedClusters(funderOf, buys) ==
    LET groups    == FundingGroups(funderOf) \cup TemporalGroups(buys)
        closed    == {ws \in SUBSET Wallets : \A g \in groups : g \subseteq ws \/ g \cap ws = {}}
        around(w) == {v \in Wallets : \A ws \in closed : w \in ws => v \in ws}
        funded    == UNION FundingGroups(funderOf)
    IN  {[wallets |-> around(w),
          kind    |-> IF around(w) \cap funded # {} THEN "funding" ELSE "temporal"] :
         w \in UNION groups}
=============================================================================
