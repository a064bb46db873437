------------------------ MODULE GraduationAuthority ------------------------
(***************************************************************************)
(* Who may price and exit curves (contracts-v10/sources/bonding_curve.move)*)
(* The package comes to the chain by a fresh publish, which runs init, or  *)
(* as an upgrade, which does not and leaves the same to two calls of the   *)
(* AdminCap's holder, guarded by markers on the AdminCap.  A registry      *)
(* names the GraduationCap that works; rotating it mints another one.      *)
(***************************************************************************)
EXTENDS Naturals, Sequences, FiniteSets

CONSTANT MaxCaps        \* bound: GraduationCaps minted

ASSUME AuthorityAssumption == MaxCaps \in Nat

VARIABLES
    package,            \* "none", then "fresh" or "upgraded"
    markers,            \* on the AdminCap
    relayerCaps,        \* how many PriceRelayerCaps, and as many PriceConfigs
    minted,             \* how many GraduationCaps; they are 1 .. minted
    registries          \* each GraduationRegistry: its active_cap_id

authorityVars == <<package, markers, relayerCaps, minted, registries>>

AuthorityInit ==
    /\ package = "none" /\ markers = {}
    /\ relayerCaps = 0 /\ minted = 0 /\ registries = <<>>

MintsCap == /\ minted < MaxCaps
            /\ minted' = minted + 1

\* init before PREPUBLISH-2: without the markers
Publish_mut ==
    /\ package = "none" /\ package' = "fresh"
    /\ MintsCap
    /\ registries' = <<minted + 1>>
    /\ relayerCaps' = 1
    /\ UNCHANGED markers

Publish ==
    /\ package = "none" /\ package' = "fresh"
    /\ markers' = {"price", "graduation"}
    /\ MintsCap
    /\ registries' = <<minted + 1>>
    /\ relayerCaps' = 1

\* of a lineage that has called create_price_config already, or not
Upgrade == /\ package = "none" /\ package' = "upgraded"
           /\ markers' \in SUBSET {"price"}
           /\ relayerCaps' = Cardinality(markers')
           /\ UNCHANGED <<minted, registries>>

CreatePriceConfig ==
    /\ package # "none" /\ "price" \notin markers
    /\ markers' = markers \cup {"price"}
    /\ relayerCaps' = relayerCaps + 1
    /\ UNCHANGED <<package, minted, registries>>

InitGraduation ==
    /\ package # "none" /\ "graduation" \notin markers
    /\ markers' = markers \cup {"graduation"}
    /\ MintsCap
    /\ registries' = Append(registries, minted + 1)
    /\ UNCHANGED <<package, relayerCaps>>

RotateGraduationCap(r) ==
    /\ MintsCap
    /\ registries' = [registries EXCEPT ![r] = minted + 1]
    /\ UNCHANGED <<package, markers, relayerCaps>>

\* what the _with_cap calls assert; the caller names the registry
Accepted(cap) == \E r \in DOMAIN registries : registries[r] = cap

AuthorityNext ==
    \/ Publish \/ Upgrade \/ CreatePriceConfig \/ InitGraduation
    \/ \E r \in DOMAIN registries : RotateGraduationCap(r)

AuthoritySpec == AuthorityInit /\ [][AuthorityNext]_authorityVars

---------------------------------------------------------------------------
(* Properties *)

\* "EXACTLY ONE PriceConfig and EXACTLY ONE PriceRelayerCap per package, on BOTH
\* publish paths" (bonding_curve.move:413), and never more than one GraduationCap that works:
\* the one minted last, so that a rotated cap is dead for good, whatever
\* registry its holder names.
OneAuthority ==
    /\ relayerCaps <= 1
    /\ \A cap \in 1 .. minted : Accepted(cap) <=> cap = minted
=============================================================================
