--------------------------- MODULE LaunchLifecycle ---------------------------
(***************************************************************************)
(* What a launch promises the people who fund it, without saying how: the  *)
(* SUI behind the token is traded against while the launch is open; it     *)
(* graduates once, with enough SUI behind it to seed a pool; that SUI and  *)
(* the pool's tokens then leave together, once, and nothing refills it.    *)
(* BondingCurve implements this specification.                             *)
(***************************************************************************)
EXTENDS Integers

CONSTANTS PoolTokens,   \* tokens minted for the pool
          MinPoolSui    \* a pool is never seeded with less

VARIABLES phase,        \* "open", "graduated" or "exited"
          backing,      \* SUI behind the token
          poolMint      \* pool tokens minted so far

lifecycle == <<phase, backing, poolMint>>

LifecycleInit == phase = "open" /\ backing = 0 /\ poolMint = 0

Trade == /\ phase = "open"
         /\ backing' \in Nat
         /\ UNCHANGED <<phase, poolMint>>

\* Graduation, with the last trade or on its own.
Graduation == /\ phase = "open"
              /\ phase' = "graduated"
              /\ backing' \in Nat /\ backing' >= MinPoolSui
              /\ UNCHANGED poolMint

Exit == /\ phase = "graduated"
        /\ phase' = "exited"
        /\ backing' = 0
        /\ poolMint' = poolMint + PoolTokens

LifecycleNext == Trade \/ Graduation \/ Exit

LifecycleSpec == LifecycleInit /\ [][LifecycleNext]_lifecycle
=============================================================================
