---------------------------- MODULE SessionKeys ----------------------------
(***************************************************************************)
(* The keys that sign for agent sessions, from birth to the sweep of their *)
(* gas.  A key is minted at Turnkey for one owner, or is the one key of    *)
(* the enclave, gone when the enclave restarts (enclave/src/main.rs); the  *)
(* chain approves enclave keys (enclave_registry.move), and the page opens *)
(* sessions that name a key (AgentPage.jsx, agent_session.move).  The      *)
(* bridge (bridge.js, turnkey_signer.js) has a row per key, bound to a     *)
(* session by the first trade.  Both backends are configured; the map of   *)
(* keys in the environment and the drain of legacy sessions are left out.  *)
(***************************************************************************)
EXTENDS Naturals, Sequences, FiniteSets

CONSTANTS
    Owners,
    Builds,             \* enclave images, told apart by their PCRs
    MaxKeys, MaxSessions    \* bounds

ASSUME KeysAssumption ==
    /\ "turnkey" \notin Builds /\ Builds # {} /\ {MaxKeys, MaxSessions} \subseteq Nat

VARIABLES
    born,               \* of each key: at Turnkey, or in an enclave of a build
    enclave,            \* the key of the enclave that runs, 0 if none does
    pcrs, approved,     \* the EnclaveRegistry
    accepted,           \* the builds whose PCRs it has held (history)
    signers,            \* session_signers, by key
    answered,           \* what provisioning has answered to the page
    sessions,           \* the AgentSession objects
    gas,                \* at a key's address, and which owner granted it
    returned            \* the gas swept: from whom and to whom (history)

keyVars == <<born, enclave, pcrs, approved, accepted, signers, answered, sessions, gas, returned>>

Keys == DOMAIN born

KeysInit ==
    /\ born = <<>> /\ enclave = 0
    /\ pcrs \in Builds /\ approved = {} /\ accepted = {pcrs}
    /\ signers = [k \in {} |-> 0] /\ answered = {}
    /\ sessions = <<>> /\ gas = {} /\ returned = {}

---------------------------------------------------------------------------
(* The enclave and the registry *)

\* A first start, a restart or a new image: the old key is lost.
EnclaveStarts(build) ==
    /\ Len(born) < MaxKeys
    /\ born' = Append(born, build)
    /\ enclave' = Len(born')
    /\ UNCHANGED <<pcrs, approved, accepted, signers, answered, sessions, gas, returned>>

UpdatePcrs(build) ==
    /\ build # pcrs /\ pcrs' = build
    /\ accepted' = accepted \cup {build}
    /\ UNCHANGED <<born, enclave, approved, signers, answered, sessions, gas, returned>>

\* Any attestation the framework finds genuine, of a key that need not live.
MatchesPcrs(k) == born[k] = pcrs

RegisterEnclaveKey(k) ==
    /\ born[k] \in Builds /\ MatchesPcrs(k) /\ k \notin approved
    /\ approved' = approved \cup {k}
    /\ UNCHANGED <<born, enclave, pcrs, accepted, signers, answered, sessions, gas, returned>>

RevokeKey(k) ==
    /\ k \in approved /\ approved' = approved \ {k}
    /\ UNCHANGED <<born, enclave, pcrs, accepted, signers, answered, sessions, gas, returned>>

---------------------------------------------------------------------------
(* Provisioning a key and opening a session with it *)

\* ON CONFLICT DO NOTHING: a shared key stays with the first who asked for it.
Inserted(k, o, isEnclave) ==
    [j \in DOMAIN signers \cup {k} |->
        IF j \in DOMAIN signers THEN signers[j]
        ELSE [owner |-> o, session |-> 0, isEnclave |-> isEnclave]]

\* The row is written, and the answer reaches the page or not.
Provisions(k, o, isEnclave) ==
    /\ signers' = Inserted(k, o, isEnclave)
    /\ answered' \in {answered, answered \cup {[owner |-> o, key |-> k, attested |-> isEnclave]}}

ProvisionTurnkey(o) ==
    /\ Len(born) < MaxKeys
    /\ born' = Append(born, "turnkey")
    /\ Provisions(Len(born'), o, FALSE)
    /\ UNCHANGED <<enclave, pcrs, approved, accepted, sessions, gas, returned>>

\* The enclave's key is read, not made.
ProvisionEnclave(o) ==
    /\ enclave # 0
    /\ Provisions(enclave, o, TRUE)
    /\ UNCHANGED <<born, enclave, pcrs, approved, accepted, sessions, gas, returned>>

\* doOpen: one transaction that grants the gas and opens the session, the
\* attested one if the registry approves its key.
Open(a) ==
    /\ a \in answered /\ Len(sessions) < MaxSessions
    /\ a.attested => a.key \in approved
    /\ sessions' = Append(sessions, [owner |-> a.owner, key |-> a.key, attested |-> a.attested])
    /\ gas' = gas \cup {[key |-> a.key, owner |-> a.owner]}
    /\ answered' = answered \ {a}
    /\ UNCHANGED <<born, enclave, pcrs, approved, accepted, signers, returned>>

---------------------------------------------------------------------------
(* Signing *)

BoundTo(s) == {k \in DOMAIN signers : signers[k].session = s}

\* The row of the key the session names, if no other session has it.
Bindable(s) == {k \in DOMAIN signers : k = sessions[s].key /\ signers[k].session \in {0, s}}

\* A bound row is read without is_enclave, so that its key passes for one at
\* Turnkey; only the UPDATE that binds it returns the flag.
TurnkeyKeyForSession(s) ==
    IF BoundTo(s) # {} THEN [key : BoundTo(s), enclave : {FALSE}]
    ELSE {[key |-> k, enclave |-> signers[k].isEnclave] : k \in Bindable(s)}

\* Each backend signs with its own keys; another signature is refused here.
Signs(signer) == IF signer.enclave THEN enclave = signer.key ELSE born[signer.key] = "turnkey"

\* /session-buy, /session-sell: the binding stays, whether the key signs or not.
TradeRequested(s) ==
    /\ BoundTo(s) = {} /\ Bindable(s) # {}
    /\ signers' = [k \in DOMAIN signers |->
           IF k \in Bindable(s) THEN [signers[k] EXCEPT !.session = s] ELSE signers[k]]
    /\ UNCHANGED <<born, enclave, pcrs, approved, accepted, answered, sessions, gas, returned>>

---------------------------------------------------------------------------
(* /sweep-session-gas, for an owner of the session *)

RowOf(s) == IF BoundTo(s) # {} THEN BoundTo(s) ELSE DOMAIN signers \cap {sessions[s].key}

Sweepable_mut(k) == TRUE

Sweepable(k) == ~signers[k].isEnclave

SweepSessionGas(s) ==
    \E k \in RowOf(s) :
        LET there == {g \in gas : g.key = k}
        IN  /\ Sweepable(k) /\ there # {}
            /\ gas' = gas \ there
            /\ returned' = returned \cup {[from |-> g.owner, to |-> signers[k].owner] : g \in there}
            /\ UNCHANGED <<born, enclave, pcrs, approved, accepted, signers, answered, sessions>>

KeysNext ==
    \/ \E build \in Builds : EnclaveStarts(build) \/ UpdatePcrs(build)
    \/ \E k \in Keys : RegisterEnclaveKey(k) \/ RevokeKey(k)
    \/ \E o \in Owners : ProvisionTurnkey(o) \/ ProvisionEnclave(o)
    \/ \E a \in answered : Open(a)
    \/ \E s \in DOMAIN sessions : TradeRequested(s) \/ SweepSessionGas(s)

KeysSpec == KeysInit /\ [][KeysNext]_keyVars

---------------------------------------------------------------------------
(* Properties *)

\* Though owners share the enclave's key and keys die with it, a row is bound
\* to a session only if that session names its key; the gas at an address goes
\* back to none but the owner who granted it; and an attested session's key was
\* born in a build that was published, whatever was registered, revoked and
\* updated since.
KeysStayWithOwners ==
    /\ \A k \in DOMAIN signers :
          signers[k].session # 0 => sessions[signers[k].session].key = k
    /\ \A r \in returned : r.from = r.to
    /\ \A s \in DOMAIN sessions : sessions[s].attested => born[sessions[s].key] \in accepted

\* "every enclave-mode session shares that attested key" (bridge.js:916), and
\* "a key tagged { enclave: true } routes to ENCLAVE_SIGNER_URL"
\* (turnkey_signer.js:71): a session whose key lives finds it, and can sign.
LivingKeysSign ==
    \A s \in DOMAIN sessions :
        born[sessions[s].key] = "turnkey" \/ enclave = sessions[s].key
            => \E signer \in TurnkeyKeyForSession(s) : Signs(signer)
=============================================================================
