-------------------------- MODULE ResolutionPolicy --------------------------
(***************************************************************************)
(* hns-resolution-policy: policy configurations and their conflicts, the   *)
(* ordered transport plan and the policy controller with its generation.   *)
(*                                                                         *)
(* Role bits are sets of role names; PolicyHost turns them into bits.      *)
(***************************************************************************)
EXTENDS Integers, Sequences

CONSTANT MaxGeneration        \* u64::MAX of the policy generation

ASSUME MaxGenerationAssumption == MaxGeneration \in Nat \ {0}

VARIABLE policy               \* PolicyController.current

-----------------------------------------------------------------------------
(* Configurations.                                                         *)

DnsRelayRequesterPolicy == {"Auto", "Disabled", "Required"}

ObliviousDnsPolicy == {"Required", "Preferred", "DirectRelayAllowed",
                       "Disabled"}

HnsrRole == {"client", "endpoint", "relay", "rendezvous"}

ProviderRole == {"dns_relay", "odoh_proxy", "odoh_target", "market_gossip"}

WireProfile == {"ShakescapeV1", "Official", "Auto"}

PolicyConfig ==
    [dns_relay_requester : DnsRelayRequesterPolicy,
     oblivious_dns : ObliviousDnsPolicy,
     hnsr : SUBSET HnsrRole,
     providers : SUBSET ProviderRole,
     wire_profile : WireProfile,
     authenticated_authoritative_doh : BOOLEAN,
     user_configured_recursive_hns_doh : BOOLEAN,
     allow_legacy_regtest_compatibility : BOOLEAN]

DefaultConfig ==
    [dns_relay_requester |-> "Auto",
     oblivious_dns |-> "DirectRelayAllowed",
     hnsr |-> {"client", "relay"},
     providers |-> {"odoh_proxy"},
     wire_profile |-> "Auto",
     authenticated_authoritative_doh |-> TRUE,
     user_configured_recursive_hns_doh |-> FALSE,
     allow_legacy_regtest_compatibility |-> TRUE]

\* PolicyConfig::validate
ValidConfig(config) ==
    ~ /\ config.oblivious_dns \in {"Required", "Preferred"}
      /\ config.dns_relay_requester = "Required"

\* Provider capabilities HNSR advertises (HnsrPolicy::provider_bits).
HnsrProviders(config) == config.hnsr \ {"client"}

-----------------------------------------------------------------------------
(* The transport plan.                                                     *)

ResolutionTransport ==
    {"DirectAuthoritativeUdp", "DirectAuthoritativeTcp",
     "AuthenticatedAuthoritativeDoh", "HandshakeP2pOdoh",
     "HandshakeP2pDnsRelay", "Unavailable", "ValidatingIcannDoh",
     "UserConfiguredRecursiveHnsDoh", "LocalHnsProof"}

RelayAllowed(config) ==
    /\ config.oblivious_dns \in {"DirectRelayAllowed", "Disabled"}
    /\ config.dns_relay_requester # "Disabled"

Pushed(condition, transport) == IF condition THEN <<transport>> ELSE <<>>

\* TransportPlan::for_policy
TransportPlan(config) ==
    <<"DirectAuthoritativeUdp", "DirectAuthoritativeTcp">>
    \o Pushed(config.authenticated_authoritative_doh,
              "AuthenticatedAuthoritativeDoh")
    \o Pushed(config.oblivious_dns # "Disabled", "HandshakeP2pOdoh")
    \o Pushed(RelayAllowed(config), "HandshakeP2pDnsRelay")
    \o Pushed(config.user_configured_recursive_hns_doh,
              "UserConfiguredRecursiveHnsDoh")

\* What TransportPlan::contains looks through.
PlanSet(config) ==
    LET plan == TransportPlan(config) IN {plan[i] : i \in DOMAIN plan}

-----------------------------------------------------------------------------
(* The controller.                                                         *)

PolicySnapshot(configs) == [generation : 1..MaxGeneration, config : configs]

\* PolicyController::admit
AdmitTransport(transport) == transport \in PlanSet(policy.config)

\* PolicyController::accept_completion
AcceptCompletion(admission) ==
    /\ admission.policy_generation = policy.generation
    /\ admission.transport \in PlanSet(policy.config)

\* The snapshot PolicyController::replace installs; an equal configuration
\* keeps the generation.
ReplacedBy(config) ==
    IF config = policy.config
    THEN policy
    ELSE [generation |-> policy.generation + 1, config |-> config]

\* PolicyController::replace succeeds on this generation and configuration.
CanReplace(expected, config) ==
    /\ expected = policy.generation
    /\ ValidConfig(config)
    /\ config # policy.config => policy.generation < MaxGeneration

Replace(expected, config) ==
    /\ CanReplace(expected, config)
    /\ policy' = ReplacedBy(config)

=============================================================================
