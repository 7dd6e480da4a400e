----------------------------- MODULE PolicyHost -----------------------------
(***************************************************************************)
(* The persisted policy of hns-resolution-policy: 32 bytes in one of three *)
(* schemas.  A blob is the record of its fields; `sealed' says whether     *)
(* magic, length and CRC agree with them.                                  *)
(***************************************************************************)
EXTENDS ResolutionPolicy, TLC

-----------------------------------------------------------------------------
(* Bytes of the typed fields.                                              *)

RelayCode == [Auto |-> 0, Disabled |-> 1, Required |-> 2]
ObliviousCode == [Required |-> 0, Preferred |-> 1, DirectRelayAllowed |-> 2,
                  Disabled |-> 3]
WireCode == [ShakescapeV1 |-> 0, Official |-> 1, Auto |-> 2]
HnsrBit == [client |-> 1, endpoint |-> 2, relay |-> 4, rendezvous |-> 8]
ProviderBit == [dns_relay |-> 1, odoh_proxy |-> 2, odoh_target |-> 4,
                market_gossip |-> 8]

HasBit(bits, bit) == (bits \div bit) % 2 = 1

\* A set of flags as bits: every flag has a bit of its own, so adding is or.
FlagBits(flags, weight) ==
    CHOOSE n \in 0..15 :
            \A f \in DOMAIN weight : HasBit(n, weight[f]) <=> f \in flags

FlagsOf(bits, weight) == {f \in DOMAIN weight : HasBit(bits, weight[f])}

\* The value whose code is c, if some value has it (TryFrom<u8>).
Decodes(c, code) == \E v \in DOMAIN code : code[v] = c
Decoded(c, code) == CHOOSE v \in DOMAIN code : code[v] = c

\* legacy_hnsr_policy: schema 1 stored one of seven modes.
LegacyHnsr == <<{}, {"client"}, {"endpoint"}, {"relay"}, {"rendezvous"},
                {"client", "endpoint"}, HnsrRole>>

-----------------------------------------------------------------------------
(* PolicySnapshot::encode and PolicySnapshot::decode.                      *)

PERSISTED_SCHEMA == 3
LEGACY_PERSISTED_SCHEMA == 1

SettingsBits(config) ==
    (IF config.authenticated_authoritative_doh THEN 1 ELSE 0)
    + (IF config.allow_legacy_regtest_compatibility THEN 2 ELSE 0)
    + (IF config.user_configured_recursive_hns_doh THEN 4 ELSE 0)

Encode(snapshot) ==
    LET config == snapshot.config
    IN  [sealed |-> TRUE,
         schema |-> PERSISTED_SCHEMA,
         generation |-> snapshot.generation,
         relay |-> RelayCode[config.dns_relay_requester],
         oblivious |-> ObliviousCode[config.oblivious_dns],
         hnsr |-> FlagBits(config.hnsr, HnsrBit),
         wire |-> WireCode[config.wire_profile],
         providers |-> FlagBits(config.providers, ProviderBit),
         settings |-> SettingsBits(config)]

\* The configuration decode builds once every field has been accepted.
BlobConfig(b) ==
    [dns_relay_requester |-> Decoded(b.relay, RelayCode),
     oblivious_dns |-> Decoded(b.oblivious, ObliviousCode),
     hnsr |-> IF b.schema = LEGACY_PERSISTED_SCHEMA
              THEN LegacyHnsr[b.hnsr + 1] ELSE FlagsOf(b.hnsr, HnsrBit),
     providers |-> FlagsOf(b.providers, ProviderBit),
     wire_profile |-> Decoded(b.wire, WireCode),
     authenticated_authoritative_doh |-> HasBit(b.settings, 1),
     user_configured_recursive_hns_doh |->
        b.schema = PERSISTED_SCHEMA /\ HasBit(b.settings, 4),
     allow_legacy_regtest_compatibility |-> HasBit(b.settings, 2)]

KnownBits(b) ==
    /\ b.settings < (IF b.schema = PERSISTED_SCHEMA THEN 8 ELSE 4)
    /\ b.hnsr < (IF b.schema = LEGACY_PERSISTED_SCHEMA THEN 7 ELSE 16)
    /\ b.providers < 16

Accepts(b) ==
    /\ b.sealed
    /\ b.schema \in 1..3
    /\ b.generation # 0
    /\ KnownBits(b)
    /\ Decodes(b.relay, RelayCode)
    /\ Decodes(b.oblivious, ObliviousCode)
    /\ Decodes(b.wire, WireCode)
    /\ ValidConfig(BlobConfig(b))

Decode(b) == [generation |-> b.generation, config |-> BlobConfig(b)]

-----------------------------------------------------------------------------
(***************************************************************************)
(* A policy and the process around it.  A change of policy is two things   *)
(* in hns-resolution-policy: the new snapshot, installed at once, and the  *)
(* effects the adapters have to carry out (PolicyChangeEffects).  The      *)
(* adapters run later, may be several changes behind, and go on working    *)
(* under the policy of the moment.  The policy outlives the process as a   *)
(* blob, which the host writes when it likes and the next start reads.     *)
(***************************************************************************)

CONSTANTS FoundBlob,          \* blobs found at the first process start
          UserConfig          \* configurations a user may switch to

VARIABLES blob,               \* the bytes on disk
          loaded,             \* whether this process start accepted them
          effects,            \* effects of the changes not yet carried out
          selections,         \* cached requester path selections
          advertised,         \* provider roles advertised to peers
          routes,             \* HNSR routes announced
          targets,            \* ODoH target configurations in force
          negotiated          \* service bits of the open connections

host == <<selections, advertised, routes, targets, negotiated>>
hostVars == <<policy, blob, loaded, effects, host>>

-----------------------------------------------------------------------------
(* What a configuration allows the adapters to hold.                       *)

Paths(config) ==
    PlanSet(config) \cup (IF "client" \in config.hnsr THEN {"Hnsr"} ELSE {})

Roles(config) == config.providers \cup HnsrProviders(config)

ServiceBits(config) == <<Roles(config), config.wire_profile>>

-----------------------------------------------------------------------------
(* transition_effects                                                      *)

\* Mutant of RequesterChanged: the user's consent to a recursive resolver is
\* not a requester setting.
RequesterChangedForgetsConsent(old, new) ==
    \/ old.dns_relay_requester # new.dns_relay_requester
    \/ old.oblivious_dns # new.oblivious_dns
    \/ old.authenticated_authoritative_doh
            # new.authenticated_authoritative_doh
    \/ ("client" \in old.hnsr) # ("client" \in new.hnsr)

RequesterChanged(old, new) ==
    \/ old.dns_relay_requester # new.dns_relay_requester
    \/ old.oblivious_dns # new.oblivious_dns
    \/ old.authenticated_authoritative_doh
            # new.authenticated_authoritative_doh
    \/ old.user_configured_recursive_hns_doh
            # new.user_configured_recursive_hns_doh
    \/ ("client" \in old.hnsr) # ("client" \in new.hnsr)

TransitionEffects(old, new) ==
    {"stop_admitting_disabled_work", "cancel_or_drain_inflight",
     "update_structured_status"}
    \cup (IF RequesterChanged(old, new)
          THEN {"clear_requester_selections"} ELSE {})
    \cup (IF ~(Roles(old) \subseteq Roles(new))
          THEN {"withdraw_advertisements"} ELSE {})
    \cup (IF ~(HnsrProviders(old) \subseteq HnsrProviders(new))
          THEN {"withdraw_hnsr_routes"} ELSE {})
    \cup (IF "odoh_target" \in old.providers \ new.providers
          THEN {"revoke_target_configurations"} ELSE {})
    \cup (IF ServiceBits(old) # ServiceBits(new)
          THEN {"renegotiate_peer_connections"} ELSE {})

-----------------------------------------------------------------------------
HostInit ==
    /\ blob \in FoundBlob
    /\ policy = [generation |-> 1, config |-> DefaultConfig]
    /\ loaded = FALSE
    /\ effects = <<>>
    /\ selections = {} /\ advertised = {} /\ routes = {} /\ targets = {}
    /\ negotiated = ServiceBits(DefaultConfig)

\* The adapters of a process that starts, or is gone.
ResetHost ==
    /\ effects' = <<>>
    /\ selections' = {} /\ advertised' = {} /\ routes' = {} /\ targets' = {}
    /\ negotiated' = ServiceBits(policy'.config)

\* Engine::from_persisted: a rejected blob starts no engine.
Load ==
    /\ ~loaded
    /\ Accepts(blob)
    /\ policy' = Decode(blob)
    /\ loaded' = TRUE
    /\ ResetHost
    /\ UNCHANGED blob

\* Engine::export_policy, written out by the host.
Save ==
    /\ loaded
    /\ blob' = Encode(policy)
    /\ UNCHANGED <<policy, loaded, effects, host>>

\* The process ends, and with it an update that was not saved and everything
\* the adapters held.
Crash ==
    /\ loaded
    /\ loaded' = FALSE
    /\ UNCHANGED <<policy, blob>>
    /\ ResetHost

\* PolicyController::replace, and the transition handed to the adapters.
SwitchPolicy(config) ==
    /\ loaded
    /\ Replace(policy.generation, config)
    /\ effects' = IF config = policy.config THEN effects
                  ELSE Append(effects,
                              TransitionEffects(policy.config, config))
    /\ UNCHANGED <<blob, loaded, host>>

\* The adapters carry out the oldest outstanding transition; what they keep
\* or announce again is what the current policy allows.
CarryOut ==
    /\ effects # <<>>
    /\ LET due == Head(effects)
       IN  /\ selections' = IF "clear_requester_selections" \in due
                            THEN {} ELSE selections
           /\ advertised' = IF "withdraw_advertisements" \in due
                            THEN advertised \cap Roles(policy.config)
                            ELSE advertised
           /\ routes' = IF "withdraw_hnsr_routes" \in due
                        THEN routes \cap HnsrProviders(policy.config)
                        ELSE routes
           /\ targets' = IF "revoke_target_configurations" \in due
                         THEN targets \cap policy.config.providers
                         ELSE targets
           /\ negotiated' = IF "renegotiate_peer_connections" \in due
                            THEN ServiceBits(policy.config) ELSE negotiated
    /\ effects' = Tail(effects)
    /\ UNCHANGED <<policy, blob, loaded>>

\* New work is admitted under the policy of the moment.
Select(path) ==
    /\ loaded
    /\ path \in Paths(policy.config)
    /\ selections' = selections \cup {path}
    /\ UNCHANGED <<policy, blob, loaded, effects, advertised, routes, targets,
                   negotiated>>

Announce ==
    /\ loaded
    /\ advertised' = Roles(policy.config)
    /\ routes' = HnsrProviders(policy.config)
    /\ targets' = policy.config.providers \cap {"odoh_target"}
    /\ UNCHANGED <<policy, blob, loaded, effects, selections, negotiated>>

HostStep ==
    \/ Load
    \/ Save
    \/ Crash
    \/ \E config \in UserConfig : SwitchPolicy(config)
    \/ CarryOut
    \/ \E path \in ResolutionTransport \cup {"Hnsr"} : Select(path)
    \/ Announce


-----------------------------------------------------------------------------
(* Properties.                                                             *)

\* transition_effects is complete: whatever changes came in whatever order,
\* once the adapters have caught up nothing they hold, announce or negotiated
\* is outside the policy in force.
SettledHostObeysPolicy ==
    loaded /\ effects = <<>> =>
        /\ selections \subseteq Paths(policy.config)
        /\ advertised \subseteq Roles(policy.config)
        /\ routes \subseteq HnsrProviders(policy.config)
        /\ targets \subseteq policy.config.providers
        /\ negotiated = ServiceBits(policy.config)

\* The encoding is exact both ways: what encode writes, decode accepts and
\* reads back unchanged, whichever schema the policy came from; and a blob of
\* the current schema that decode accepts is the one encode writes for that
\* policy, so that no unknown bit survives a load.  Only configurations free of
\* conflicts are ever in force, from disk or by an update.
EncodingIsExact ==
    /\ ValidConfig(policy.config)
    /\ Accepts(Encode(policy)) /\ Decode(Encode(policy)) = policy
    /\ Accepts(blob) /\ blob.schema = PERSISTED_SCHEMA
          => Encode(Decode(blob)) = blob

-----------------------------------------------------------------------------
(***************************************************************************)
(* hns-dane-engine-ffi: the engine behind C functions.  A host creates an   *)
(* engine, its threads read the policy into a C structure of version 1 or   *)
(* 2, change a field and write it back, list the transports one call at a   *)
(* time, admit queries and present answers.  Every call returns a status    *)
(* and writes its outputs only with Ok, and every thread may be overtaken   *)
(* by the others between two calls.                                         *)
(*                                                                         *)
(* Handles are live and outputs writable, as the functions require; "null"  *)
(* is the one pointer error they look for.  The authority states and the    *)
(* runtime's counters are Engine's: here a call finds the authority ready   *)
(* or not.                                                                  *)
(***************************************************************************)

CONSTANTS Thread,             \* threads of the host
          Version1,           \* the threads that know policy version 1 only
          MaxEngines          \* bound on the engines created

Record == INSTANCE StatusRecords WITH MAX_UNSUPPORTED_EVIDENCE <- 0

VARIABLES threads,            \* what each thread holds
          engines,            \* engines created so far: the last one's session
          returned,           \* the last call and its status
          installed           \* the last policy written, and what it was written over

abi == <<threads, engines, returned, installed>>
Nothing == [structure |-> <<>>, basis |-> <<>>, edited |-> FALSE, count |-> 0, listed |-> <<>>, since |-> 0,
            attempt |-> <<>>]

-----------------------------------------------------------------------------
(* Structures.                                                             *)

Bool(b) == IF b THEN 1 ELSE 0
Structure(snapshot, version) ==
  LET config == snapshot.config
  IN [size |-> version, abi_version |-> version, generation |-> snapshot.generation,
      dns_relay_requester |-> RelayCode[config.dns_relay_requester],
      oblivious_dns |-> ObliviousCode[config.oblivious_dns],
      hnsr |-> FlagBits(config.hnsr, HnsrBit), wire_profile |-> WireCode[config.wire_profile],
      authenticated_authoritative_doh |-> Bool(config.authenticated_authoritative_doh),
      allow_legacy_regtest_compatibility |-> Bool(config.allow_legacy_regtest_compatibility),
      provider_flags |-> FlagBits(config.providers, ProviderBit), reserved |-> 0]
policy_to_ffi_v1(snapshot) == Structure(snapshot, 1)
policy_to_ffi_v2(snapshot) ==
  Structure(snapshot, 2) @@ [user_configured_recursive_hns_doh |-> Bool(snapshot.config.user_configured_recursive_hns_doh)]

map_policy_error(error) ==
  CASE error = "StaleGeneration" -> "StaleGeneration"
    [] error = "TransportDisabled" -> "TransportDisabled"
    [] error = "UnverifiedEvidence" -> "EvidenceRejected"
    [] error \in {"InvalidEncoding", "UnsupportedSchema", "ChecksumMismatch", "ZeroGeneration", "ConflictingPolicies"} ->
         "InvalidArgument"
    [] OTHER -> "Internal"
map_engine_error(error) ==
  CASE error \in {"AuthorityNotReady", "InvalidAuthorityTransition"} -> "AuthorityNotReady"
    [] error = "StaleRuntimeGeneration" -> "StaleGeneration"
    [] error \in {"ResponseAttemptMismatch", "UnsuccessfulDnsResponse", "Wire"} -> "DnsRejected"
    [] error = "Dane" -> "EvidenceRejected"
    [] error \in {"ExpectedTlsaQuery", "InvalidRuntimeSession", "MissingTransportIdentity", "InvalidTransportIdentity",
                  "ProxyTargetNotSeparated", "InvalidCompletionContext"} -> "InvalidArgument"
    [] OTHER -> map_policy_error(error)

\* What both versions of policy_from_ffi refuse, and the configuration they read.
StructureStatus(s, version) ==
  IF \/ s.size # version \/ s.abi_version # version \/ s.reserved # 0 \/ s.provider_flags > 15
     \/ s.authenticated_authoritative_doh > 1 \/ s.allow_legacy_regtest_compatibility > 1
  THEN "AbiMismatch"
  ELSE IF /\ Decodes(s.dns_relay_requester, RelayCode) /\ Decodes(s.oblivious_dns, ObliviousCode)
          /\ s.hnsr < 16 /\ Decodes(s.wire_profile, WireCode)
       THEN "Ok" ELSE map_policy_error("InvalidEncoding")
StructureConfig(s, consent) ==
  [dns_relay_requester |-> Decoded(s.dns_relay_requester, RelayCode),
   oblivious_dns |-> Decoded(s.oblivious_dns, ObliviousCode),
   hnsr |-> FlagsOf(s.hnsr, HnsrBit), providers |-> FlagsOf(s.provider_flags, ProviderBit),
   wire_profile |-> Decoded(s.wire_profile, WireCode),
   authenticated_authoritative_doh |-> s.authenticated_authoritative_doh # 0,
   user_configured_recursive_hns_doh |-> consent,
   allow_legacy_regtest_compatibility |-> s.allow_legacy_regtest_compatibility # 0]
policy_from_ffi_v1(s) == [status |-> StructureStatus(s, 1), config |-> <<s, FALSE>>]
policy_from_ffi_v2(s) ==
  [status |-> IF s.user_configured_recursive_hns_doh > 1 THEN "AbiMismatch" ELSE StructureStatus(s, 2),
   config |-> <<s, s.user_configured_recursive_hns_doh # 0>>]

EffectBit == [stop_admitting_disabled_work |-> 1, cancel_or_drain_inflight |-> 2, clear_requester_selections |-> 4,
              withdraw_advertisements |-> 8, withdraw_hnsr_routes |-> 16, revoke_target_configurations |-> 32,
              renegotiate_peer_connections |-> 64, update_structured_status |-> 128]
EffectsOf(bits) == {e \in DOMAIN EffectBit : HasBit(bits, EffectBit[e])}
effects_to_bits(due) == CHOOSE n \in 0..255 : \A e \in DOMAIN EffectBit : HasBit(n, EffectBit[e]) <=> e \in due

-----------------------------------------------------------------------------
(* Engines.                                                                *)

Returns(call, status) == returned' = [call |-> call, status |-> status, effects |-> 0]

\* hns_dane_engine_v1_create: session bytes, a network code and a blob or none.
CreateStatus(zero, code, empty) ==
  IF code > 3 \/ zero THEN "InvalidArgument"
  ELSE IF empty \/ Accepts(blob) THEN "Ok" ELSE "InvalidArgument"
Create(zero, code, empty) ==
  LET status == CreateStatus(zero, code, empty)
  IN /\ ~loaded /\ engines < MaxEngines
     /\ Returns("create", status)
     /\ IF status = "Ok"
        THEN /\ policy' = IF empty THEN [generation |-> 1, config |-> DefaultConfig] ELSE Decode(blob)
             /\ loaded' = TRUE /\ engines' = engines + 1
             /\ ResetHost
        ELSE UNCHANGED <<policy, loaded, engines, effects, host>>
     /\ UNCHANGED <<blob, threads, installed>>

\* hns_dane_engine_v1_destroy, when no thread is in a call; attempts outlive it.
Destroy ==
  /\ loaded
  /\ loaded' = FALSE
  /\ threads' = [t \in Thread |-> [Nothing EXCEPT !.attempt = threads[t].attempt]]
  /\ installed' = <<>>
  /\ Returns("destroy", "Ok")
  /\ UNCHANGED <<policy, blob, engines>>
  /\ ResetHost

\* hns_dane_engine_v1_export_policy into a buffer, and the host saving what it holds.
CopyStatus(length, capacity, null) ==
  IF capacity < length THEN "BufferTooSmall" ELSE IF null THEN "NullPointer" ELSE "Ok"
Export(capacity, null) ==
  /\ loaded
  /\ LET status == CopyStatus(1, capacity, null)
     IN /\ Returns("export", status)
        /\ blob' = IF status = "Ok" THEN Encode(policy) ELSE blob
  /\ UNCHANGED <<policy, loaded, effects, host, threads, engines, installed>>

-----------------------------------------------------------------------------
(* Policies.                                                               *)

\* hns_dane_engine_v1_get_policy: version 1 has no field for the user's consent and
\* refuses to read a policy that has it.
get_policy_v1 == IF policy.config.user_configured_recursive_hns_doh THEN <<>> ELSE <<policy_to_ffi_v1(policy)>>
\* hns_dane_engine_v2_get_policy
get_policy_v2 == <<policy_to_ffi_v2(policy)>>
GetPolicy(t) ==
  /\ loaded
  /\ threads[t].structure = <<>>
  /\ LET read == IF t \in Version1 THEN get_policy_v1 ELSE get_policy_v2
     IN IF read = <<>>
        THEN Returns("get", "AbiMismatch") /\ UNCHANGED threads
        ELSE /\ Returns("get", "Ok")
             /\ threads' = [threads EXCEPT ![t].structure = read, ![t].basis = <<policy>>, ![t].edited = FALSE]
  /\ UNCHANGED <<policy, blob, loaded, effects, host, engines, installed>>

\* The thread changes one field of its structure.
EditStructure(t, field, value) ==
  /\ threads[t].structure # <<>>
  /\ ~threads[t].edited
  /\ field \in DOMAIN threads[t].structure[1]
  /\ threads' = [threads EXCEPT ![t].structure[1][field] = value, ![t].edited = TRUE]
  /\ UNCHANGED <<policy, blob, loaded, effects, host, engines, returned, installed>>

\* Mutant of UpdateStatus: the generation the structure was read at is not compared.
UpdateStatusAnyGeneration(generation, config) ==
  IF ~ValidConfig(config) THEN map_policy_error("ConflictingPolicies")
  ELSE IF config # policy.config /\ policy.generation = MaxGeneration THEN map_policy_error("GenerationExhausted")
  ELSE "Ok"

\* Engine::update_policy as its status.
UpdateStatus(generation, config) ==
  IF generation # policy.generation THEN map_policy_error("StaleGeneration")
  ELSE IF ~ValidConfig(config) THEN map_policy_error("ConflictingPolicies")
  ELSE IF config # policy.config /\ policy.generation = MaxGeneration THEN map_policy_error("GenerationExhausted")
  ELSE "Ok"

\* hns_dane_engine_v1_set_policy and hns_dane_engine_v2_set_policy; the host hands the
\* effects it reads from the bits to its adapters.
SetPolicy(t) ==
  /\ loaded
  /\ threads[t].structure # <<>>
  /\ LET s == threads[t].structure[1]
         read == IF t \in Version1 THEN policy_from_ffi_v1(s) ELSE policy_from_ffi_v2(s)
         config == StructureConfig(read.config[1], read.config[2])
         status == IF read.status # "Ok" THEN read.status ELSE UpdateStatus(s.generation, config)
         due == IF config = policy.config THEN {} ELSE TransitionEffects(policy.config, config)
     IN IF status = "Ok"
        THEN /\ returned' = [call |-> "set", status |-> status, effects |-> effects_to_bits(due)]
             /\ effects' = IF due = {} THEN effects ELSE Append(effects, EffectsOf(returned'.effects))
             /\ policy' = ReplacedBy(config)
             /\ installed' = <<[over |-> policy, basis |-> threads[t].basis[1], structure |-> s,
                                generation |-> policy'.generation, due |-> due]>>
        ELSE Returns("set", status) /\ UNCHANGED <<policy, effects, installed>>
  /\ threads' = [threads EXCEPT ![t].structure = <<>>, ![t].basis = <<>>]
  /\ UNCHANGED <<blob, loaded, host, engines>>

-----------------------------------------------------------------------------
(* Transports and attempts.                                                *)

Plan == TransportPlan(policy.config)

\* hns_dane_engine_v1_transport_count
TransportCount(t) ==
  /\ loaded
  /\ Returns("count", "Ok")
  /\ threads' = [threads EXCEPT ![t].count = Len(Plan), ![t].listed = <<>>, ![t].since = policy.generation]
  /\ UNCHANGED <<policy, blob, loaded, effects, host, engines, installed>>

\* hns_dane_engine_v1_transport_at for the next index; past the end of a plan that has
\* become shorter the thread gives the list up.
TransportAt(t) ==
  LET index == Len(threads[t].listed) + 1
  IN /\ loaded
     /\ index <= threads[t].count
     /\ IF index <= Len(Plan)
        THEN Returns("at", "Ok") /\ threads' = [threads EXCEPT ![t].listed = Append(@, Plan[index])]
        ELSE Returns("at", "InvalidArgument") /\ threads' = [threads EXCEPT ![t].count = 0]
     /\ UNCHANGED <<policy, blob, loaded, effects, host, engines, installed>>

\* hns_dane_engine_v1_admit of a well-formed query; the attempt belongs to the thread.
AdmitAttempt(t, transport, named, ready) ==
  LET status == IF ~named THEN "InvalidArgument"
                ELSE IF ~ready THEN map_engine_error("AuthorityNotReady")
                ELSE IF ~AdmitTransport(transport) THEN map_engine_error("TransportDisabled") ELSE "Ok"
  IN /\ loaded
     /\ \E i \in DOMAIN threads[t].listed : threads[t].listed[i] = transport
     /\ Returns("admit", status)
     /\ threads' = IF status # "Ok" THEN threads
                   ELSE [threads EXCEPT ![t].attempt = <<[session |-> engines, transport |-> transport,
                                                          policy_generation |-> policy.generation]>>]
     /\ UNCHANGED <<policy, blob, loaded, effects, host, engines, installed>>

\* Prerequisite bits: HNS proof, DNSSEC, currency and SNI may be asserted, the bits of
\* TLSA and DANE may not.
PREREQUISITES_ALL_VERIFIED == {0, 1, 4, 5}
decode_identity(text) ==
  CASE text = "" -> <<Record!None>> [] text \in {"too long", "not UTF-8"} -> <<>> [] OTHER -> <<text>>
context_from_ffi(c) ==
  IF c.size # 1 \/ c.reserved # 0 \/ c.direct_relay_fallback > 1 THEN [status |-> "AbiMismatch"]
  ELSE IF \E r \in {"peer", "proxy", "target"} : decode_identity(c[r]) = <<>> THEN [status |-> "InvalidArgument"]
  ELSE [status |-> "Ok", peer |-> decode_identity(c.peer)[1], proxy |-> decode_identity(c.proxy)[1],
        target |-> decode_identity(c.target)[1], direct_relay_fallback |-> c.direct_relay_fallback # 0]

\* ensure_current: the engine that admitted the attempt, under the policy of now.
AttemptStatus(a) ==
  IF a.session # engines THEN map_engine_error("StaleRuntimeGeneration")
  ELSE IF AcceptCompletion(a) THEN "Ok" ELSE map_engine_error("StaleGeneration")

\* complete_resolution_with_local_dane on an answer.
CompletionStatus(a, answer, mask, context) ==
  IF answer.rcode # 0 THEN map_engine_error("UnsuccessfulDnsResponse")
  ELSE IF ~answer.asked_tlsa THEN map_engine_error("ExpectedTlsaQuery")
  ELSE IF mask # PREREQUISITES_ALL_VERIFIED THEN map_engine_error("UnverifiedEvidence")
  ELSE IF ~answer.matches THEN map_engine_error("Dane")
  ELSE LET e == Record!validate_completion_context(a.transport, context)
       IN IF e # "none" THEN map_engine_error(e)
          ELSE IF ~answer.ready THEN map_engine_error("AuthorityNotReady") ELSE "Ok"

\* hns_dane_engine_v1_validate_response; a null context is the default one.
ValidateStatus(a, answer, mask, context) ==
  IF AttemptStatus(a) # "Ok" THEN AttemptStatus(a)
  ELSE IF ~answer.correlated THEN map_engine_error("Wire")
  ELSE IF ~(mask \subseteq PREREQUISITES_ALL_VERIFIED) THEN "InvalidArgument"
  ELSE LET c == IF context = <<>> THEN [status |-> "Ok"] @@ Record!NoIdentities ELSE context_from_ffi(context[1])
       IN IF c.status # "Ok" THEN c.status ELSE CompletionStatus(a, answer, mask, c)
Validate(t, answer, mask, context) ==
  /\ loaded
  /\ threads[t].attempt # <<>>
  /\ Returns("validate", ValidateStatus(threads[t].attempt[1], answer, mask, context))
  /\ UNCHANGED <<policy, blob, loaded, effects, host, threads, engines, installed>>

-----------------------------------------------------------------------------
AbiInit == /\ threads = [t \in Thread |-> Nothing] /\ engines = 0 /\ installed = <<>>
           /\ returned = [call |-> "none", status |-> "Ok", effects |-> 0]

-----------------------------------------------------------------------------
(* Properties.                                                             *)

\* Read, change, write back: a policy is only ever written over the one its thread
\* had read, so no thread undoes what another did in between; what is in force is
\* what the structure said, in every field version 1 or 2 has, and the consent that
\* version 1 cannot show is never set or lost by a thread that did not see it.  The
\* effects the host is told of are those of the change.
WritesOverWhatWasRead ==
  \A i \in DOMAIN installed :
    LET w == installed[i]
        one == w.structure.abi_version = 1
    IN /\ w.over = w.basis
       /\ policy.generation = w.generation =>
            LET again == IF one THEN policy_to_ffi_v1(policy) ELSE policy_to_ffi_v2(policy)
            IN [again EXCEPT !.generation = w.structure.generation] = w.structure
       /\ one => w.over.config.user_configured_recursive_hns_doh = FALSE
       /\ one /\ policy.generation = w.generation => ~policy.config.user_configured_recursive_hns_doh
       /\ returned.call = "set" /\ returned.status = "Ok" =>
            EffectsOf(returned.effects) = w.due

\* A list of transports gathered without a change of policy is the plan, and whatever
\* a thread gathered and kept, an attempt answers Ok only in the engine that admitted
\* it, under the policy it was admitted by.
ListsAndAttemptsAreCurrent ==
  \A t \in Thread :
    /\ loaded /\ threads[t].since = policy.generation =>
         threads[t].listed = SubSeq(Plan, 1, Len(threads[t].listed))
    /\ \A i \in DOMAIN threads[t].attempt :
         LET a == threads[t].attempt[i]
         IN loaded /\ AttemptStatus(a) = "Ok" =>
              a.session = engines /\ a.transport \in PlanSet(policy.config) /\ a.policy_generation = policy.generation

\* A validated answer rests on the four assertions of the caller and on none of the
\* two the engine derives, and its intermediaries are those of its transport.
ValidatedIsAsserted(a, answer, mask, context) ==
  ValidateStatus(a, answer, mask, context) = "Ok" =>
    /\ mask = {0, 1, 4, 5} /\ answer.matches /\ answer.rcode = 0
    /\ IF context = <<>> THEN ~Record!is_experimental_p2p(a.transport)
       ELSE CASE a.transport = "HandshakeP2pOdoh" ->
                   "" \notin {context[1].proxy, context[1].target} /\ context[1].proxy # context[1].target /\ context[1].peer = ""
              [] a.transport = "HandshakeP2pDnsRelay" ->
                   context[1].peer # "" /\ {context[1].proxy, context[1].target} = {""}
              [] OTHER -> {context[1].peer, context[1].proxy, context[1].target} = {""}
=============================================================================
