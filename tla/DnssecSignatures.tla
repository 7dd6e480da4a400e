-------------------------- MODULE DnssecSignatures --------------------------
(***************************************************************************)
(* Signed record sets: verify_rrset and the keys a DS authenticates in     *)
(* hns-dnssec, which keeps how long the evidence holds, and the same        *)
(* questions in hns-browser-dnssec, which answers Secure,                   *)
(* InsecureDelegation, Bogus or an error.                                   *)
(*                                                                         *)
(* A record, of class IN, is [owner, type, ttl, data]; its data is a tuple, *)
(* <<"key", id>> for a DNSKEY, <<"ds", id, digest, owner>> for the DS that  *)
(* digests owner and the key id, <<"name", n>> for a record that holds a    *)
(* name and <<"NAME", n>> for the same in capitals.  KeyOf(id) is            *)
(* [algorithm, tag, zone, revoked, valid, sound]: the DNSKEY's flags,        *)
(* whether its protocol is DNSSEC's and whether its key material fits its   *)
(* algorithm.  A signature is [owner, parsed, covers, algorithm, labels,    *)
(* original_ttl, inception, expiration, tag, signer, ttl, by, over]: the    *)
(* key that made it and the bytes it was made over.                         *)
(***************************************************************************)
EXTENDS Naturals, Sequences, SequencesExt, FiniteSets, FiniteSetsExt, Checks

CONSTANTS KeyOf(_),
          Supported,             \* the algorithms that can be verified
          SupportedDigests,
          Wrap,                  \* one past the largest time of a signature (2^32)
          max_rrset_records, max_signatures, max_keys

-----------------------------------------------------------------------------
(* hns-dnssec.                                                              *)

serial_le(left, right) == left = right \/ (right + Wrap - left) % Wrap < Wrap \div 2
serial_in_window(now, inception, expiration) == serial_le(inception, now) /\ serial_le(now, expiration)

rrset_expires_at(records, signature, time) ==
    Min({time + Min({signature.ttl, signature.original_ttl} \cup {records[i].ttl : i \in DOMAIN records}),
         time + ((signature.expiration + Wrap - time) % Wrap) + 1})
records_expire_at(records, time) ==
    time + (IF records = <<>> THEN 0 ELSE Min({records[i].ttl : i \in DOMAIN records}))

\* A name loses its capitals; data that is not of its type has no canonical form.
canonical_rdata(record) == IF record.data[1] = "NAME" THEN <<"name", record.data[2]>> ELSE record.data
Canonical(records) == \A i \in DOMAIN records : records[i].data # <<"malformed">>
canonical_owner(owner, labels) ==
    IF labels < Len(owner) THEN <<"*">> \o SubSeq(owner, Len(owner) - labels + 1, Len(owner)) ELSE owner

\* The signature's own fields, and the sorted records under its TTL: a record that is
\* there twice is signed twice.
canonical_signed_data(records, s) ==
    LET canonical(i) == <<canonical_owner(records[i].owner, s.labels), records[i].type, canonical_rdata(records[i])>>
    IN <<s.covers, s.algorithm, s.labels, s.original_ttl, s.expiration, s.inception, s.tag, s.signer,
         {<<canonical(i), Cardinality({j \in DOMAIN records : canonical(j) = canonical(i)})>> : i \in DOMAIN records}>>

IsUsableKey(k) == k.valid /\ ~k.revoked
verify_signature(s, id, records) == KeyOf(id).sound /\ s.by = id /\ s.over = canonical_signed_data(records, s)
\* dnskey_for the signer, of the signature's algorithm and tag.
IsKeyFor(record, signature) ==
    /\ record.owner = signature.signer /\ record.type = "DNSKEY"
    /\ LET k == KeyOf(record.data[2])
       IN IsUsableKey(k) /\ k.algorithm = signature.algorithm /\ k.tag = signature.tag

Failed(error) == [error |-> error, owner |-> <<>>, type |-> "", observed |-> 0, expires |-> 0]
rrsig_for(s, owner, type) == s.owner = owner /\ s.covers = type

verify_rrset(records, signatures, keys, time) ==
    LET first == records[1]
        covering == SelectSeq(signatures, LAMBDA s : rrsig_for(s, first.owner, first.type) /\ s.labels = Len(first.owner))
        current == SelectSeq(covering, LAMBDA s : serial_in_window(time, s.inception, s.expiration))
        supported == SelectSeq(current, LAMBDA s : s.algorithm \in Supported)
        keyed == SelectSeq(supported, LAMBDA s : \E i \in DOMAIN keys : IsKeyFor(keys[i], s))
        good == SelectSeq(keyed, LAMBDA s : \E i \in DOMAIN keys :
                                               IsKeyFor(keys[i], s) /\ verify_signature(s, keys[i].data[2], records))
        error == FirstError(<<
            <<records # <<>>, "EmptyRrset">>,
            <<Len(records) <= max_rrset_records /\ Len(signatures) <= max_signatures /\ Len(keys) <= max_keys, "Limit">>,
            <<records # <<>> => /\ first.type \notin {"RRSIG", "OPT"}
                                /\ \A i \in DOMAIN records :
                                     records[i].owner = first.owner /\ records[i].type = first.type,
              "RrsetMismatch">>,
            <<records # <<>> => covering # <<>>, "MissingSignature">>,
            <<records # <<>> => current # <<>>, "SignatureTime">>,
            <<records # <<>> => supported # <<>>, "UnsupportedAlgorithm">>,
            <<Canonical(records), "UnsupportedRdata">>,
            <<records # <<>> => keyed # <<>>, "MissingKey">>,
            <<records # <<>> => good # <<>>, "SignatureMismatch">>>>)
    IN IF error # "none" THEN Failed(error)
       ELSE [error |-> "none", owner |-> first.owner, type |-> first.type, observed |-> time,
             expires |-> rrset_expires_at(records, good[1], time)]

IsFreshAt(evidence, now) == evidence.observed <= now /\ now < evidence.expires

digest_ds(digest) == digest \in SupportedDigests
\* verify_ds: some DS of the owner is of this key.
verify_ds(owner, id, records) ==
    /\ IsUsableKey(KeyOf(id))
    /\ \E i \in DOMAIN records :
         /\ records[i].owner = owner /\ records[i].type = "DS"
         /\ digest_ds(records[i].data[3]) /\ records[i].data[2] = id /\ records[i].data[4] = owner

NoKeys(error) == [error |-> error, zone |-> <<>>, records |-> <<>>, observed |-> 0, expires |-> 0]

\* The first key a DS vouches for that signed the whole set on its own.
authenticate_dnskeys(zone, ds, dnskeys, signatures, time) ==
    LET anchored(i) == /\ dnskeys[i].owner = zone /\ dnskeys[i].type = "DNSKEY"
                       /\ KeyOf(dnskeys[i].data[2]).zone /\ verify_ds(zone, dnskeys[i].data[2], ds)
        covering(i) == SelectSeq(signatures, LAMBDA s : /\ rrsig_for(s, zone, "DNSKEY")
                                                         /\ s.tag = KeyOf(dnskeys[i].data[2]).tag
                                                         /\ s.algorithm = KeyOf(dnskeys[i].data[2]).algorithm)
        verified(i) == verify_rrset(dnskeys, covering(i), <<dnskeys[i]>>, time)
        good == {i \in DOMAIN dnskeys : anchored(i) /\ verified(i).error = "none"}
    IN IF dnskeys = <<>> THEN NoKeys("EmptyRrset")
       ELSE IF good # {}
         THEN [error |-> "none", zone |-> zone, records |-> dnskeys, observed |-> time,
               expires |-> Min({verified(Min(good)).expires, records_expire_at(ds, time)})]
       ELSE NoKeys(IF \E i \in DOMAIN dnskeys : anchored(i) THEN "SignatureMismatch" ELSE "DsMismatch")

\* What keys verified holds no longer than they do.
WithinKeys(verified, keys) ==
    IF verified.error # "none" THEN verified ELSE [verified EXCEPT !.expires = Min({@, keys.expires})]
verify_rrset_with_keys(keys, records, signatures, time) ==
    IF ~IsFreshAt(keys, time) THEN Failed("SignatureTime")
    ELSE WithinKeys(verify_rrset(records, signatures, keys.records, time), keys)

\* ds and dnskeys are [records, signatures].
authenticate_child_dnskeys(parent, zone, ds, dnskeys, time) ==
    LET verified == verify_rrset_with_keys(parent, ds.records, ds.signatures, time)
        child == authenticate_dnskeys(zone, ds.records, dnskeys.records, dnskeys.signatures, time)
    IN IF verified.error # "none" THEN NoKeys(verified.error)
       ELSE IF verified.owner # zone \/ verified.type # "DS" THEN NoKeys("RrsetMismatch")
       ELSE IF child.error # "none" THEN child
       ELSE [child EXCEPT !.observed = Max({@, parent.observed, verified.observed}),
                          !.expires = Min({@, parent.expires, verified.expires})]

-----------------------------------------------------------------------------
(* hns-browser-dnssec.  A record that cannot be parsed fails the call.      *)

is_valid_at(s, now) == s.inception <= now /\ now <= s.expiration

\* canonical_rrset and signed_data: one owner and type, no data twice.
canonical_rrset(records) ==
    /\ Canonical(records)
    /\ \A i \in DOMAIN records : records[i].owner = records[1].owner /\ records[i].type = records[1].type
    /\ \A i, j \in DOMAIN records : canonical_rdata(records[i]) = canonical_rdata(records[j]) => i = j

\* verify_rsa and its like: the key and the signature the algorithm takes, then the
\* signed data, then the signature: "true", "false" or an error.
SignatureResult(records, s, id, now) ==
    CASE s.algorithm \notin Supported -> "UnsupportedAlgorithm"
      [] ~KeyOf(id).sound -> "InvalidDnskey"
      [] ~is_valid_at(s, now) -> "SignatureOutsideValidity"
      [] ~canonical_rrset(records) -> "InvalidRrset"
      [] OTHER -> IF verify_signature(s, id, records) THEN "true" ELSE "false"
verify_rrsig(records, s, id, now) ==
    LET k == KeyOf(id)
    IN IF s.labels # Len(records[1].owner) \/ ~k.zone \/ s.algorithm # k.algorithm \/ s.tag # k.tag THEN "false"
       ELSE SignatureResult(records, s, id, now)

DnskeysOf(records) == SelectSeq(records, LAMBDA r : r.type = "DNSKEY")
Parsed(dnskeys) == \A i \in DOMAIN dnskeys : KeyOf(dnskeys[i].data[2]).valid

\* Secure when any signature of the zone verifies under any of the keys.
validate_rrset_signature(zone, dnskeys, records, signatures, now) ==
    LET keys == DnskeysOf(dnskeys)
        results == {verify_rrsig(records, signatures[i], keys[j].data[2], now) :
                      i \in {i \in DOMAIN signatures : /\ rrsig_for(signatures[i], records[1].owner, records[1].type)
                                                       /\ signatures[i].signer = zone},
                      j \in DOMAIN keys}
    IN IF \/ records = <<>> \/ ~Parsed(keys)
          \/ \E i \in DOMAIN signatures : signatures[i].owner = records[1].owner /\ ~signatures[i].parsed
         THEN "error"
       ELSE IF "true" \in results THEN "Secure"
       ELSE IF results \subseteq {"false"} THEN "Bogus" ELSE "error"

verify_ds_digest(owner, id, ds) ==
    LET same == KeyOf(id).zone /\ KeyOf(id).algorithm = KeyOf(ds[2]).algorithm /\ KeyOf(id).tag = KeyOf(ds[2]).tag
    IN IF ~same THEN "false" ELSE IF ~digest_ds(ds[3]) THEN "error" ELSE IF ds[2] = id /\ ds[4] = owner THEN "true" ELSE "false"

\* The keys some DS vouches for.
ds_authenticated_dnskeys(owner, ds, dnskeys) ==
    LET dss == SelectSeq(ds, LAMBDA r : r.type = "DS")
        keys == DnskeysOf(dnskeys)
        judged(i) == {verify_ds_digest(owner, keys[i].data[2], dss[j].data) : j \in DOMAIN dss}
        vouched == {i \in DOMAIN keys : "true" \in judged(i)}
        authenticated == SelectSeq(keys, LAMBDA r : \E i \in vouched : keys[i] = r)
    IN IF dss = <<>> THEN [status |-> "InsecureDelegation", keys |-> <<>>]
       ELSE IF ~Parsed(keys) \/ \E i \in DOMAIN keys : "error" \in judged(i) THEN [status |-> "error", keys |-> <<>>]
       ELSE IF authenticated = <<>> THEN [status |-> "Bogus", keys |-> <<>>]
       ELSE [status |-> "Secure", keys |-> authenticated]

\* The keys of a zone: vouched for by its DS, and signed by one that is.
ZoneKeysStatus(zone, ds, dnskeys, signatures, now) ==
    LET delegation == ds_authenticated_dnskeys(zone, ds, dnskeys)
    IN IF delegation.status # "Secure" THEN delegation.status
       ELSE validate_rrset_signature(zone, delegation.keys, dnskeys, signatures, now)

validate_signed_rrset(zone, ds, dnskeys, key_signatures, records, signatures, now) ==
    LET status == ZoneKeysStatus(zone, ds, dnskeys, key_signatures, now)
    IN IF status # "Secure" THEN status ELSE validate_rrset_signature(zone, dnskeys, records, signatures, now)

\* One link below a zone whose keys are secure; link is [zone, ds, ds_signatures,
\* dnskeys, key_signatures].
validate_dnssec_chain(zone, ds, dnskeys, key_signatures, link, records, signatures, now) ==
    LET delegation == ds_authenticated_dnskeys(link.zone, link.ds, link.dnskeys)
        status == FirstError(<<
            <<ZoneKeysStatus(zone, ds, dnskeys, key_signatures, now) = "Secure",
              ZoneKeysStatus(zone, ds, dnskeys, key_signatures, now)>>,
            <<delegation.status = "Secure", delegation.status>>,
            <<validate_rrset_signature(zone, dnskeys, link.ds, link.ds_signatures, now) = "Secure",
              validate_rrset_signature(zone, dnskeys, link.ds, link.ds_signatures, now)>>,
            <<validate_rrset_signature(link.zone, delegation.keys, link.dnskeys, link.key_signatures, now) = "Secure",
              validate_rrset_signature(link.zone, delegation.keys, link.dnskeys, link.key_signatures, now)>>>>)
    IN IF status # "none" THEN status
       ELSE validate_rrset_signature(link.zone, link.dnskeys, records, signatures, now)

-----------------------------------------------------------------------------
(***************************************************************************)
(* One TLSA lookup (hns-resolver): responses are admitted one by one, each *)
(* of them followed through its CNAMEs, until a TLSA record set is reached  *)
(* that was verified under the same authority all along.                   *)
(*                                                                         *)
(* A response is [correlated, rcode, answers, signatures] with the records  *)
(* and signatures of DnssecSignatures.  resolution is the TLSA resolution,  *)
(* evidence the ValidatedTlsa it ended in (a sequence, empty before).       *)
(***************************************************************************)

CONSTANTS RequestedOwner, BaseDomain, max_cname_hops, max_tlsa_records,
          HnsResourceTtl,              \* HNS_RESOURCE_TTL
          MaxClock

VARIABLES resolution, evidence, clock, authorities, keysets
tlsa == <<resolution, evidence, clock, authorities, keysets>>

InZone(name, zone) == Len(zone) <= Len(name) /\ SubSeq(name, Len(name) - Len(zone) + 1, Len(name)) = zone

Unset == [kind |-> "Unset", zone |-> <<>>, validation_time |-> 0, expires |-> 0]
Generic == [Unset EXCEPT !.kind = "Generic"]
for_service == [current |-> RequestedOwner, visited |-> {RequestedOwner}, chain |-> <<>>,
                completed |-> FALSE, binding |-> Unset]

\* HnsDnssecAuthority::authenticate, for a resource [name, ds, valid_for] proved at the
\* time now and the DNSKEY set [records, signatures] its zone answers with.
authenticate(resource, response, now) ==
    LET zone == <<resource.name>>
        ds == [i \in DOMAIN resource.ds |-> [owner |-> zone, type |-> "DS", ttl |-> HnsResourceTtl, data |-> resource.ds[i]]]
        keys == authenticate_dnskeys(zone, ds, response.records, response.signatures, now)
    IN [error |-> IF ds = <<>> THEN "MissingHnsDs" ELSE keys.error, keys |-> keys,
        evidence |-> [kind |-> "Hns", zone |-> zone, validation_time |-> now,
                      expires |-> Min({keys.expires, now + resource.valid_for + 1})]]

matching_records(message, owner, type) == SelectSeq(message.answers, LAMBDA r : r.owner = owner /\ r.type = type)
matching_signatures(message, owner, type) == SelectSeq(message.signatures, LAMBDA s : s.owner = owner /\ s.covers = type)
has_owner_data(message, owner) ==
    \/ \E i \in DOMAIN message.answers : message.answers[i].owner = owner
    \/ \E i \in DOMAIN message.signatures : message.signatures[i].owner = owner

\* The first keys of a zone above the owner that verify the set, or the last error.
FirstGood(results) ==
    LET good == {i \in DOMAIN results : results[i].error = "none"}
    IN IF good # {} THEN results[Min(good)]
       ELSE IF results = <<>> THEN Failed("MissingKey") ELSE results[Len(results)]
verify_with_any_keyset(keys, records, signatures, now) ==
    LET above == SelectSeq(keys, LAMBDA k : InZone(records[1].owner, k.zone))
    IN FirstGood([i \in DOMAIN above |-> verify_rrset_with_keys(above[i], records, signatures, now)])

validated_tlsa_expiry(chain, terminal, binding) ==
    Min({terminal.expires} \cup {chain[i].rrset.expires : i \in DOMAIN chain}
        \cup (IF binding.kind = "Hns" THEN {binding.expires} ELSE {}))

Outcome(r, error, found) == [resolution |-> r, error |-> error, found |-> found]

\* The loop over the aliases of one response.  What was followed before an error
\* stays followed.
RECURSIVE Follow(_, _, _, _)
FollowVerified(r, message, keys, now, tlsas, target, verified) ==
    LET moved == [r EXCEPT !.current = target, !.visited = @ \cup {target},
                           !.chain = Append(@, [owner |-> r.current, target |-> target, rrset |-> verified])]
    IN CASE verified.error # "none" -> Outcome(r, verified.error, <<>>)
         [] tlsas # <<>> ->
              Outcome([r EXCEPT !.completed = TRUE], "none",
                      <<[terminal |-> r.current, records |-> tlsas, chain |-> r.chain, rrset |-> verified,
                         binding |-> r.binding, validated_at |-> now,
                         expires |-> validated_tlsa_expiry(r.chain, verified, r.binding)]>>)
         [] target \in r.visited -> Outcome(r, "CnameLoop", <<>>)
         [] has_owner_data(message, target) -> Follow(moved, message, keys, now)
         [] OTHER -> Outcome(moved, "none", <<>>)
Follow(r, message, keys, now) ==
    LET tlsas == matching_records(message, r.current, "TLSA")
        cnames == matching_records(message, r.current, "CNAME")
        Verified(records) ==
            verify_with_any_keyset(keys, records, matching_signatures(message, r.current, records[1].type), now)
    IN CASE tlsas # <<>> /\ cnames # <<>> -> Outcome(r, "CnameCoexistsWithData", <<>>)
         [] Len(tlsas) > max_tlsa_records -> Outcome(r, "Limit", <<>>)
         [] tlsas = <<>> /\ cnames = <<>> -> Outcome(r, "MissingTlsa", <<>>)
         [] tlsas = <<>> /\ Len(cnames) > 1 -> Outcome(r, "MalformedAnswer", <<>>)
         [] tlsas = <<>> /\ Len(r.chain) >= max_cname_hops -> Outcome(r, "CnameLimit", <<>>)
         [] OTHER -> FollowVerified(r, message, keys, now, tlsas, cnames[1].data[2],
                                    Verified(IF tlsas # <<>> THEN tlsas ELSE cnames))

accept_response_inner(r, asked, message, keys, now, binding) ==
    LET error == FirstError(<<
            <<~r.completed, "AlreadyComplete">>,
            <<asked = r.current, "WrongQuery">>,
            <<message.correlated, "Wire">>,
            <<message.rcode = 0, "UnsuccessfulResponse">>,
            <<r.binding.kind = "Unset" \/ r.binding = binding, "AuthorityChanged">>>>)
    IN IF error # "none" THEN Outcome(r, error, <<>>)
       ELSE Follow([r EXCEPT !.binding = binding], message, keys, now)

-----------------------------------------------------------------------------
(* A caller: it proves name resources, fetches zone keys and feeds every    *)
(* response to the one resolution.                                          *)

TlsaInit == /\ resolution = for_service /\ evidence = <<>> /\ clock = 0
            /\ authorities = {} /\ keysets = <<>>

Tick == clock < MaxClock /\ clock' = clock + 1 /\ UNCHANGED <<resolution, evidence, authorities, keysets>>

Authenticate(resource, response) ==
    LET authority == authenticate(resource, response, clock)
    IN /\ authority.error = "none" /\ Cardinality(authorities) < 2
       /\ authorities' = authorities \cup {authority}
       /\ keysets' = IF \E i \in DOMAIN keysets : keysets[i] = authority.keys THEN keysets
                     ELSE Append(keysets, authority.keys)
       /\ UNCHANGED <<resolution, evidence, clock>>

Admit(outcome) == /\ resolution' = outcome.resolution /\ evidence' = evidence \o outcome.found
                  /\ UNCHANGED <<clock, authorities, keysets>>
accept_response(message, asked) ==
    Admit(accept_response_inner(resolution, asked, message, keysets, clock, Generic))
accept_hns_response(message, authority) ==
    /\ InZone(BaseDomain, authority.evidence.zone)
    /\ Admit(accept_response_inner(resolution, resolution.current, message, <<authority.keys>>,
                                   authority.evidence.validation_time, authority.evidence))

\* A completed lookup is one path of published, signed records: from the requested
\* owner over distinct aliases to the terminal owner, within the hop limit, and every
\* owner of it lies in a zone that signed it.  Under an HNS authority it stays in that
\* one zone (accept_response_inner).
Path(e) == <<RequestedOwner>> \o [i \in DOMAIN e.chain |-> e.chain[i].target]
EvidenceIsOnePath(published) ==
    \A k \in DOMAIN evidence :
      LET e == evidence[k] path == Path(e)
      IN /\ Len(evidence) = 1 /\ resolution.completed
         /\ Last(path) = e.terminal /\ Len(e.chain) <= max_cname_hops
         /\ \A i \in DOMAIN e.chain : e.chain[i].owner = path[i]
         /\ \A i, j \in DOMAIN path : path[i] = path[j] => i = j
         /\ \A i \in DOMAIN e.chain : <<e.chain[i].owner, "CNAME", <<"name", e.chain[i].target>>>> \in published
         /\ {<<e.terminal, "TLSA", e.records[i].data>> : i \in DOMAIN e.records} \subseteq published
         /\ e.binding.kind = "Hns" => \A i \in DOMAIN path : InZone(path[i], e.binding.zone)

\* Whenever the evidence is fresh everything it rests on is: no record of the path
\* has outlived its TTL or its signature, and the authority is current (is_fresh_at).
EvidenceIsFreshOnlyWhole ==
    \A k \in DOMAIN evidence : \A now \in 0..(2 * MaxClock) :
      LET e == evidence[k]
      IN (e.validated_at <= now /\ now < e.expires) =>
           /\ IsFreshAt(e.rrset, now)
           /\ \A i \in DOMAIN e.chain : IsFreshAt(e.chain[i].rrset, now)
           /\ e.binding.kind = "Hns" => e.binding.validation_time <= now /\ now < e.binding.expires
           /\ \A i \in DOMAIN e.chain : e.binding.kind = "Hns" => e.chain[i].rrset.observed = e.validated_at

-----------------------------------------------------------------------------
(***************************************************************************)
(* Signed answers of one small world.  The zone p. publishes its key and    *)
(* the DS of its child; the child c.p. publishes two keys, of which kc is   *)
(* vouched for and zc signs; z. and y. are zones of their own.  What they   *)
(* publish is signed by their keys alone.  Anyone may add records, sign     *)
(* with the key ev, whose tag is kc's, and change what travels beside a     *)
(* signature.                                                              *)
(***************************************************************************)


VARIABLE input

P == <<"p">>
C == <<"c", "p">>
W == <<"w", "c", "p">>
Record(owner, type, ttl, data) == [owner |-> owner, type |-> type, ttl |-> ttl, data |-> data]
Dnskeys(zone, ids, ttl) == [i \in DOMAIN ids |-> Record(zone, "DNSKEY", ttl, <<"key", ids[i]>>)]
DsOf(zone, ids, digest, ttl) == [i \in DOMAIN ids |-> Record(zone, "DS", ttl, <<"ds", ids[i], digest, zone>>)]

\* The signature of a key over a record set, from one time to another.  The window
\* is kept beside its wire form, which wraps.
Span(from, to) == [from |-> from, to |-> to]
Signed(records, signer, id, original_ttl, window) ==
    LET s == [owner |-> records[1].owner, parsed |-> TRUE, covers |-> records[1].type, algorithm |-> KeyOf(id).algorithm,
              labels |-> Len(records[1].owner), original_ttl |-> original_ttl, inception |-> window.from % Wrap,
              expiration |-> window.to % Wrap, tag |-> KeyOf(id).tag, signer |-> signer, ttl |-> 4,
              by |-> id, window |-> window]
    IN s @@ [over |-> canonical_signed_data(records, s)]
\* On the way: another expiry, another number of labels, not even a signature.
Tampered(s) == {[s EXCEPT !.expiration = (@ + 2) % Wrap, !.window.to = 0],
                [s EXCEPT !.labels = @ - 1], [s EXCEPT !.parsed = FALSE, !.covers = "A"]}

-----------------------------------------------------------------------------
(* A chain of two zones.                                                    *)

ParentKeys == Dnskeys(P, <<"kp">>, 5)
Anchor == DsOf(P, <<"kp">>, "sha256", 6)
TrueKeys == Dnskeys(C, <<"kc", "zc">>, 4)
TrueDs == DsOf(C, <<"kc">>, "sha256", 4)
Answer(data) == <<Record(W, "TLSA", 4, data)>>
TrueAnswer == Answer(<<"tlsa", "good">>)
Long == Span(1, 7)

KeySets == {Dnskeys(C, ids, 4) : ids \in {<<"kc", "zc">>, <<"zc", "kc">>, <<"kc", "zc", "ev">>, <<"ev", "kc", "zc">>,
                                           <<"ev">>, <<"kc", "odd">>, <<"zc">>}}
KeySignatures(keys, window) ==
    LET own == Signed(TrueKeys, C, "kc", 4, window)
        zone == Signed(TrueKeys, C, "zc", 4, window)
        other == Signed(keys, C, "ev", 4, Long)
    IN {<<own>>, <<other>>, <<other, own>>, <<zone>>, <<>>} \cup {<<s>> : s \in Tampered(own)}
DsSets == {TrueDs, DsOf(C, <<"ev">>, "sha256", 4), TrueDs \o DsOf(C, <<"ev">>, "sha256", 4),
           DsOf(C, <<"kc">>, "gost", 4), <<>>}
DsSignatures(ds) == IF ds = <<>> THEN {<<>>}
                    ELSE {<<Signed(TrueDs, P, "kp", 4, Long)>>, <<Signed(ds, P, "ev", 4, Long)>>,
                          <<Signed(ds, C, "ev", 4, Long)>>}
Answers == {TrueAnswer, Answer(<<"tlsa", "bad">>), TrueAnswer \o TrueAnswer, TrueAnswer \o Answer(<<"tlsa", "bad">>),
            Answer(<<"malformed">>)}
AnswerSignatures(answer, window) ==
    LET own == Signed(TrueAnswer, C, "zc", 3, window)
        other == Signed(answer, C, "ev", 3, Long)
    IN {<<own>>, <<other, own>>, <<[other EXCEPT !.tag = 2]>>, <<Signed(answer, P, "ev", 3, Long)>>}
         \cup {<<s>> : s \in Tampered(own)}

\* The windows of the child's key set and answer, and when they are looked at: usual,
\* short, to come, past the wrap.
Moments == ({<<Long, Long>>, <<Long, Span(4, 5)>>, <<Span(4, 6), Long>>} \X {0, 4, 6})
             \cup ({<<Span(12, 18), Span(13, 17)>>} \X {11, 14})

\* At most two parts of the answer are not the child's own.
AskChain ==
    \E m \in Moments, touched \in UNION {kSubset(n, 1..4) : n \in 0..2} :
      LET w == m[1]
      IN \E keys \in IF 1 \in touched THEN KeySets ELSE {TrueKeys},
            ds \in IF 3 \in touched THEN DsSets ELSE {TrueDs},
            answer \in IF 4 \in touched THEN Answers ELSE {TrueAnswer} :
         \E ks \in IF 2 \in touched THEN KeySignatures(keys, w[1]) ELSE {<<Signed(TrueKeys, C, "kc", 4, w[1])>>},
            dss \in IF 3 \in touched THEN DsSignatures(ds) ELSE {<<Signed(TrueDs, P, "kp", 4, Long)>>},
            as \in IF 4 \in touched THEN AnswerSignatures(answer, w[2]) ELSE {<<Signed(TrueAnswer, C, "zc", 3, w[2])>>} :
           input' = [ask |-> "chain", windows |-> w, keys |-> keys, key_signatures |-> ks, ds |-> ds,
                     ds_signatures |-> dss, answer |-> answer, signatures |-> as, now |-> m[2]]

\* The parent's own signatures never lapse here.
Always == Span(0, 7)
Ever(now) == IF now < 8 THEN Always ELSE Span(12, 18)
ParentSignatures(now) == <<Signed(ParentKeys, P, "kp", 5, Ever(now))>>
Delegation(q) == IF q.ds = TrueDs /\ q.ds_signatures = <<Signed(TrueDs, P, "kp", 4, Long)>>
                   THEN <<Signed(TrueDs, P, "kp", 4, Ever(q.now))>> ELSE q.ds_signatures

HnsVerdict(q) ==
    LET parent == authenticate_dnskeys(P, Anchor, ParentKeys, ParentSignatures(q.now), q.now)
        child == authenticate_child_dnskeys(parent, C, [records |-> q.ds, signatures |-> Delegation(q)],
                                            [records |-> q.keys, signatures |-> q.key_signatures], q.now)
    IN IF child.error # "none" THEN Failed(child.error)
       ELSE verify_rrset_with_keys(child, q.answer, q.signatures, q.now)
BrowserVerdict(q) ==
    validate_dnssec_chain(P, Anchor, ParentKeys, ParentSignatures(q.now),
        [zone |-> C, ds |-> q.ds, ds_signatures |-> Delegation(q), dnskeys |-> q.keys,
         key_signatures |-> q.key_signatures], q.answer, q.signatures, q.now)
\* The same, from a DS that is trusted as it stands.
DirectVerdict(q) == validate_signed_rrset(C, TrueDs, q.keys, q.key_signatures, q.answer, q.signatures, q.now)

SetOf(s) == {s[i].data : i \in DOMAIN s}
Genuine(q) == SetOf(q.answer) = SetOf(TrueAnswer) /\ SetOf(q.keys) = SetOf(TrueKeys)
Within(w, now) == w.from <= now /\ now <= w.to
Untouched(q) == /\ q.answer = TrueAnswer /\ q.keys = TrueKeys /\ q.ds = TrueDs
                /\ q.key_signatures = <<Signed(TrueKeys, C, "kc", 4, q.windows[1])>>
                /\ q.ds_signatures = <<Signed(TrueDs, P, "kp", 4, Long)>>
                /\ q.signatures = <<Signed(TrueAnswer, C, "zc", 3, q.windows[2])>>
InTime(q) == Within(q.windows[1], q.now) /\ Within(q.windows[2], q.now)

\* Nothing but what the child zone published, under keys its parent vouches for and
\* while the signatures last, is ever verified; and what travels untouched in that
\* time is.  The evidence of hns-dnssec is never fresh past a signature or a TTL it
\* rests on (verify_rrset, authenticate_child_dnskeys, validate_dnssec_chain).
AnswersAreSigned ==
    input.ask = "chain" =>
      \A q \in {input}, hns \in {HnsVerdict(input)} :
         /\ hns.error = "none" =>
              /\ Genuine(q) /\ InTime(q) /\ SetOf(q.ds) = SetOf(TrueDs)
              /\ \A i \in 1..2 : hns.expires <= q.windows[i].to + 1
              /\ hns.expires <= q.now + 3
         /\ BrowserVerdict(q) = "Secure" => Genuine(q) /\ InTime(q) /\ SetOf(q.ds) = SetOf(TrueDs)
         /\ DirectVerdict(q) = "Secure" => Genuine(q) /\ InTime(q)
         /\ (Untouched(q) /\ InTime(q)) =>
              /\ hns.error = "none"
              /\ q.now < 8 => BrowserVerdict(q) = "Secure" /\ DirectVerdict(q) = "Secure"

-----------------------------------------------------------------------------
(* A lookup over z. and y.                                                  *)

A == <<"a", "z">>
B == <<"b", "z">>
Y == <<"a", "y">>
ZoneOf(owner) == <<owner[Len(owner)]>>
KeyOfZone(zone) == IF zone = <<"z">> THEN "kz" ELSE "ky"
Tlsa(owner) == Record(owner, "TLSA", 3, <<"tlsa", "good">>)
Cname(owner, target) == Record(owner, "CNAME", 2, <<"name", target>>)
PublishedSets == {<<Tlsa(B)>>, <<Tlsa(Y)>>, <<Cname(A, B)>>, <<Cname(B, A)>>, <<Cname(B, Y)>>}
Published == UNION {{<<s[i].owner, s[i].type, s[i].data>> : i \in DOMAIN s} : s \in PublishedSets}
By(zone, id, s) == [records |-> s, signature |-> Signed(s, zone, id, 3, Span(0, 4))]
SignedSets == {By(ZoneOf(s[1].owner), KeyOfZone(ZoneOf(s[1].owner)), s) : s \in PublishedSets}
                \cup {By(<<"y">>, "ky", <<Tlsa(A)>>), By(<<"y">>, "ky", <<Cname(A, Y)>>), By(<<"z">>, "ev", <<Tlsa(A)>>)}
Response(sets) == [correlated |-> TRUE, rcode |-> 0,
                   answers |-> FlattenSeq([i \in DOMAIN sets |-> sets[i].records]),
                   signatures |-> [i \in DOMAIN sets |-> sets[i].signature]]
AllResponses ==
    {Response(<<s>>) : s \in SignedSets}
    \cup {Response(<<s, t>>) : s \in SignedSets, t \in {u \in SignedSets : u.records[1].owner # A}}
    \cup {[Response(<<>>) EXCEPT !.rcode = 3], [Response(<<>>) EXCEPT !.correlated = FALSE]}
ZoneKeySet(zone) ==
    LET keys == Dnskeys(zone, <<KeyOfZone(zone)>>, 5)
    IN [records |-> keys, signatures |-> <<Signed(keys, zone, KeyOfZone(zone), 5, Span(0, 6))>>]
DsData(name, id) == <<"ds", id, "sha256", <<name>>>>

Resources == {[name |-> "z", ds |-> <<DsData("z", "kz")>>, valid_for |-> 1],
              [name |-> "y", ds |-> <<DsData("y", "ky")>>, valid_for |-> 2],
              [name |-> "y", ds |-> <<>>, valid_for |-> 2]}

TlsaNext ==
    \/ Tick
    \/ \E resource \in Resources : Authenticate(resource, ZoneKeySet(<<resource.name>>))
    \/ \E message \in AllResponses :
         \/ \E asked \in {RequestedOwner, resolution.current} : accept_response(message, asked)
         \/ \E authority \in authorities : accept_hns_response(message, authority)

\* See EvidenceIsOnePath and EvidenceIsFreshOnlyWhole.
TlsaEvidenceHolds == EvidenceIsOnePath(Published) /\ EvidenceIsFreshOnlyWhole

-----------------------------------------------------------------------------
(***************************************************************************)
(* Proofs that a name or a type does not exist: the NSEC and NSEC3 checks  *)
(* of hns-dnssec, on records whose signatures are checked already, and     *)
(* those of hns-browser-dnssec, which check the signatures themselves, with *)
(* the closest enclosers the browser resolver tries.                       *)
(*                                                                         *)
(* A name is its sequence of labels, the label next to the root last, and  *)
(* a label is its place in the canonical order.  An NSEC record is         *)
(* [owner, next, types, signed], an NSEC3 record [owner, next, types,      *)
(* flags, salt, iterations, usable, in_zone, signed] with hashes for owner *)
(* and next.                                                               *)
(***************************************************************************)

CONSTANTS Star,                  \* the label *
          Labels,                \* every label
          HashSize,              \* a prime above the number of names hashed
          max_denial_records, max_nsec3_iterations, NSEC3_MAX_ITERATIONS,
          ByteBits,              \* bits of a byte of a type bitmap
          MaxBlock               \* longest block of a type bitmap (32)

-----------------------------------------------------------------------------
(* Names.                                                                   *)

ancestor(name, start) == SubSeq(name, start + 1, Len(name))
wildcard_of(name) == <<Star>> \o name
is_suffix(name, suffix) == Len(suffix) <= Len(name) /\ ancestor(name, Len(name) - Len(suffix)) = suffix
is_strict_subdomain(name, parent) == Len(name) > Len(parent) /\ is_suffix(name, parent)
next_closer_name(name, encloser) == ancestor(name, Len(name) - Len(encloser) - 1)

\* canonical_name_cmp gives Less: label by label from the root.
Precedes(left, right) ==
    LET l(i) == left[Len(left) + 1 - i] r(i) == right[Len(right) + 1 - i]
    IN \E i \in DOMAIN right :
         /\ \A j \in 1..(i - 1) : j <= Len(left) /\ l(j) = r(j)
         /\ i <= Len(left) => l(i) < r(i)

canonical_interval_contains(owner, next, candidate) ==
    IF Precedes(owner, next) THEN Precedes(owner, candidate) /\ Precedes(candidate, next)
    ELSE Precedes(owner, candidate) \/ Precedes(candidate, next)

\* Mutant: an interval includes the name it begins with.
CoversOwner(owner, next, name) == name = owner \/ canonical_interval_contains(owner, next, name)
nsec_covers_name(owner, next, name) ==
    name # owner /\ (owner = next \/ canonical_interval_contains(owner, next, name))

closest_encloser_candidates(name, zone) ==
    IF is_strict_subdomain(name, zone) THEN [s \in 1..(Len(name) - Len(zone)) |-> ancestor(name, s)] ELSE <<>>

-----------------------------------------------------------------------------
(* Hashes: an injection of the names that depends on the salt and on the    *)
(* number of rounds.                                                        *)

RECURSIVE Number(_)
Number(name) == IF name = <<>> THEN 0 ELSE Head(name) + 1 + (Cardinality(Labels) + 1) * Number(Tail(name))
Round(value, salt) == (value * salt) % HashSize
RECURSIVE Rounds(_, _, _)
Rounds(value, salt, n) == IF n = 0 THEN value ELSE Rounds(Round(value, salt), salt, n - 1)
nsec3_hash(name, salt, iterations) == Rounds(Round(Number(name) % HashSize, salt), salt, iterations)

hash_interval_contains(owner, next, candidate) ==
    IF owner < next THEN owner < candidate /\ candidate < next ELSE owner < candidate \/ candidate < next
nsec3_covers_hash(owner, next, hash) ==
    hash # owner /\ (owner = next \/ hash_interval_contains(owner, next, hash))

-----------------------------------------------------------------------------
(* Type bitmaps: blocks of a window, a length and as many bytes.            *)

Bit(byte, i) == (byte \div 2^(ByteBits - 1 - i)) % 2 = 1

\* bitmap_contains: "yes", "no" or "error" for the type at a place of a window.
RECURSIVE ContainsFrom(_, _, _, _)
ContainsFrom(bitmap, cursor, window, low) ==
    IF cursor >= Len(bitmap) THEN "no"
    ELSE IF cursor + 2 > Len(bitmap) THEN "error"
    ELSE LET length == bitmap[cursor + 2]
             end == cursor + 2 + length
             byte == low \div ByteBits
         IN IF length = 0 \/ length > MaxBlock \/ end > Len(bitmap) THEN "error"
            ELSE IF bitmap[cursor + 1] # window THEN ContainsFrom(bitmap, end, window, low)
            ELSE IF byte < length /\ Bit(bitmap[cursor + 3 + byte], low % ByteBits) THEN "yes" ELSE "no"
bitmap_contains(bitmap, window, low) == ContainsFrom(bitmap, 0, window, low)

\* validate_nsec_type_bit_maps: well-formed blocks, their windows ascending.
RECURSIVE ValidFrom(_, _, _)
ValidFrom(bitmap, cursor, previous) ==
    \/ cursor >= Len(bitmap)
    \/ /\ cursor + 2 <= Len(bitmap)
       /\ bitmap[cursor + 2] \in 1..MaxBlock
       /\ cursor + 2 + bitmap[cursor + 2] <= Len(bitmap)
       /\ \A p \in previous : bitmap[cursor + 1] > p
       /\ ValidFrom(bitmap, cursor + 2 + bitmap[cursor + 2], {bitmap[cursor + 1]})
validate_nsec_type_bit_maps(bitmap) == ValidFrom(bitmap, 0, {})
nsec_type_bit_maps_contain(bitmap, window, low) ==
    IF validate_nsec_type_bit_maps(bitmap) THEN ContainsFrom(bitmap, 0, window, low) ELSE "error"

-----------------------------------------------------------------------------
(* hns-dnssec, on a set of records.                                         *)

\* The record denies the type at its own name.
LacksType(record, type) ==
    type \notin record.types /\ (type = "CNAME" \/ "CNAME" \notin record.types)

\* The closest ancestor some record is at; none is the empty set.
ClosestStart(name, last, IsAt(_)) ==
    LET starts == {s \in 1..last : IsAt(ancestor(name, s))} IN IF starts = {} THEN {} ELSE {Min(starts)}

verify_nsec_denial(name, type, records, name_error) ==
    LET starts == ClosestStart(name, Len(name), LAMBDA n : \E r \in records : r.owner = n)
        covered(n) == \E r \in records : canonical_interval_contains(r.owner, r.next, n)
    IN IF Cardinality(records) > max_denial_records THEN "Limit"
       ELSE IF ~name_error
         THEN IF \E r \in records : r.owner = name /\ LacksType(r, type) THEN "NoData" ELSE "DenialMismatch"
       ELSE IF \E s \in starts : covered(ancestor(name, s - 1)) /\ covered(wildcard_of(ancestor(name, s)))
         THEN "NameError" ELSE "DenialMismatch"

\* Only a record without the opt-out flag covers a name.
CoversHash(records, hash) == \E r \in records : r.flags = 0 /\ hash_interval_contains(r.owner, r.next, hash)

validate_nsec3(record) == record.usable /\ record.iterations <= max_nsec3_iterations

verify_nsec3_denial(zone, name, type, records, name_error) ==
    LET entries == {r \in records : r.in_zone}
        first == CHOOSE r \in entries : TRUE
        hash(n) == nsec3_hash(n, first.salt, first.iterations)
        starts == ClosestStart(name, Len(name) - Len(zone), LAMBDA n : \E r \in entries : r.owner = hash(n))
        covered(n) == CoversHash(entries, hash(n))
        failed == FirstError(<<
            <<Cardinality(records) <= max_denial_records, "Limit">>,
            <<is_suffix(name, zone), "DenialMismatch">>,
            <<\A r \in records : validate_nsec3(r), "DenialMismatch">>,
            <<entries # {}, "DenialMismatch">>,
            <<\A r, s \in entries : r.salt = s.salt /\ r.iterations = s.iterations, "DenialMismatch">>>>)
    IN IF failed # "none" THEN failed
       ELSE IF ~name_error
         THEN IF \E r \in entries : r.owner = hash(name) /\ LacksType(r, type) THEN "NoData" ELSE "DenialMismatch"
       ELSE IF \E s \in starts : covered(ancestor(name, s - 1)) /\ covered(wildcard_of(ancestor(name, s)))
         THEN "NameError" ELSE "DenialMismatch"

-----------------------------------------------------------------------------
(* hns-browser-dnssec, on a set of records and what their signatures are    *)
(* worth: "Secure", "Bogus", or an error.                                   *)

\* validate_rrset_signature on records that must be of one owner.
SetStatus(records) ==
    IF Cardinality({r.owner : r \in records}) > 1 THEN "error"
    ELSE IF records # {} /\ \A r \in records : r.signed THEN "Secure" ELSE "Bogus"
NoType(record, type) == type \notin record.types /\ "CNAME" \notin record.types

validate_nsec_no_data(name, type, records) ==
    IF SetStatus(records) # "Secure" THEN SetStatus(records)
    ELSE IF \E r \in records : r.owner = name /\ NoType(r, type) THEN "Secure" ELSE "Bogus"

\* Each record's owner is judged by the records and signatures of that owner.
validate_nsec_name_range(name, records) ==
    LET covering == {r \in records : nsec_covers_name(r.owner, r.next, name)}
    IN IF \E r \in covering : SetStatus({s \in records : s.owner = r.owner}) = "Secure" THEN "Secure" ELSE "Bogus"

validate_nsec_name_error(name, encloser, records) ==
    IF is_strict_subdomain(name, encloser) /\ records # {} /\ validate_nsec_name_range(name, records) = "Secure"
    THEN validate_nsec_name_range(wildcard_of(encloser), records) ELSE "Bogus"

\* The resolver's loop, which ends with the first candidate found secure.
resolve_secure_name_error(name, zone, records) ==
    \E e \in Range(closest_encloser_candidates(name, zone)) : validate_nsec_name_error(name, e, records) = "Secure"

SameParameters(r, s) == r.salt = s.salt /\ r.iterations = s.iterations
HashOf(r, name) == nsec3_hash(name, r.salt, r.iterations)
nsec3_matches_name(r, name) == r.owner = HashOf(r, name)
nsec3_covers_name(r, name) == nsec3_covers_hash(r.owner, r.next, HashOf(r, name))

\* parse_nsec3_proofs: what cannot be used is passed over, an owner outside the
\* zone is an error; every hash taken is of few enough rounds.
parse_nsec3_proofs(records) == {r \in records : r.usable}
Unparsable(records) ==
    \E r \in records : r.usable /\ (~r.in_zone \/ r.iterations > NSEC3_MAX_ITERATIONS)

validate_nsec3_rrset_signature(records) ==
    IF SetStatus(records) # "Secure" THEN SetStatus(records)
    ELSE IF Unparsable(records) THEN "error" ELSE "Secure"

closest_nsec3_is_authoritative(r) == "DNAME" \notin r.types /\ ("NS" \in r.types => "SOA" \in r.types)

\* validate_nsec3_closest_encloser_proof: the records that are the encloser's and
\* those that cover the next closer name.
validate_nsec3_closest_encloser_proof(name, encloser, at, beyond) ==
    LET closest == {r \in parse_nsec3_proofs(at) : nsec3_matches_name(r, encloser)}
        covering == {r \in parse_nsec3_proofs(beyond) :
                       /\ \A c \in closest : SameParameters(c, r)
                       /\ nsec3_covers_name(r, next_closer_name(name, encloser))}
        status == FirstError(<<
            <<is_strict_subdomain(name, encloser), "Bogus">>,
            <<validate_nsec3_rrset_signature(at) = "Secure", validate_nsec3_rrset_signature(at)>>,
            <<closest # {} /\ \A c \in closest : closest_nsec3_is_authoritative(c), "Bogus">>,
            <<validate_nsec3_rrset_signature(beyond) = "Secure", validate_nsec3_rrset_signature(beyond)>>,
            <<covering # {}, "Bogus">>>>)
    IN IF status # "none" THEN [status |-> status, closest |-> {}, covering |-> {}]
       ELSE [status |-> "Valid", closest |-> closest, covering |-> covering]
OptedOut(records) == \E r \in records : r.flags = 1

validate_nsec3_no_data(name, type, records) ==
    IF validate_nsec3_rrset_signature(records) # "Secure" THEN validate_nsec3_rrset_signature(records)
    ELSE IF \E r \in parse_nsec3_proofs(records) : nsec3_matches_name(r, name) /\ NoType(r, type)
      THEN "Secure" ELSE "Bogus"

\* The wildcard at the encloser, once the encloser is proven: Found(r, name) says
\* which of its records count.
WildcardStatus(proof, encloser, records, Found(_, _), Denies(_)) ==
    LET found == {r \in parse_nsec3_proofs(records) :
                    (\A c \in proof.closest : SameParameters(c, r)) /\ Found(r, wildcard_of(encloser))}
    IN IF proof.status # "Valid" THEN proof.status
       ELSE IF OptedOut(proof.covering) THEN "InsecureDelegation"
       ELSE IF validate_nsec3_rrset_signature(records) # "Secure" THEN validate_nsec3_rrset_signature(records)
       ELSE IF found = {} THEN "Bogus"
       ELSE Denies(found)

validate_nsec3_name_error(name, encloser, at, beyond, wildcard) ==
    WildcardStatus(validate_nsec3_closest_encloser_proof(name, encloser, at, beyond), encloser, wildcard,
                   nsec3_covers_name, LAMBDA found : IF OptedOut(found) THEN "InsecureDelegation" ELSE "Secure")

validate_nsec3_wildcard_no_data(name, type, encloser, at, beyond, wildcard) ==
    WildcardStatus(validate_nsec3_closest_encloser_proof(name, encloser, at, beyond), encloser, wildcard,
                   nsec3_matches_name,
                   LAMBDA found : IF \A r \in found : NoType(r, type) THEN "Secure" ELSE "Bogus")

\* The record at the name, if one is offered, or an opted-out span over it.
AtOrOptedOut(name, encloser, matching, at, beyond, Judge(_)) ==
    LET found == {r \in parse_nsec3_proofs(matching) : nsec3_matches_name(r, name)}
        proof == validate_nsec3_closest_encloser_proof(name, encloser, at, beyond)
    IN IF matching # {}
       THEN IF validate_nsec3_rrset_signature(matching) # "Secure" THEN validate_nsec3_rrset_signature(matching)
            ELSE IF found = {} THEN "Bogus" ELSE Judge(found)
       ELSE IF proof.status # "Valid" THEN proof.status
       ELSE IF OptedOut(proof.covering) THEN "InsecureDelegation" ELSE "Bogus"

validate_nsec3_ds_no_data(name, encloser, matching, at, beyond) ==
    AtOrOptedOut(name, encloser, matching, at, beyond,
                 LAMBDA found : IF \A r \in found : NoType(r, "DS") THEN "Secure" ELSE "Bogus")

validate_nsec3_unsigned_referral(name, encloser, matching, at, beyond) ==
    AtOrOptedOut(name, encloser, matching, at, beyond,
                 LAMBDA found : IF \A r \in found : "NS" \in r.types /\ {"DS", "SOA"} \cap r.types = {}
                                THEN "InsecureDelegation" ELSE "Bogus")

validate_nsec3_wildcard_answer(name, encloser, records) ==
    LET found == {r \in parse_nsec3_proofs(records) : nsec3_covers_name(r, next_closer_name(name, encloser))}
    IN IF ~is_strict_subdomain(name, encloser) THEN "Bogus"
       ELSE IF validate_nsec3_rrset_signature(records) # "Secure" THEN validate_nsec3_rrset_signature(records)
       ELSE IF found = {} THEN "Bogus"
       ELSE IF OptedOut(found) THEN "InsecureDelegation" ELSE "Secure"

-----------------------------------------------------------------------------
(***************************************************************************)
(* Denial proofs on every small zone: what the zone holds, the chains of   *)
(* NSEC and NSEC3 records it is signed with, and the proofs some of those  *)
(* records make.                                                           *)
(***************************************************************************)

CONSTANTS Apex, Salts, MaxRounds, MaxBitmap

-----------------------------------------------------------------------------
(* Zones: [data, opt_out] with the types of every owner.  With opt-out the  *)
(* delegations without a DS are not in the NSEC3 chain.                     *)

Plain == Labels \ {Star}
Below(n) == {p \o Apex : p \in [1..n -> Plain]}
Owners == Below(1) \cup Below(2) \cup {<<Star>> \o n : n \in {Apex} \cup Below(1)}
Names == {Apex} \cup Below(1) \cup Below(2) \cup {<<Max(Labels), Max(Labels)>> \o n : n \in Below(1)}
Kinds == {{"A"}, {"CNAME"}, {"NS"}, {"NS", "DS"}}
ApexTypes == {"SOA", "NS"}

IsDelegation(types) == "NS" \in types /\ "SOA" \notin types
WellFormed(d) == \A m, n \in DOMAIN d : IsDelegation(d[n]) => ~is_strict_subdomain(m, n) /\ n[1] # Star
Zone(owners, kinds) == [n \in {Apex} \cup owners |-> IF n = Apex THEN ApexTypes ELSE kinds[n]]
SmallZones ==
    {d \in UNION {{Zone(s, k) : k \in [s -> Kinds]} : s \in UNION {kSubset(i, Owners) : i \in 0..2}} : WellFormed(d)}
Zones == SmallZones \cup {Zone(s, [n \in s |-> {"A"}]) : s \in kSubset(3, Owners)}

Existing(d) == {ancestor(n, i) : n \in DOMAIN d, i \in 0..2} \cap {n \in Names \cup Owners : is_suffix(n, Apex)}
EmptyNonTerminals(d) == Existing(d) \ DOMAIN d
Encloser(d, name) ==
    CHOOSE e \in Existing(d) : /\ is_strict_subdomain(name, e)
                               /\ \A f \in Existing(d) : is_strict_subdomain(name, f) => Len(f) <= Len(e)
\* Nothing is at the name and no wildcard answers for it.
Absent(d, name) == name \notin Existing(d) /\ wildcard_of(Encloser(d, name)) \notin DOMAIN d
Delegated(d, name) == \E n \in DOMAIN d : IsDelegation(d[n]) /\ is_suffix(name, n)

Successor(sorted, i) == sorted[(i % Len(sorted)) + 1]
NsecChain(d) ==
    LET sorted == SetToSortSeq(DOMAIN d, Precedes)
    IN {[owner |-> sorted[i], next |-> Successor(sorted, i), types |-> d[sorted[i]], signed |-> TRUE] :
          i \in DOMAIN sorted}
Hidden(d, opt_out) == {n \in DOMAIN d : opt_out /\ IsDelegation(d[n]) /\ "DS" \notin d[n]}
Shown(d, opt_out) == [n \in DOMAIN d \ Hidden(d, opt_out) |-> d[n]]
Nsec3Chain(d, opt_out, salt, rounds) ==
    LET shown == Shown(d, opt_out)
        hash(n) == nsec3_hash(n, salt, rounds)
        sorted == SetToSortSeq(Existing(shown), LAMBDA m, n : hash(m) < hash(n))
    IN {[owner |-> hash(sorted[i]), next |-> hash(Successor(sorted, i)),
         types |-> IF sorted[i] \in DOMAIN shown THEN shown[sorted[i]] ELSE {},
         flags |-> IF opt_out THEN 1 ELSE 0, salt |-> salt, iterations |-> rounds,
         usable |-> TRUE, in_zone |-> TRUE, signed |-> TRUE] : i \in DOMAIN sorted}

MostlyPlain(d) == /\ Cardinality({n \in DOMAIN d \ {Apex} : d[n] # {"A"}}) <= 1
                  /\ \A n \in DOMAIN d : d[n] = {"CNAME"} => Cardinality(DOMAIN d) = 2
AskDenial == \E d \in {z \in Zones : MostlyPlain(z)}, name \in Names :
               input' = [ask |-> "denial", data |-> d, name |-> name]
\* Opt-out matters for insecure delegations only; one in a zone without opt-out is
\* the zone's only other name here.
AskHashed == \E d \in {z \in SmallZones : MostlyPlain(z)}, name \in Names, opt_out \in BOOLEAN, salt \in Salts :
               /\ LET insecure == \E n \in DOMAIN d : d[n] = {"NS"}
                  IN (opt_out => insecure) /\ (insecure /\ Cardinality(DOMAIN d) > 2 => opt_out)
               /\ input' = [ask |-> "hashed", data |-> d, name |-> name, opt_out |-> opt_out, salt |-> salt]
TypeCodes == {<<w, l>> : w \in 0..1, l \in 0..(ByteBits * MaxBlock - 1)}
AskBitmap == \/ \E bitmap \in BoundedSeq(0..(2^ByteBits - 1), MaxBitmap) : input' = [ask |-> "bitmap", bitmap |-> bitmap]
             \/ \E types \in SUBSET TypeCodes : input' = [ask |-> "types", types |-> types]
-----------------------------------------------------------------------------
Types == {"A", "CNAME", "DS"}
Lacks(d, name, type) == name \in DOMAIN d => type \notin d[name]

\* The bitmap of a set of types: a block of no more bytes than it needs for each window
\* that has one.
Block(types, window) ==
    LET lows == {t[2] : t \in {u \in types : u[1] = window}}
        length == Max(lows) \div ByteBits + 1
    IN IF lows = {} THEN <<>>
       ELSE <<window, length>>
            \o [i \in 1..length |-> SumSet({2^(ByteBits - 1 - (l % ByteBits)) : l \in {l \in lows : l \div ByteBits = i - 1}})]
Encoded(types) == Block(types, 0) \o Block(types, 1)

\* A record nobody signed that would deny everything, and one that cannot be used.
ForgedNsec == [owner |-> Apex, next |-> Apex, types |-> {}, signed |-> FALSE]
Forged(r) == [r EXCEPT !.types = {}, !.next = r.owner, !.signed = FALSE]

\* The names a wildcard of the zone answers: the one at the closest name that is there.
WildcardAnswers(d, name) == name \notin Existing(d) /\ wildcard_of(Encloser(d, name)) \in DOMAIN d
\* Nothing is owned by the name, and some name above it has no wildcard.
Deniable(d, name) ==
    /\ name \notin DOMAIN d
    /\ \E e \in Range(closest_encloser_candidates(name, Apex)) : wildcard_of(e) \notin DOMAIN d

\* What NSEC records of the zone, some of them or all, with or without one that
\* nobody signed, are taken to deny.  A type is denied only at a name that owns
\* records and none of that type.  A name error of hns-dnssec is true, unless the
\* name is at or below an empty non-terminal.  One of the resolver is never given
\* for a name that owns records, and is given for a whole chain exactly where some
\* candidate for the closest encloser has no wildcard: it is true, unless the name
\* is an empty non-terminal or a wildcard at the encloser the zone really has
\* answers it, as no record proves which candidate that is (verify_nsec_denial,
\* validate_nsec_no_data, validate_nsec_name_error, resolve_secure_name_error).
NsecDenialsAreTrue ==
    input.ask = "denial" =>
      LET d == input.data name == input.name
          chain == NsecChain(d)
          denied(records) == resolve_secure_name_error(name, Apex, records)
      IN /\ \A records \in SUBSET chain :
              /\ \A type \in Types :
                   (\/ verify_nsec_denial(name, type, records, FALSE) = "NoData"
                    \/ validate_nsec_no_data(name, type, records) = "Secure"
                    \/ validate_nsec_no_data(name, type, records \cup {ForgedNsec}) = "Secure")
                     => name \in DOMAIN d /\ Lacks(d, name, type)
              /\ verify_nsec_denial(name, "A", records, TRUE) = "NameError"
                   => Absent(d, name) \/ \E n \in EmptyNonTerminals(d) : is_suffix(name, n)
              /\ denied(records) \/ denied(records \cup {ForgedNsec})
                   => /\ Deniable(d, name)
                      /\ Absent(d, name) \/ name \in EmptyNonTerminals(d) \/ WildcardAnswers(d, name)
         /\ denied(chain) = Deniable(d, name)

\* The same of NSEC3 records, whatever they hash and with spans opted out, where
\* empty non-terminals have records too; the browser's name error is moreover never
\* given for a name below a delegation (verify_nsec3_denial,
\* validate_nsec3_no_data, validate_nsec3_name_error).
HashedDenialsAreTrue ==
    input.ask = "hashed" =>
      LET d == input.data name == input.name
          chain == Nsec3Chain(d, input.opt_out, input.salt, 0)
          rolled == Nsec3Chain(d, input.opt_out, input.salt, MaxRounds)
          one == {{r} : r \in chain}
      IN /\ \A records \in SUBSET chain :
              /\ \A type \in Types :
                   verify_nsec3_denial(Apex, name, type, records, FALSE) = "NoData" => Lacks(d, name, type)
              /\ verify_nsec3_denial(Apex, name, "A", records, TRUE) = "NameError" => Absent(d, name)
         /\ \A r \in chain, s \in rolled : verify_nsec3_denial(Apex, name, "A", {r, s}, TRUE) # "NameError"
         /\ \A at \in one :
              \A type \in Types : validate_nsec3_no_data(name, type, at) = "Secure" => Lacks(d, name, type)
         /\ \A at, beyond, wildcard \in one, e \in Range(closest_encloser_candidates(name, Apex)) :
              validate_nsec3_name_error(name, e, at, beyond, wildcard) = "Secure"
                => Absent(d, name) /\ ~Delegated(d, name)

\* A delegation is held to be unsigned only where the zone delegates without a DS,
\* or may have left that out of its chain; a DS is denied only where there is none;
\* a wildcard's answer or its lack of a type is believed only where nothing is closer
\* to the name, and a type bitmap holds exactly the types it was made of for both
\* validators (validate_nsec3_unsigned_referral, validate_nsec3_ds_no_data,
\* validate_nsec3_wildcard_answer, validate_nsec3_wildcard_no_data,
\* nsec_type_bit_maps_contain).
HashedReferralsAreTrue ==
    /\ input.ask = "hashed" =>
      LET d == input.data name == input.name
          chain == Nsec3Chain(d, input.opt_out, input.salt, 0)
          one == {{r} : r \in chain}
          unsigned == name \in DOMAIN d /\ d[name] = {"NS"}
          candidates == Range(closest_encloser_candidates(name, Apex))
      IN /\ \A matching \in one :
              /\ validate_nsec3_unsigned_referral(name, Apex, matching, {}, {}) = "InsecureDelegation" => unsigned
              /\ validate_nsec3_ds_no_data(name, Apex, matching, {}, {}) = "Secure" => Lacks(d, name, "DS")
         /\ \A e \in candidates, at, beyond \in one :
              /\ (\/ validate_nsec3_unsigned_referral(name, e, {}, at, beyond) = "InsecureDelegation"
                  \/ validate_nsec3_ds_no_data(name, e, {}, at, beyond) = "InsecureDelegation")
                   => input.opt_out /\ name \notin DOMAIN Shown(d, TRUE)
              /\ \A wildcard \in one :
                   validate_nsec3_wildcard_no_data(name, "A", e, at, beyond, wildcard) = "Secure"
                     => name \notin Existing(d) /\ Lacks(d, wildcard_of(Encloser(d, name)), "A")
         /\ \A e \in candidates, beyond \in one :
              (e \in Existing(d) /\ validate_nsec3_wildcard_answer(name, e, beyond) = "Secure")
                => name \notin Existing(d) /\ e = Encloser(d, name)
    /\ input.ask = "bitmap" =>
      \A t \in TypeCodes : validate_nsec_type_bit_maps(input.bitmap) => bitmap_contains(input.bitmap, t[1], t[2]) # "error"
    /\ input.ask = "types" =>
      LET bitmap == Encoded(input.types)
      IN \A t \in TypeCodes : /\ (nsec_type_bit_maps_contain(bitmap, t[1], t[2]) = "yes") = (t \in input.types)
                              /\ (bitmap_contains(bitmap, t[1], t[2]) = "yes") = (t \in input.types)

\* See NsecDenialsAreTrue, HashedDenialsAreTrue and HashedReferralsAreTrue.
DenialsAreTrue == NsecDenialsAreTrue /\ HashedDenialsAreTrue /\ HashedReferralsAreTrue

=============================================================================
