------------------------ MODULE DelegatedResolution -------------------------
(***************************************************************************)
(* AuthoritativeDnssecResolver::resolve_delegated of hns-browser-resolver: *)
(* one question asked about a name n below a zone that the Handshake chain *)
(* delegates, of the zone's DoH endpoints and of its name servers in turn, *)
(* until one of them gives an answer that DNSSEC confirms.                 *)
(*                                                                         *)
(* `world' is what is true and how the resolver is configured; it never    *)
(* changes.  The name may be an alias of t, and both may belong to a       *)
(* signed child zone.  Every exchange may be lost, garbled, truncated or   *)
(* answered with records nobody signed; what is "signed" is what the zone  *)
(* that owns the name published, and only that verifies.  A world may hold *)
(* one server whose exchanges always succeed and tell the truth.           *)
(*                                                                         *)
(* `job' is the call: its locals, from resolve_delegated down to the loop  *)
(* over aliases.  `evidence', `doubt', `skipped' and `folded' observe.     *)
(***************************************************************************)
EXTENDS Naturals, Sequences, SequencesExt, TLC, FiniteSets

CONSTANTS
    Setups,          \* configurations: DoH order, relay, endpoints, servers
    ChildLists,      \* the servers of the child zone that a referral may list
    MaxCnameChain    \* MAX_CNAME_CHAIN_LEN, scaled

VARIABLES world, job

resolutionVars == <<world, job>>

Names == {"n", "t"}

\* The zone that signs the records of n and t.
Signer == IF world.cut THEN "child" ELSE "zone"

-----------------------------------------------------------------------------
(* Errors *)

\* ResolverError, with "Response" for an invalid response, "Rcode" for a
\* response code other than NOERROR and NXDOMAIN, "Policy" for a refused
\* endpoint.  "" is no error.
Errors == {"DnsTransport", "Port53InterceptionDetected", "DnssecFailed",
           "Response", "Rcode", "Policy", "NoNameserverAddress",
           "InvalidAuthoritativeDoh"}

resolution_error_priority(error) ==
    CASE error = "DnsTransport" -> 0
      [] error = "Port53InterceptionDetected" -> 1
      [] OTHER -> 2

retain_strongest_resolution_error(current, candidate) ==
    IF current = ""
       \/ resolution_error_priority(candidate)
            >= resolution_error_priority(current)
    THEN candidate
    ELSE current

-----------------------------------------------------------------------------
(* One query *)

\* What an exchange brings back before its records are looked at.
Exchanges == {"lost", "garbled", "servfail", "truncated", "whole"}

\* parse_dns_response, and the error of the exchange itself.
ExchangeError(exchange) ==
    CASE exchange = "lost" -> "DnsTransport"
      [] exchange = "garbled" -> "Response"
      [] exchange = "servfail" -> "Rcode"
      [] OTHER -> ""

dns_query_should_retry_tcp(error) == error \in {"DnsTransport", "Response"}

\* dns_query_tcp: nothing may be truncated any more.
dns_query_tcp(tcp) ==
    IF tcp = "truncated" THEN "Response" ELSE ExchangeError(tcp)

\* dns_query_target: the error of a query sent through `via', "" if it
\* brought a response.  A relay is asked once, over its one exchange.
dns_query_target(via, address, udp, tcp) ==
    CASE address = "private" -> "Policy"
      [] via = "doh" -> ExchangeError(udp)
      [] world.relay -> dns_query_tcp(udp)
      [] via = "tcp" -> dns_query_tcp(tcp)
      [] udp = "truncated" -> dns_query_tcp(tcp)
      [] dns_query_should_retry_tcp(ExchangeError(udp)) ->
           IF dns_query_tcp(tcp) = "" THEN ""
           ELSE retain_strongest_resolution_error(ExchangeError(udp),
                                                  dns_query_tcp(tcp))
      [] OTHER -> ExchangeError(udp)

Outcomes(via, address) ==
    IF address = "honest"
    THEN {""}
    ELSE {dns_query_target(via, address, udp, tcp) :
            udp \in Exchanges, tcp \in Exchanges}

-----------------------------------------------------------------------------
(* Responses *)

\* The records of one name in a response: the answer or the alias that its
\* zone signed, or an answer, an alias or both that it did not.
Slots(name) ==
    {"none", "fake", "fakealias", "both"}
      \cup IF world.truth[name] \in {"data", "alias", "outside"}
           THEN {"signed"} ELSE {}

HasTarget(response, name) ==
    \/ response.slot[name] \in {"fake", "both"}
    \/ response.slot[name] = "signed" /\ world.truth[name] = "data"

HasAlias(response, name) ==
    \/ response.slot[name] \in {"fakealias", "both"}
    \/ response.slot[name] = "signed" /\ world.truth[name] # "data"

\* A denial is "fake", or the genuine proof that one name has no such records.
Denials == {"none", "fake"}
             \cup {name \in Names : world.truth[name] \in {"nodata", "nxdomain"}}

Response(question, rcode, n, t, denial, signer) ==
    [question |-> question, rcode |-> rcode, slot |-> [n |-> n, t |-> t],
     denial |-> denial, signer |-> signer, ds |-> "none", children |-> <<>>]

Genuine(n, t, denial) == "signed" \in {n, t} \/ denial \in Names

\* Everything a server may answer: records of n, records of t where they would
\* be looked at, a denial where one would be.
AnswersTo(question) ==
    {Response(question, rcode, n, t, denial, signer) :
       rcode \in {"NOERROR", "NXDOMAIN"}, n \in Slots("n"), t \in Slots("t"),
       denial \in Denials, signer \in {"zone", "child"}}

Useful(response) ==
    LET n == response.slot["n"] t == response.slot["t"] IN
    /\ Genuine(n, t, response.denial) => response.signer = Signer
    /\ response.question = "n" =>
         /\ t # "none" => n = "signed" /\ world.truth["n"] = "alias"
         /\ response.denial # "none" =>
              n = "none" \/ (n = "signed" /\ t = "none")
    /\ response.question = "t" =>
         /\ n = "none"
         /\ response.denial # "none" => t = "none"

Referrals ==
    {[Response("n", "NOERROR", "none", "none", "none", "zone")
        EXCEPT !.ds = ds, !.children = children] :
       ds \in {"fake"} \cup (IF world.cut THEN {"signed"} ELSE {}),
       children \in ChildLists}

\* What an honest server of the zone that owns the names says: the alias alone, or
\* with it what there is to say of its target.  The response code is then that of
\* the last name (RFC 6604).
Absent(name) == world.truth[name] \in {"nodata", "nxdomain"}
Rcode(name) == IF world.truth[name] = "nxdomain" THEN "NXDOMAIN" ELSE "NOERROR"
Slot(name) == IF Absent(name) THEN "none" ELSE "signed"
Proof(name) == IF Absent(name) THEN name ELSE "none"
Honest(question) ==
    CASE question = "t" -> {Response("t", Rcode("t"), "none", Slot("t"), Proof("t"), Signer)}
      [] world.truth["n"] = "alias" ->
           {Response("n", "NOERROR", "signed", "none", "none", Signer),
            Response("n", Rcode("t"), "signed", Slot("t"), Proof("t"), Signer)}
      [] OTHER -> {Response("n", Rcode("n"), Slot("n"), "none", Proof("n"), Signer)}

\* A truthful referral lists servers of which one is honest, perhaps the last.
HonestReferrals ==
    {[Response("n", "NOERROR", "none", "none", "none", "zone")
        EXCEPT !.ds = "signed", !.children = children] :
       children \in {<<"honest">>, <<"public", "honest">>}}

Responses(question, level, address) ==
    IF address = "honest"
    THEN IF level = "zone" /\ world.cut THEN HonestReferrals
         ELSE Honest(question)
    ELSE {r \in AnswersTo(question) : Useful(r)}
           \cup (IF level = "zone" /\ question = "n" THEN Referrals ELSE {})

\* A DNSKEY or DS set with its signatures: absent, somebody's, or the zone's.
Keys(address, exists) ==
    IF address = "honest" THEN {"signed"}
    ELSE {"none", "fake"} \cup (IF exists THEN {"signed"} ELSE {})

-----------------------------------------------------------------------------
(* What DNSSEC confirms *)

\* SystemDnssecVerifier: the chain of keys from the DS set of the delegation to
\* the zone `level', all of it signed.
ChainIsSecure(level) ==
    /\ job.keys = "signed"
    /\ level = "child" => job.ds = "signed" /\ job.childkeys = "signed"

\* validate_positive_rrset, validate_child_positive_rrset
validate_positive_rrset(level, name) ==
    /\ ChainIsSecure(level)
    /\ job.response.slot[name] = "signed"
    /\ job.response.signer = level

any_signed_denial(level, name, kind) ==
    ChainIsSecure(level) /\ job.response.denial \in Names /\ job.response.signer = level

\* The proof is signed by that zone, for this name and of this kind.
Denies(level, name, kind) ==
    /\ job.response.denial = name
    /\ job.response.signer = level
    /\ world.truth[name] = kind

\* Of a child zone: its DS set is signed by the parent, and its keys by that set.
validate_child_no_data(name) == ChainIsSecure("child") /\ Denies("child", name, "nodata")
validate_child_name_error(name) == ChainIsSecure("child") /\ Denies("child", name, "nxdomain")

\* validate_no_data and validate_name_error, and their child forms.
validate_denial(level, name, kind) ==
    IF level = "zone" THEN ChainIsSecure(level) /\ Denies(level, name, kind)
    ELSE IF kind = "nodata" THEN validate_child_no_data(name)
    ELSE validate_child_name_error(name)

-----------------------------------------------------------------------------
(* The call *)

NoResponse == [question |-> "", rcode |-> "", slot |-> [n |-> "", t |-> ""],
               denial |-> "", signer |-> "", ds |-> "", children |-> <<>>]

\* The locals of one attempt, and of the loops below it.
Attempt == [via |-> "", address |-> "", keys |-> "", ds |-> "", childkeys |-> "",
            children |-> <<>>, child |-> "", owner |-> "n", turns |-> 0,
            prefix |-> <<>>, response |-> NoResponse, doubt |-> FALSE]

Between(j, stage) == [stage |-> stage] @@ Attempt @@ j

Finish(j, error) == [result |-> error] @@ Between(j, "done")

Answer(j, secure, records) ==
    [result |-> "answer", secure |-> secure, records |-> records]
      @@ Between(j, "done")

Retain(j, error, stage) ==
    Between([j EXCEPT
               !.error = retain_strongest_resolution_error(@, error),
               !.evidence = @ \/ j.doubt
                              \/ resolution_error_priority(error) = 2],
            stage)

\* The attempt on one endpoint or server has failed.
AttemptFailed(j, error) ==
    CASE j.via = "doh" -> Retain(j, error, IF world.doh = "first"
                                           THEN "first" ELSE "last")
      [] world.relay -> Finish(j, error)
      [] j.via = "server" /\ error = "DnssecFailed" -> [j EXCEPT !.stage = "probe"]
      [] j.via = "tcp" ->
           Retain(j, retain_strongest_resolution_error("DnssecFailed", error),
                  "servers")
      [] OTHER -> Retain(j, error, "servers")

\* resolve_secure_child_referral goes on to its next server and keeps the error
\* of the last one.
Fail(j, error) ==
    IF j.child # "" /\ j.children # <<>>
    THEN [j EXCEPT !.child = Head(j.children), !.children = Tail(@),
                   !.stage = "childkey", !.childkeys = "", !.owner = "n",
                   !.turns = 0, !.prefix = <<>>, !.response = NoResponse,
                   !.doubt = @ \/ resolution_error_priority(error) = 2]
    ELSE AttemptFailed(j, error)

Begin(j, via, address) ==
    [via |-> via, address |-> address] @@ Between(j, "target")

Truths ==
    {[n |-> n, t |-> "data"] : n \in {"data", "outside", "nodata", "nxdomain"}}
      \cup {[n |-> "alias", t |-> t] :
              t \in {"data", "alias", "nodata", "nxdomain"}}

\* A delegation without DS records needs no truth: nothing in it is confirmed.
Worlds ==
    {[signed |-> w.signed, cut |-> w.cut, truth |-> w.truth] @@ setup :
       w \in {w \in [signed : BOOLEAN, cut : BOOLEAN, truth : Truths] :
                ~w.signed => ~w.cut /\ w.truth["n"] = "data"},
       setup \in Setups}

ResolutionInit ==
    /\ world \in Worlds
    /\ job = [stage |-> "start", error |-> "", result |-> "", secure |-> FALSE,
              records |-> <<>>, servers |-> world.servers,
              endpoints |-> world.endpoints, evidence |-> FALSE,
              skipped |-> FALSE, folded |-> FALSE] @@ Attempt

-----------------------------------------------------------------------------
(* resolve_delegated: which endpoint or server is asked next *)

Start ==
    /\ job.stage = "start"
    /\ job' = IF job.servers = <<>> THEN Finish(job, "NoNameserverAddress")
              ELSE Between(job, "first")
    /\ UNCHANGED world

\* The DoH endpoints, before the servers if they are preferred and after them
\* otherwise.  A declaration that cannot be read is a failure like another.
AskEndpoints ==
    /\ job.stage \in {"first", "last"}
    /\ LET turn == IF job.stage = "first" THEN "first" ELSE "after"
           next == IF job.stage = "first" THEN "direct" ELSE "over"
       IN  job' = CASE world.doh # turn -> Between(job, next)
                    [] ~world.declared ->
                         Retain(job, "InvalidAuthoritativeDoh", next)
                    [] job.endpoints = <<>> -> Between(job, next)
                    [] OTHER -> Begin([job EXCEPT !.endpoints = Tail(@)], "doh",
                                      Head(job.endpoints))
    /\ UNCHANGED world

FirstAllowed(addresses) == SelectSeq(addresses, LAMBDA a : a # "private")

\* A recursive relay is given the first server that policy allows, and what it
\* says is final.
AskRelay ==
    /\ job.stage = "direct"
    /\ world.relay
    /\ LET allowed == FirstAllowed(job.servers) IN
       job' = IF allowed = <<>> THEN Finish(job, "NoNameserverAddress")
              ELSE Begin(job, "server", Head(allowed))
    /\ UNCHANGED world

\* Port 53 is known to be intercepted: the servers are not asked.
SkipServers ==
    /\ job.stage = "direct"
    /\ ~world.relay
    /\ job' = [Between(job, "last") EXCEPT
                 !.error = "Port53InterceptionDetected", !.skipped = TRUE]
    /\ UNCHANGED world

AskServers ==
    /\ job.stage = "direct"
    /\ ~world.relay
    /\ job' = Between(job, "servers")
    /\ UNCHANGED world

AskServer ==
    /\ job.stage = "servers"
    /\ job' = IF job.servers = <<>> THEN Between(job, "last")
              ELSE Begin([job EXCEPT !.servers = Tail(@)], "server",
                         Head(job.servers))
    /\ UNCHANGED world

GiveUp ==
    /\ job.stage = "over"
    /\ job' = Finish(job, IF job.error = "" THEN "NoNameserverAddress"
                          ELSE job.error)
    /\ UNCHANGED world

\* resolve_delegated_from_server: records that fail validation may be the work
\* of an interceptor; if the probe finds one no server is asked any more, and
\* if not the server is asked again over TCP.
Probe(detected) ==
    /\ job.stage = "probe"
    /\ detected => job.address # "honest"
    /\ job' = IF detected
              THEN Retain([job EXCEPT !.servers = <<>>, !.skipped = TRUE,
                                      !.doubt = FALSE],
                          "Port53InterceptionDetected", "last")
              ELSE Begin(job, "tcp", job.address)
    /\ UNCHANGED world

-----------------------------------------------------------------------------
(* resolve_delegated_from_server_target, _from_doh_endpoint *)

\* The address the next query goes to, and how.  Below a referral, and for
\* the keys of an inline child, it is plain DNS whatever the attempt uses.
Asked == IF job.child # "" THEN job.child ELSE job.address

Via == IF job.stage \in {"target", "dnskey", "requery"} /\ job.child = ""
       THEN job.via ELSE "server"

Level == IF job.child # "" THEN "child" ELSE "zone"

QueryFails(error) ==
    /\ job.stage \in {"target", "dnskey", "inlineds", "inlinekey", "childkey",
                      "childtarget", "requery"}
    /\ error \in Outcomes(Via, Asked) \ {""}
    /\ job' = Fail(job, error)
    /\ UNCHANGED world

Answered(stage) == job.stage = stage /\ "" \in Outcomes(Via, Asked)

\* An alias and the name error of its target in one response.
Folded(response) == response.rcode = "NXDOMAIN" /\ HasAlias(response, "n")

\* A zone without DS records is not validated at all.
Target ==
    /\ Answered("target")
    /\ \E response \in Responses("n", "zone", job.address) :
         job' = IF ~world.signed
                THEN Answer(job, FALSE,
                            IF HasTarget(response, "n") THEN <<"n">> ELSE <<>>)
                ELSE [job EXCEPT !.response = response, !.stage = "dnskey",
                                 !.folded = @ \/ (job.address = "honest" /\ Folded(response))]
    /\ UNCHANGED world

Settle(j, secure, records) ==
    IF secure THEN Answer(j, TRUE, records) ELSE Fail(j, "DnssecFailed")

\* resolve_secure_child_referral
FollowReferral(j, keys) ==
    LET response == j.response
        allowed == FirstAllowed(response.children)
        below(children) ==
            [j EXCEPT !.stage = "childkey", !.keys = keys, !.ds = response.ds,
                      !.child = Head(children), !.children = Tail(children)]
    IN  CASE keys = "none" -> Fail(j, "DnssecFailed")
          [] response.children = <<>> -> Fail(j, "NoNameserverAddress")
          [] world.relay -> IF allowed = <<>>
                            THEN Fail(j, "NoNameserverAddress")
                            ELSE below(<<Head(allowed)>>)
          [] OTHER -> below(response.children)

\* With the keys of the zone at hand: a name error, a referral, an answer or
\* a denial that names a child zone as its signer, or the zone's own records.
Dnskey ==
    /\ Answered("dnskey")
    /\ \E keys \in Keys(job.address, TRUE) :
         LET j == [job EXCEPT !.keys = keys]
             response == job.response
             bare == ~HasTarget(response, "n") /\ ~HasAlias(response, "n")
             inline == /\ response.signer = "child"
                       /\ \/ HasTarget(response, "n")
                          \/ bare /\ response.denial # "none"
         IN  job' = CASE response.rcode = "NXDOMAIN" -> [j EXCEPT !.stage = "deny"]
                      [] response.ds # "none" -> FollowReferral(j, keys)
                      [] inline -> IF keys = "none" THEN Fail(j, "DnssecFailed")
                                   ELSE [j EXCEPT !.stage = "inlineds"]
                      [] bare -> [j EXCEPT !.stage = "deny"]
                      [] keys = "none" -> Fail(j, "DnssecFailed")
                      [] OTHER -> [j EXCEPT !.stage = "walk"]
    /\ UNCHANGED world

\* fetch_inline_child_dnssec_material
InlineDs ==
    /\ Answered("inlineds")
    /\ \E ds \in Keys(job.address, world.cut) :
         job' = [job EXCEPT !.ds = ds, !.stage = "inlinekey"]
    /\ UNCHANGED world

InlineKey ==
    /\ Answered("inlinekey")
    /\ \E keys \in Keys(job.address, world.cut) :
         job' = IF "none" \in {keys, job.ds} THEN Fail(job, "DnssecFailed")
                ELSE [job EXCEPT !.childkeys = keys, !.stage = "inline"]
    /\ UNCHANGED world

\* resolve_secure_inline_child_answer, resolve_secure_inline_child_no_data
Inline ==
    /\ job.stage = "inline"
    /\ job' = IF HasTarget(job.response, "n")
              THEN Settle(job, validate_positive_rrset("child", "n"), <<"n">>)
              ELSE Settle(job, validate_denial("child", "n", "nodata"), <<>>)
    /\ UNCHANGED world

\* resolve_secure_child_from_server
ChildKey ==
    /\ Answered("childkey")
    /\ \E keys \in Keys(job.child, world.cut) :
         job' = IF keys = "none" THEN Fail(job, "DnssecFailed")
                ELSE [job EXCEPT !.childkeys = keys, !.stage = "childtarget"]
    /\ UNCHANGED world

ChildTarget ==
    /\ Answered("childtarget")
    /\ \E response \in Responses("n", "child", job.child) :
         job' = [job EXCEPT !.response = response, !.stage = "walk"]
    /\ UNCHANGED world

-----------------------------------------------------------------------------
(* resolve_secure_answer_records, resolve_secure_child_answer_records *)

\* resolve_secure_name_error, resolve_secure_no_data and their child forms.
Deny ==
    /\ job.stage = "deny"
    /\ LET kind == IF job.response.rcode = "NXDOMAIN" THEN "nxdomain" ELSE "nodata"
       IN  job' = Settle(job, validate_denial(Level, job.owner, kind), job.prefix)
    /\ UNCHANGED world

\* One turn of the loop over aliases.
Walk ==
    /\ job.stage = "walk"
    /\ LET response == job.response
           owner == job.owner
           target == HasTarget(response, owner)
           alias == HasAlias(response, owner)
           genuine == validate_positive_rrset(Level, owner)
           j == [job EXCEPT !.turns = @ + 1]
       IN  job' = CASE job.turns > MaxCnameChain -> Fail(job, "DnssecFailed")
                    [] target /\ alias -> Fail(j, "DnssecFailed")
                    [] target -> Settle(j, genuine, Append(job.prefix, owner))
                    [] alias -> IF ~genuine \/ world.truth[owner] = "outside"
                                THEN Fail(j, "DnssecFailed")
                                ELSE [j EXCEPT
                                        !.prefix = Append(@, owner),
                                        !.owner = IF owner = "n" THEN "t" ELSE "n"]
                    [] owner # "n" /\ response.question # owner ->
                         [j EXCEPT !.stage = "requery"]
                    [] OTHER -> [j EXCEPT !.stage = "deny"]
    /\ UNCHANGED world

Requery ==
    /\ Answered("requery")
    /\ \E response \in Responses(job.owner, Level, Asked) :
         job' = [job EXCEPT !.response = response, !.stage = "walk"]
    /\ UNCHANGED world

ResolutionNext ==
    \/ Start \/ AskEndpoints \/ AskRelay \/ SkipServers \/ AskServers \/ AskServer
    \/ GiveUp
    \/ \E detected \in BOOLEAN : Probe(detected)
    \/ \E error \in Errors : QueryFails(error)
    \/ Target \/ Dnskey \/ InlineDs \/ InlineKey \/ Inline \/ ChildKey
    \/ ChildTarget \/ Deny \/ Walk \/ Requery

ResolutionSpec == ResolutionInit /\ [][ResolutionNext]_resolutionVars

-----------------------------------------------------------------------------
(* Properties *)

Done == job.stage = "done"

\* What a resolver that sees the zone as it is would answer.
TrueRecords ==
    CASE world.truth["n"] = "data" -> <<"n">>
      [] world.truth["n"] = "alias" ->
           IF world.truth["t"] = "data" THEN <<"n", "t">> ELSE <<"n">>
      [] OTHER -> <<>>

\* Whatever the servers, the DoH endpoints, a relay or an interceptor send, a
\* secure answer holds exactly the records the zone published, aliases first,
\* and an empty one means that there are none; below a DS record no answer is
\* insecure, and without one none is secure.
AnswersAreAuthentic ==
    job.result = "answer" =>
        /\ job.secure = world.signed
        /\ job.secure => /\ job.records = TrueRecords
                         /\ world.truth["n"] # "outside"
                         /\ world.truth["t"] # "alias"

Resolvable == world.truth["n"] # "outside" /\ world.truth["t"] # "alias"

\* One server that works and tells the truth is enough: whatever the servers
\* and endpoints asked before it do, and whichever servers of the child zone
\* fail first, the question is answered; unless port 53 was found intercepted
\* or a relay answers for all servers, or a server of the delegated zone itself
\* sent an alias with the NXDOMAIN of its target: that response code is read as
\* the alias's own, and no denial of the alias will verify.  A server of a child
\* zone may do the same: there the alias is followed first.
OneHonestServerIsEnough ==
    /\ Done
    /\ Resolvable
    /\ ~world.relay
    /\ ~job.skipped
    /\ ~job.folded
    /\ \E i \in DOMAIN world.servers : world.servers[i] = "honest"
    => job.result = "answer"

\* What resolution_error_priority promises: a later transport failure cannot
\* erase a data, response or policy failure, so "nobody could be reached" is
\* only returned if none was seen on the way.
NoFailureIsErased ==
    Done /\ ~world.relay /\ job.result = "DnsTransport" => ~job.evidence

-----------------------------------------------------------------------------
(***************************************************************************)
(* hns-browser-p2p, dns_relay.rs: DnsRelayClient, which has queries        *)
(* answered by peers that offer the DNS relay service.                     *)
(*                                                                         *)
(* The client is used through &mut, so calls do not overlap; a call is a   *)
(* sequence of steps because its peers answer while it runs.  A connection *)
(* is the queue of packets its peer has sent and the requests the peer has *)
(* not answered; both end with it.  A Reliable peer answers each request   *)
(* once, with the request's identifier; any other peer sends what it likes *)
(* under the identifiers it has seen, which are random numbers of 64 bits  *)
(* and are taken never to repeat.                                          *)
(*                                                                         *)
(* Scores and heights only order the peers: an order is any sequence.  A   *)
(* malformed answer alone reaches the score that bans, so a ban is exactly *)
(* that.  The contents of queries and answers are in PeerMessages.         *)
(***************************************************************************)

CONSTANTS Peer,               \* addresses in the peer manager
          Reliable,           \* those whose answers can be trusted
          Group,              \* PeerAddressGroup::from_socket_addr
          ProofPeer,          \* proof_peer; any other value is none
          Query,              \* prepared queries
          MaxConnections,     \* max_connections
          AlternateRetries,   \* alternate_retries
          HandshakeBudget,    \* MAX_DNS_RELAY_HANDSHAKE_ATTEMPTS_PER_RESOLUTION
          MaxPackets,         \* MAX_ADVISORY_PACKETS_PER_EXCHANGE
          Cooldown, Ban,      \* DEFAULT_DNS_RELAY_{COOLDOWN, MALFORMED_BAN}_SECONDS
          MaxCalls, MaxQueue, MaxTime   \* bounds of the model

VARIABLES clock,              \* seconds of the wall clock
          connections,        \* Peer -> <<>> or the one live connection to it
          cooldowns, banned,  \* Peer -> the time until which it is not used
          pending,            \* request identifiers in flight
          call,               \* the resolution that runs, or how the last one ended
          issued,             \* request identifiers given out
          reported            \* Peer -> when an answer of it was last reported, plus one

relayVars == <<clock, connections, cooldowns, banned, pending, call, issued, reported>>

-----------------------------------------------------------------------------
(* What peers send.                                                        *)

BackoffStatuses == {"Unsupported", "Busy", "ResolverUnavailable", "Timeout", "InternalError"}
ErrorStatuses == {"Refused", "InvalidQuery", "Busy"}

Relay(id, status, query, forged) ==
    [kind |-> "DnsRelay", id |-> id, status |-> status, query |-> query, forged |-> forged]
Other(kind) == [kind |-> kind]

\* Packets that any peer may interleave with its answers: pings, addresses, headers.
Advisories == {Other("Advisory")}
\* Packets that end the exchange at once.
Faults == {Other("Version"), Other("InvalidDnsRelayStatus"), Other("Garbage")}

Replies(request) ==
    {Relay(request.id, "Ok", request.query, FALSE)}
      \cup {Relay(request.id, s, request.query, FALSE) : s \in ErrorStatuses}
Anything(seen) ==
    Faults \cup {Relay(r.id, "Ok", q, f) : r \in seen, q \in Query, f \in BOOLEAN}

-----------------------------------------------------------------------------
(* Peers and connections.                                                  *)

NewConnection == [sent |-> <<>>, open |-> {}, seen |-> {}]
Connected == {p \in Peer : connections[p] # <<>>}
Live(p) == connections[p][1]

IsBanned(p, now) == banned[p] > now
IsCooling(p, now) == cooldowns[p] > now

Without(conns, ps) == [p \in Peer |-> IF p \in ps THEN <<>> ELSE conns[p]]

\* send_packet and receive_packet of a connection: the peer sees what was written
\* in whole, and is read packet by packet.
send_packet(p, request) ==
    [connections EXCEPT ![p][1].open = @ \cup {request}, ![p][1].seen = @ \cup {request}]
receive_packet(p) == [connections EXCEPT ![p][1].sent = Tail(@)]

Malformed(p, now) ==
    /\ banned' = [banned EXCEPT ![p] = now + Ban]
    /\ cooldowns' = [cooldowns EXCEPT ![p] = now + Cooldown]
    /\ connections' = Without(connections, {p})
Transport(p, now) ==
    /\ cooldowns' = [cooldowns EXCEPT ![p] = now + Cooldown]
    /\ connections' = Without(connections, {p})
    /\ UNCHANGED banned

\* DnsRelayPeerCapability::is_eligible and the ban select_dns_relay looks at;
\* a live connection is handshaken and offers the service.
is_eligible(p, now) == p \in Connected /\ ~IsCooling(p, now) /\ ~IsBanned(p, now)

\* select_dns_relay: the first of every address group, then the others.
select_dns_relay(order) ==
    LET First(p) == \A i \in 1..Len(order) :
                      (\E j \in 1..Len(order) : order[j] = p /\ i < j) => Group[order[i]] # Group[p]
        Later(p) == ~First(p)
    IN  SelectSeq(order, First) \o SelectSeq(order, Later)

Orders(eligible) ==
    {o \in SetToSeqs(eligible) :
       \A i \in 1..Len(o) : o[i] = ProofPeer => i = Len(o)}

select_connection(order, exclude) ==
    LET NotExcluded(p) == p \notin exclude
    IN  SelectSeq(select_dns_relay(order), NotExcluded)

-----------------------------------------------------------------------------
(* A resolution.                                                           *)

\* `pc' is where the call stands: "idle", "replenish", "select", "receive".
Idle == [pc |-> "idle", now |-> 0, query |-> "none", attempted |-> {}, retry |-> 0,
         budget |-> HandshakeBudget, candidates |-> {}, peer |-> "none", id |-> 0,
         packets |-> 0, result |-> "none"]

RelayInit ==
    /\ clock = 0 /\ issued = 0 /\ pending = {}
    /\ connections = [p \in Peer |-> <<>>]
    /\ cooldowns = [p \in Peer |-> 0]
    /\ banned = [p \in Peer |-> 0]
    /\ reported = [p \in Peer |-> 0]
    /\ call = Idle

Candidates(conns, exclude, now) ==
    {p \in Peer : ~IsBanned(p, now) /\ conns[p] = <<>> /\ p \notin exclude /\ ~IsCooling(p, now)}

\* replenish_connections up to its loop: banned peers are dropped, and where the
\* pool has room the candidates are listed.
Replenish(c) ==
    LET kept == Without(connections, {p \in Peer : IsBanned(p, c.now)})
        full == Cardinality({p \in Peer : kept[p] # <<>>}) >= MaxConnections
    IN  /\ connections' = kept
        /\ call' = [c EXCEPT !.pc = "replenish",
                             !.candidates = IF full THEN {} ELSE Candidates(kept, c.attempted, c.now)]

\* A query that prepare_dns_relay_query refuses changes nothing and is not a step.
resolve_at ==
    \E q \in Query :
      /\ call.pc = "idle" /\ issued < MaxCalls
      /\ Replenish([Idle EXCEPT !.now = clock, !.query = q])
      /\ UNCHANGED <<clock, cooldowns, banned, pending, issued, reported>>

\* A handshake, within its deadline and packet limit, shows whether the peer offers the service;
\* one that fails is like one that shows it does not.
Handshakes == BOOLEAN

\* One candidate: the proof peer comes last.  A connection that cannot be made, a
\* handshake that fails and a peer without the service cool the peer down.
Connect ==
    \E p \in call.candidates, offered \in Handshakes :
      /\ call.pc = "replenish"
      /\ Cardinality(Connected) < MaxConnections /\ call.budget > 0
      /\ p = ProofPeer => call.candidates = {p}
      /\ call' = [call EXCEPT !.candidates = @ \ {p}, !.budget = @ - 1]
      /\ IF offered
         THEN connections' = [connections EXCEPT ![p] = <<NewConnection>>] /\ UNCHANGED cooldowns
         ELSE cooldowns' = [cooldowns EXCEPT ![p] = call.now + Cooldown] /\ UNCHANGED connections
      /\ UNCHANGED <<clock, banned, pending, issued, reported>>

Replenished ==
    /\ call.pc = "replenish"
    /\ call.candidates = {} \/ Cardinality(Connected) >= MaxConnections \/ call.budget = 0
    /\ call' = [call EXCEPT !.pc = "select", !.candidates = {}]
    /\ UNCHANGED <<clock, connections, cooldowns, banned, pending, issued, reported>>

\* The call ends; the caller learns the peer and the result.
End(c, result) == [Idle EXCEPT !.peer = c.peer, !.result = result]

NoConnection ==
    /\ call.pc = "select"
    /\ {p \in Peer \ call.attempted : is_eligible(p, call.now)} = {}
    /\ call' = End(call, IF call.result = "none" THEN "NoCapablePeer" ELSE call.result)
    /\ UNCHANGED <<clock, connections, cooldowns, banned, pending, issued, reported>>

\* The peer is marked attempted and the request is sent; the write may fail.
Ask ==
    \E order \in Orders({p \in Peer : is_eligible(p, call.now)}), written \in BOOLEAN :
      LET chosen == select_connection(order, call.attempted)
          id == issued + 1
      IN  /\ call.pc = "select" /\ chosen # <<>>
          /\ issued' = id /\ pending' = pending \cup {id}
          /\ LET p == Head(chosen)
                 request == [id |-> id, query |-> call.query]
             IN  /\ connections' = IF written THEN send_packet(p, request) ELSE connections
                 /\ call' = [call EXCEPT !.pc = IF written THEN "receive" ELSE "broken",
                                         !.attempted = @ \cup {p}, !.peer = p, !.id = id, !.packets = 0]
          /\ UNCHANGED <<clock, cooldowns, banned, reported>>

\* AttemptFailure: what becomes of the peer, and whether another one is asked.
Retry(error, retryable) ==
    LET failed == [call EXCEPT !.result = error]
    IN  call' = IF retryable /\ call.retry < AlternateRetries
                THEN [failed EXCEPT !.pc = "retry", !.retry = @ + 1]
                ELSE End(failed, error)

TransportFails(error) ==
    Transport(call.peer, call.now) /\ pending' = pending \ {call.id} /\ Retry(error, TRUE)
MalformedFails(error) ==
    Malformed(call.peer, call.now) /\ pending' = pending \ {call.id} /\ Retry(error, TRUE)
UnknownStatus ==
    /\ connections' = Without(connections, {call.peer})
    /\ pending' = pending \ {call.id} /\ Retry("Transport", TRUE)
    /\ UNCHANGED <<cooldowns, banned>>
StatusFails(status, conns) ==
    /\ connections' = conns
    /\ cooldowns' = IF status \in BackoffStatuses
                    THEN [cooldowns EXCEPT ![call.peer] = call.now + Cooldown] ELSE cooldowns
    /\ pending' = pending \ {call.id} /\ Retry("Status", status # "InvalidQuery")
    /\ UNCHANGED banned

Again ==
    /\ call.pc = "retry"
    /\ Replenish(call)
    /\ UNCHANGED <<clock, cooldowns, banned, pending, issued, reported>>

SendFails ==
    /\ call.pc = "broken"
    /\ TransportFails("Transport")
    /\ UNCHANGED <<clock, issued, reported>>

\* One packet of exchange.
Receive ==
    /\ call.pc = "receive" /\ Live(call.peer).sent # <<>> /\ call.packets < MaxPackets
    /\ LET packet == Head(Live(call.peer).sent)
           read == receive_packet(call.peer)
       IN  \/ /\ packet.kind = "DnsRelay" /\ (packet.id # call.id \/ call.id \notin pending)
              /\ MalformedFails("UnsolicitedResponse")
           \/ /\ packet.kind = "DnsRelay" /\ packet.id = call.id /\ call.id \in pending
              /\ \/ packet.status # "Ok" /\ StatusFails(packet.status, read)
                 \/ packet.status = "Ok" /\ packet.query # call.query /\ MalformedFails("InvalidResponse")
                 \/ /\ packet.status = "Ok" /\ packet.query = call.query
                    /\ connections' = read /\ pending' = pending \ {call.id}
                    /\ call' = End(call, IF packet.forged THEN "Forged" ELSE "Genuine")
                    /\ UNCHANGED <<cooldowns, banned>>
           \/ packet.kind = "Version" /\ MalformedFails("UnexpectedPacket")
           \/ packet.kind = "InvalidDnsRelayStatus" /\ UnknownStatus
           \/ packet.kind = "Garbage" /\ TransportFails("Transport")
           \/ /\ packet.kind = "Advisory"
              /\ connections' = read /\ call' = [call EXCEPT !.packets = @ + 1]
              /\ UNCHANGED <<cooldowns, banned, pending>>
    /\ UNCHANGED <<clock, issued, reported>>

\* The deadline of the exchange passes, the connection breaks, or the packet
\* limit is reached.
ExchangeFails ==
    /\ call.pc = "receive"
    /\ TransportFails(IF call.packets >= MaxPackets THEN "AdvisoryPacketLimit" ELSE "Transport")
    /\ UNCHANGED <<clock, issued, reported>>

\* report_dnssec_failure, which the caller makes for an answer that does not verify.
report_dnssec_failure ==
    /\ call.pc = "idle" /\ call.result = "Forged"
    /\ call' = [call EXCEPT !.result = "none"]
    /\ IF call.peer \in Connected
       THEN Malformed(call.peer, clock) /\ reported' = [reported EXCEPT ![call.peer] = clock + 1]
       ELSE UNCHANGED <<connections, cooldowns, banned, reported>>
    /\ UNCHANGED <<clock, pending, issued>>

shutdown ==
    /\ call.pc = "idle" /\ Connected # {}
    /\ connections' = [p \in Peer |-> <<>>] /\ pending' = {}
    /\ UNCHANGED <<clock, cooldowns, banned, call, issued, reported>>

-----------------------------------------------------------------------------
(* The peers and time.                                                     *)

RelayAnswer ==
    \E p \in Connected : \E request \in Live(p).open : \E packet \in Replies(request) :
      /\ Len(Live(p).sent) < MaxQueue
      /\ connections' = [connections EXCEPT ![p][1].sent = Append(@, packet),
                                            ![p][1].open = @ \ {request}]
      /\ UNCHANGED <<clock, cooldowns, banned, pending, call, issued, reported>>

Interject ==
    \E p \in Connected :
      \E packet \in Advisories \cup IF p \in Reliable THEN {} ELSE Anything(Live(p).seen) :
        /\ Len(Live(p).sent) < MaxQueue
        /\ connections' = [connections EXCEPT ![p][1].sent = Append(@, packet)]
        /\ UNCHANGED <<clock, cooldowns, banned, pending, call, issued, reported>>

\* A call reads the clock once, when it begins.
Tick == call.pc = "idle" /\ clock < MaxTime /\ clock' = clock + 1
        /\ UNCHANGED <<connections, cooldowns, banned, pending, call, issued, reported>>

RelayNext ==
    \/ resolve_at \/ Connect \/ Replenished \/ NoConnection \/ Ask \/ Again
    \/ SendFails \/ Receive \/ ExchangeFails
    \/ report_dnssec_failure \/ shutdown
    \/ RelayAnswer \/ Interject \/ Tick

RelaySpec == RelayInit /\ [][RelayNext]_relayVars

-----------------------------------------------------------------------------

\* Correlation survives failure.  A peer that answers every request once, under the
\* request's identifier, is never banned, however late its answers are and whatever
\* the calls before ended with: the connection that still owes an answer when an
\* exchange fails is the one that is dropped, so between exchanges a live connection
\* to such a peer owes nothing and has no answer under way.
ReliablePeersAreNotBanned ==
    /\ \A p \in Reliable : banned[p] = 0
    /\ call.pc \in {"idle", "replenish", "select", "retry"} =>
         /\ pending = {}
         /\ \A p \in Reliable \cap Connected :
              Live(p).open = {} /\ \A i \in 1..Len(Live(p).sent) : Live(p).sent[i].kind # "DnsRelay"

\* An answer that is returned is the answer of the peer that was asked: from a reliable
\* peer it is genuine, whatever other peers send.  A peer whose answer was reported as forged while it
\* was connected is not asked again until its ban has passed.
AnswersAreOfThisRequest ==
    /\ call.result = "Forged" => call.peer \notin Reliable
    /\ call.pc \in {"receive", "broken"} =>
         /\ call.id \in pending /\ call.peer \in Connected
         /\ reported[call.peer] > 0 => call.now >= reported[call.peer] - 1 + Ban

\* A resolution stays within its bounds and gives up only for cause: it opens no more
\* connections than the pool holds, makes no more handshakes and attempts than it may,
\* and it finds no capable peer only when every peer is banned, cools down or is beyond
\* its handshakes, or when the pool is full of peers that cool down.
GivesUpForCause ==
    /\ Cardinality(Connected) <= MaxConnections
    /\ Cardinality(call.attempted) <= AlternateRetries + 1
    /\ /\ call.pc = "select" /\ call.result = "none" /\ Cardinality(Connected) < MaxConnections
       /\ \A p \in Peer : ~is_eligible(p, call.now)
       => \A p \in Peer : IsBanned(p, call.now) \/ IsCooling(p, call.now) \/ call.budget = 0

\* See the three above.
RelayExchangesAgree == ReliablePeersAreNotBanned /\ AnswersAreOfThisRequest /\ GivesUpForCause
=============================================================================
