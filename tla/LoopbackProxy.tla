---------------------------- MODULE LoopbackProxy ----------------------------
(***************************************************************************)
(* hns-loopback-proxy: the sessions that turn authenticated CONNECT        *)
(* requests into tunnel grants, against an engine that other threads drive.*)
(*                                                                         *)
(* A session method has &mut self, so the calls of a session exclude each  *)
(* other; the engine's lock is taken and released for every question a     *)
(* method asks, so the engine may change between two questions.  A method  *)
(* that asks once is one action; the others are split at each question,    *)
(* `call' holding what the method carries across it.                       *)
(*                                                                         *)
(* The engine is reduced to what a session asks it: runtime generation,    *)
(* bridge readiness and whether an authority is current.  Pending tokens,  *)
(* admissions and authorities are not Clone: a call consumes those it      *)
(* takes by value, also when it fails.  An origin stands for scheme, host  *)
(* and port.  Two sessions may have the same endpoint and identity: only   *)
(* the instance id tells them apart for certain.                           *)
(***************************************************************************)
EXTENDS Integers, FiniteSets

CONSTANTS Origin,             \* origins authorities and CONNECTs name
          Scope,              \* origins inside HostScope
          Window,             \* (valid_from, valid_until) of authorities
          MaxInstances,       \* sessions a process opens
          MaxEpoch,           \* bound on the invalidations of the engine
          MaxAuthorities,     \* bound on the authorities a host holds
          MaxConnects,        \* u64::MAX of ProxySession.sequence
          MaxCounter,         \* u64::MAX of its other counters
          MaxNow,             \* bound on the times hosts pass
          MaxTime,            \* u64::MAX of a time
          MaxPending,         \* ProxyLimits.maximum_pending
          PendingLifetime,    \* ProxyLimits.maximum_pending_lifetime_seconds
          MaxPublications,    \* ProxyLimits.maximum_publications
          PublicationLifetime,
          GrantLifetime,
          None

\* ProxyLimits::validate
ASSUME LimitsAssumption ==
    /\ MaxPending \in Nat \ {0}
    /\ PendingLifetime \in Nat \ {0}
    /\ MaxPublications \in Nat \ {0}
    /\ PublicationLifetime \in Nat \ {0}
    /\ GrantLifetime \in 1..PublicationLifetime

ASSUME BoundAssumption ==
    /\ Scope \subseteq Origin
    /\ MaxInstances \in Nat
    /\ MaxEpoch \in Nat
    /\ MaxAuthorities \in Nat
    /\ MaxConnects \in Nat
    /\ MaxCounter \in Nat \ {0}
    /\ MaxTime \in Nat
    /\ MaxNow \in 0..MaxTime
    /\ Window \subseteq (0..MaxTime) \X (0..MaxTime)

PendingRecords ==
    [sequence : Nat, target : Origin, admitted_at : Nat, expires_at : Nat]

Authorities ==
    [origin : Origin, generation : Nat, epoch : Nat, valid_from : Nat,
     valid_until : Nat]

Publications ==
    [publication_id : Nat, publication_generation : Nat, published_at : Nat,
     publication_valid_until : Nat, authority : Authorities]

Sessions ==
    [runtime_generation : Nat, last_observed_time : Nat, sequence : Nat,
     pending : SUBSET PendingRecords, registry_generation : Nat,
     publication_sequence : Nat,
     publications : [Origin -> Publications \cup {None}]]

\* A slot without a session is told apart from every session.
ASSUME NoneAssumption == None \notin Sessions

VARIABLES generation,         \* the engine's runtime generation
          epoch,              \* its invalidations so far
          readiness,          \* what its authority state is good for
          next_instance_id,   \* NEXT_PROXY_INSTANCE_ID
          proxy,              \* the ProxySessions, by instance id
          call,               \* the method each session is in
          authorities,        \* ProviderAuthorityContexts held by the host
          pendings,           \* PendingConnects held by the host
          admissions,         \* PublishedAdmissions held by the host
          grants,             \* TunnelGrants issued
          opened,             \* history: grants that passed revalidation
          changes,            \* history: registry operations that succeeded
          reclaimed           \* history: records publish_authority dropped

engine == <<generation, epoch, readiness>>
tokens == <<authorities, pendings, admissions, grants>>
history == <<opened, changes, reclaimed>>
vars == <<engine, next_instance_id, proxy, call, tokens, history>>

-----------------------------------------------------------------------------
(* The engine, as its callers see it.                                      *)

\* provider_authority_is_current
AuthorityIsCurrent(a, now) ==
    /\ readiness = "bridge"
    /\ a.generation = generation
    /\ a.epoch = epoch
    /\ a.valid_from <= now
    /\ now < a.valid_until

\* advance_authority_state to a failure state
Fail ==
    /\ epoch < MaxEpoch
    /\ epoch' = epoch + 1
    /\ readiness' = "down"
    /\ UNCHANGED <<generation, next_instance_id, proxy, call, tokens, history>>

\* update_policy
PolicyChanged ==
    /\ epoch < MaxEpoch
    /\ epoch' = epoch + 1
    /\ generation' = generation + 1
    /\ readiness' = "down"
    /\ UNCHANGED <<next_instance_id, proxy, call, tokens, history>>

\* advance_authority_state on the way up
Climb ==
    /\ readiness # "bridge"
    /\ readiness' = IF readiness = "down" THEN "transport" ELSE "bridge"
    /\ UNCHANGED <<generation, epoch, next_instance_id, proxy, call, tokens,
                   history>>

\* authorize_provider_injection hands an authority to the host
Authorize(origin, window) ==
    /\ readiness = "bridge"
    /\ Cardinality(authorities) < MaxAuthorities
    /\ authorities' = authorities \cup
          {[origin |-> origin, generation |-> generation, epoch |-> epoch,
            valid_from |-> window[1], valid_until |-> window[2]]}
    /\ UNCHANGED <<engine, next_instance_id, proxy, call, pendings,
                   admissions, grants, history>>

-----------------------------------------------------------------------------
(* Sessions.                                                               *)

Init ==
    /\ generation = 1
    /\ epoch = 0
    /\ readiness = "down"
    /\ next_instance_id = 1
    /\ proxy = [i \in 1..MaxInstances |-> None]
    /\ call = [i \in 1..MaxInstances |-> None]
    /\ authorities = {}
    /\ pendings = {}
    /\ admissions = {}
    /\ grants = {}
    /\ opened = {}
    /\ changes = [i \in 1..MaxInstances |-> 0]
    /\ reclaimed = {}

Idle(i) == proxy[i] # None /\ call[i] = None

\* ProxySession::new
New ==
    /\ next_instance_id <= MaxInstances
    /\ next_instance_id' = next_instance_id + 1
    /\ proxy' = [proxy EXCEPT ![next_instance_id] =
          [runtime_generation |-> generation, last_observed_time |-> 0,
           sequence |-> 0, pending |-> {}, registry_generation |-> 1,
           publication_sequence |-> 0,
           publications |-> [o \in Origin |-> None]]]
    /\ UNCHANGED <<engine, call, tokens, history>>

\* ProxySession::drop
Drop(i) ==
    /\ Idle(i)
    /\ proxy' = [proxy EXCEPT ![i] = None]
    /\ UNCHANGED <<engine, next_instance_id, call, tokens, history>>

\* ensure_runtime_ready
RuntimeReady(i, states) ==
    proxy[i].runtime_generation = generation /\ readiness \in states

\* Mutant of Observes: the clock may run backwards.
ObservesAny(i, now) == TRUE

\* observe_time succeeds
Observes(i, now) == proxy[i].last_observed_time <= now

\* A call of session i that observed the time and changed nothing else.
Observed(i, now) == [proxy EXCEPT ![i].last_observed_time = now]

-----------------------------------------------------------------------------
(* Pending CONNECTs.                                                       *)

Live(i, now) == {p \in proxy[i].pending : now < p.expires_at}

\* admit_connect refuses: a client that is not loopback is turned away before
\* the expired records are dropped; a bad head, scope or credential after.
AdmitRefused(i, now) ==
    /\ Idle(i)
    /\ RuntimeReady(i, {"transport", "bridge"})
    /\ Observes(i, now)
    /\ proxy' \in {Observed(i, now),
                   [Observed(i, now) EXCEPT ![i].pending = Live(i, now)]}
    /\ UNCHANGED <<engine, next_instance_id, call, tokens, history>>

\* admit_connect
AdmitConnect(i, target, now) ==
    LET sequence == proxy[i].sequence + 1
        record == [sequence |-> sequence, target |-> target,
                   admitted_at |-> now, expires_at |-> now + PendingLifetime]
    IN  /\ Idle(i)
        /\ RuntimeReady(i, {"transport", "bridge"})
        /\ Observes(i, now)
        /\ Cardinality(Live(i, now)) < MaxPending
        /\ target \in Scope
        /\ sequence <= MaxConnects
        /\ now + PendingLifetime <= MaxTime
        /\ proxy' = [Observed(i, now) EXCEPT
              ![i].pending = Live(i, now) \cup {record},
              ![i].sequence = sequence]
        /\ pendings' = pendings \cup {[instance_id |-> i, record |-> record]}
        /\ UNCHANGED <<engine, next_instance_id, call, authorities,
                       admissions, grants, history>>

\* cancel: the token is only borrowed
Cancel(i, p) ==
    /\ Idle(i)
    /\ p.instance_id = i
    /\ \E r \in proxy[i].pending :
          /\ r.sequence = p.record.sequence
          /\ proxy' = [proxy EXCEPT ![i].pending = @ \ {r}]
    /\ UNCHANGED <<engine, next_instance_id, call, tokens, history>>

-----------------------------------------------------------------------------
(* Publications.                                                           *)

\* Mutant of ValidAdmission: a handle is refused while the engine is down.
ValidAdmissionWhileReady(i, a) ==
    /\ readiness = "bridge"
    /\ a.instance_id = i
    /\ proxy[i] # None
    /\ LET record == proxy[i].publications[a.origin]
       IN  /\ record # None
           /\ record.publication_id = a.publication_id
           /\ record.publication_generation = a.publication_generation

\* validate_admission
ValidAdmission(i, a) ==
    /\ a.instance_id = i
    /\ proxy[i] # None
    /\ LET record == proxy[i].publications[a.origin]
       IN  /\ record # None
           /\ record.publication_id = a.publication_id
           /\ record.publication_generation = a.publication_generation

\* publication_is_current
PublicationIsCurrent(record, now) ==
    /\ record.published_at <= now
    /\ now < record.publication_valid_until
    /\ AuthorityIsCurrent(record.authority, now)

\* bind_authority up to the second question
Bindable(i, authority, now) ==
    /\ RuntimeReady(i, {"bridge"})
    /\ authority.origin \in Scope
    /\ authority.generation = generation
    /\ authority.valid_from <= now
    /\ now < authority.valid_until

Earlier(m, n) == IF m <= n THEN m ELSE n

\* bind_authority from the second question on
Binds(authority, now) ==
    AuthorityIsCurrent(authority, now) /\ now + PublicationLifetime <= MaxTime

Record(authority, id, now, registry_generation) ==
    [publication_id |-> id, publication_generation |-> registry_generation,
     published_at |-> now,
     publication_valid_until |->
         Earlier(authority.valid_until, now + PublicationLifetime),
     authority |-> authority]

Admission(i, record) ==
    [instance_id |-> i, origin |-> record.authority.origin,
     publication_id |-> record.publication_id,
     publication_generation |-> record.publication_generation]

NextGeneration(i) == proxy[i].registry_generation + 1

\* A method of session i fails before it touches the registry.
Refuse(i) == call' = [call EXCEPT ![i] = None]

Enter(i, carried) == call' = [call EXCEPT ![i] = carried]

Published(i) == {o \in Origin : proxy[i].publications[o] # None}

\* publish_authority up to the first question.  The authority is consumed
\* whatever the outcome.
Publish(i, authority, now) ==
    /\ Idle(i)
    /\ authorities' = authorities \ {authority}
    /\ Observes(i, now)
    /\ proxy' = Observed(i, now)
    /\ IF /\ NextGeneration(i) <= MaxCounter
          /\ proxy[i].publication_sequence < MaxCounter
          /\ Bindable(i, authority, now)
       THEN Enter(i, [op |-> "publish", authority |-> authority, now |-> now])
       ELSE UNCHANGED call
    /\ UNCHANGED <<engine, next_instance_id, pendings, admissions, grants,
                   history>>

\* The new authority's currency is asked for.
PublishBind(i) ==
    /\ call[i] # None
    /\ call[i].op = "publish"
    /\ IF Binds(call[i].authority, call[i].now)
       THEN Enter(i, [op |-> "scan", authority |-> call[i].authority,
                      now |-> call[i].now, current |-> {}, dead |-> {}])
       ELSE Refuse(i)
    /\ UNCHANGED <<engine, next_instance_id, proxy, tokens, history>>

Unscanned(i) == Published(i) \ (call[i].current \cup call[i].dead)

\* The loop over the publications, one question each.
PublishScan(i, o) ==
    /\ call[i] # None
    /\ call[i].op = "scan"
    /\ o \in Unscanned(i)
    /\ IF PublicationIsCurrent(proxy[i].publications[o], call[i].now)
       THEN call' = [call EXCEPT ![i].current = @ \cup {o}]
       ELSE call' = [call EXCEPT ![i].dead = @ \cup {o}]
    /\ UNCHANGED <<engine, next_instance_id, proxy, tokens, history>>

\* Neither a duplicate nor beyond the limit.
Admissible(c) ==
    /\ c.authority.origin \notin c.current
    /\ Cardinality(c.current) < MaxPublications

\* The rest of publish_authority.  Dead records go even when it then fails.
PublishCommit(i) ==
    LET c == call[i]
        kept == [o \in Origin |-> IF o \in c.dead
                                  THEN None ELSE proxy[i].publications[o]]
        id == proxy[i].publication_sequence + 1
        record == Record(c.authority, id, c.now, NextGeneration(i))
    IN  /\ c # None
        /\ c.op = "scan"
        /\ Unscanned(i) = {}
        /\ reclaimed' = reclaimed \cup
              {[instance_id |-> i, record |-> proxy[i].publications[o]] :
                  o \in c.dead}
        /\ IF Admissible(c)
           THEN /\ proxy' = [proxy EXCEPT
                      ![i].publications = [kept EXCEPT
                                               ![c.authority.origin] = record],
                      ![i].publication_sequence = id,
                      ![i].registry_generation = NextGeneration(i)]
                /\ admissions' = admissions \cup {Admission(i, record)}
                /\ changes' = [changes EXCEPT ![i] = @ + 1]
           ELSE /\ proxy' = [proxy EXCEPT ![i].publications = kept]
                /\ UNCHANGED <<admissions, changes>>
        /\ Refuse(i)
        /\ UNCHANGED <<engine, next_instance_id, authorities, pendings,
                       grants, opened>>

\* replace_authority up to the first question
Replace(i, a, authority, now) ==
    /\ Idle(i)
    /\ authorities' = authorities \ {authority}
    /\ admissions' = admissions \ {a}
    /\ Observes(i, now)
    /\ proxy' = Observed(i, now)
    /\ IF /\ ValidAdmission(i, a)
          /\ NextGeneration(i) <= MaxCounter
          /\ Bindable(i, authority, now)
       THEN Enter(i, [op |-> "replace", authority |-> authority, now |-> now,
                      admission |-> a])
       ELSE UNCHANGED call
    /\ UNCHANGED <<engine, next_instance_id, pendings, grants, history>>

\* The rest of replace_authority
ReplaceCommit(i) ==
    LET c == call[i]
        origin == c.authority.origin
        record == Record(c.authority, c.admission.publication_id, c.now,
                         NextGeneration(i))
    IN  /\ c # None
        /\ c.op = "replace"
        /\ IF Binds(c.authority, c.now) /\ origin = c.admission.origin
           THEN /\ proxy' = [proxy EXCEPT
                      ![i].publications[origin] = record,
                      ![i].registry_generation = NextGeneration(i)]
                /\ admissions' = admissions \cup {Admission(i, record)}
                /\ changes' = [changes EXCEPT ![i] = @ + 1]
           ELSE UNCHANGED <<proxy, admissions, changes>>
        /\ Refuse(i)
        /\ UNCHANGED <<engine, next_instance_id, authorities, pendings,
                       grants, opened, reclaimed>>

\* revoke_authority
RevokeAuthority(i, a) ==
    /\ Idle(i)
    /\ ValidAdmission(i, a)
    /\ NextGeneration(i) <= MaxCounter
    /\ proxy' = [proxy EXCEPT ![i].publications[a.origin] = None,
                              ![i].registry_generation = NextGeneration(i)]
    /\ admissions' = admissions \ {a}
    /\ changes' = [changes EXCEPT ![i] = @ + 1]
    /\ UNCHANGED <<engine, next_instance_id, call, authorities, pendings,
                   grants, opened, reclaimed>>

\* A call refused before it observed the time (stale generation, rolled-back
\* clock, foreign handle) still consumed its arguments.
Discard ==
    /\ \/ /\ \E a \in authorities : authorities' = authorities \ {a}
          /\ UNCHANGED <<pendings, admissions>>
       \/ /\ \E p \in pendings : pendings' = pendings \ {p}
          /\ UNCHANGED <<authorities, admissions>>
       \/ /\ \E a \in admissions : admissions' = admissions \ {a}
          /\ UNCHANGED <<authorities, pendings>>
    /\ UNCHANGED <<engine, next_instance_id, proxy, call, grants, history>>

-----------------------------------------------------------------------------
(* Grants.                                                                 *)

\* authorize_connect up to the first question: the pending record is gone
\* before anything else is looked at, the clock included.  `expected' says
\* whether the host passed the registry generation in force.
AuthorizeConnect(i, p, a, expected, now) ==
    /\ Idle(i)
    /\ p.instance_id = i
    /\ p.record \in proxy[i].pending
    /\ pendings' = pendings \ {p}
    /\ IF Observes(i, now)
       THEN proxy' = [Observed(i, now) EXCEPT ![i].pending = @ \ {p.record}]
       ELSE proxy' = [proxy EXCEPT ![i].pending = @ \ {p.record}]
    /\ IF /\ Observes(i, now)
          /\ p.record.admitted_at <= now
          /\ now < p.record.expires_at
          /\ expected
          /\ RuntimeReady(i, {"bridge"})
       THEN Enter(i, [op |-> "authorize", now |-> now, record |-> p.record,
                      admission |-> a])
       ELSE UNCHANGED call
    /\ UNCHANGED <<engine, next_instance_id, authorities, admissions, grants,
                   history>>

\* Mutant of GrantExpiry: the publication's own end is forgotten.
GrantExpiryAlone(record, now) == now + GrantLifetime

GrantExpiry(record, now) ==
    Earlier(record.publication_valid_until, now + GrantLifetime)

Grant(i, c) ==
    LET record == proxy[i].publications[c.admission.origin]
    IN  [instance_id |-> i, origin |-> c.admission.origin,
         authority |-> record.authority,
         registry_generation |-> proxy[i].registry_generation,
         publication_id |-> record.publication_id,
         publication_generation |-> record.publication_generation,
         connect_sequence |-> c.record.sequence,
         issued_at |-> c.now, expires_at |-> GrantExpiry(record, c.now),
         target |-> c.record.target,        \* history
         changes |-> changes[i]]            \* history

\* The rest of authorize_connect
AuthorizeFinish(i) ==
    LET c == call[i]
    IN  /\ c # None
        /\ c.op = "authorize"
        /\ IF /\ ValidAdmission(i, c.admission)
              /\ c.admission.origin = c.record.target
              /\ PublicationIsCurrent(
                     proxy[i].publications[c.admission.origin], c.now)
              /\ c.now + GrantLifetime <= MaxTime
           THEN grants' = grants \cup {Grant(i, c)}
           ELSE UNCHANGED grants
        /\ Refuse(i)
        /\ UNCHANGED <<engine, next_instance_id, proxy, authorities, pendings,
                       admissions, history>>

\* revalidate_tunnel_grant up to the first question
Revalidate(i, g, now) ==
    /\ Idle(i)
    /\ Observes(i, now)
    /\ proxy' = Observed(i, now)
    /\ IF /\ g.registry_generation = proxy[i].registry_generation
          /\ g.instance_id = i
          /\ g.issued_at <= now
          /\ now < g.expires_at
          /\ RuntimeReady(i, {"bridge"})
       THEN Enter(i, [op |-> "revalidate", now |-> now, grant |-> g])
       ELSE UNCHANGED call
    /\ UNCHANGED <<engine, next_instance_id, tokens, history>>

\* Mutant of StillPublished: the engine is not asked again.
StillPublishedUnasked(i, g, now) ==
    LET record == proxy[i].publications[g.origin]
    IN  /\ record # None
        /\ record.publication_id = g.publication_id
        /\ record.publication_generation = g.publication_generation
        /\ record.authority = g.authority
        /\ g.expires_at <= record.publication_valid_until

StillPublished(i, g, now) ==
    LET record == proxy[i].publications[g.origin]
    IN  /\ record # None
        /\ record.publication_id = g.publication_id
        /\ record.publication_generation = g.publication_generation
        /\ record.authority = g.authority
        /\ g.expires_at <= record.publication_valid_until
        /\ PublicationIsCurrent(record, now)

\* The rest of revalidate_tunnel_grant: Ok opens the tunnel.
RevalidateFinish(i) ==
    LET c == call[i]
    IN  /\ c # None
        /\ c.op = "revalidate"
        /\ IF StillPublished(i, c.grant, c.now)
           THEN opened' = opened \cup
                    {[grant |-> c.grant, now |-> c.now, epoch |-> epoch,
                      changes |-> changes[i]]}
           ELSE UNCHANGED opened
        /\ Refuse(i)
        /\ UNCHANGED <<engine, next_instance_id, proxy, tokens, changes,
                       reclaimed>>

-----------------------------------------------------------------------------
EngineStep ==
    \/ Fail
    \/ PolicyChanged
    \/ Climb
    \/ \E o \in Origin, w \in Window : Authorize(o, w)

CallStep(i) ==
    \/ PublishBind(i)
    \/ \E o \in Origin : PublishScan(i, o)
    \/ PublishCommit(i)
    \/ ReplaceCommit(i)
    \/ AuthorizeFinish(i)
    \/ RevalidateFinish(i)

HostStep(i) ==
    \/ Drop(i)
    \/ \E a \in admissions : RevokeAuthority(i, a)
    \/ \E p \in pendings : Cancel(i, p)
    \/ \E now \in 0..MaxNow :
          \/ AdmitRefused(i, now)
          \/ \E o \in Origin : AdmitConnect(i, o, now)
          \/ \E authority \in authorities : Publish(i, authority, now)
          \/ \E a \in admissions, authority \in authorities :
                Replace(i, a, authority, now)
          \/ \E p \in pendings, a \in admissions, expected \in BOOLEAN :
                AuthorizeConnect(i, p, a, expected, now)
          \/ \E g \in grants : Revalidate(i, g, now)

Next ==
    \/ EngineStep
    \/ New
    \/ Discard
    \/ \E i \in 1..MaxInstances : CallStep(i) \/ HostStep(i)

Spec == Init /\ [][Next]_vars

-----------------------------------------------------------------------------
(* Properties.                                                             *)

\* Every session's counters, records and call in progress are well formed,
\* and ProxyLimits bounds what it keeps: publish_authority and admit_connect
\* count only live records, yet no more than the limit of all records survive.
TypeOK ==
    /\ generation \in 1..(MaxEpoch + 1)
    /\ epoch \in 0..MaxEpoch
    /\ readiness \in {"down", "transport", "bridge"}
    /\ next_instance_id \in 1..(MaxInstances + 1)
    /\ \A i \in 1..MaxInstances :
          /\ i >= next_instance_id => proxy[i] = None
          /\ call[i] # None => proxy[i] # None
          /\ proxy[i] # None =>
                /\ proxy[i].runtime_generation \in 1..generation
                /\ proxy[i].last_observed_time \in 0..MaxNow
                /\ proxy[i].sequence \in 0..MaxConnects
                /\ proxy[i].registry_generation \in 1..MaxCounter
                /\ proxy[i].publication_sequence
                      < proxy[i].registry_generation
                /\ Cardinality(proxy[i].pending) <= MaxPending
                /\ Cardinality(Published(i)) <= MaxPublications
                /\ \A o \in Published(i) :
                      LET record == proxy[i].publications[o]
                      IN  /\ record.authority.origin = o
                          /\ record.publication_id
                                \in 1..proxy[i].publication_sequence
                          /\ record.publication_generation
                                \in 2..proxy[i].registry_generation

\* A handle that validate_admission refuses is refused for ever: publication
\* ids and generations are never used a second time, also when records are
\* reclaimed without advancing the generation.
HandlesStayDead ==
    [][\A i \in 1..MaxInstances : \A a \in admissions :
          ~ValidAdmission(i, a) => ~ValidAdmission(i, a)']_vars

\* One authenticated CONNECT yields at most one TunnelGrant, for the target
\* it asked for; the grant's window lies inside the validity of the provider
\* authority behind it and within the grant lifetime, although it is computed
\* from the publication, whose own end replace_authority may have moved.
GrantsAreSound ==
    \A g \in grants :
        /\ g.target = g.origin
        /\ \A h \in grants :
              /\ g.instance_id = h.instance_id
              /\ g.connect_sequence = h.connect_sequence
              => g = h
        /\ g.authority.valid_from <= g.issued_at
        /\ g.issued_at < g.expires_at
        /\ g.expires_at <= g.authority.valid_until
        /\ g.expires_at <= g.issued_at + GrantLifetime

\* revalidate_tunnel_grant never passes a grant whose authority goes back to
\* before the engine's last invalidation, even when the invalidation falls
\* between the questions the method asks the engine; and "any publish,
\* replace, or revoke invalidates an outstanding grant": no registry operation
\* of its session succeeded since the grant was issued.
TunnelsAreCurrent ==
    \A o \in opened :
        /\ o.grant.authority.epoch = o.epoch
        /\ o.grant.issued_at <= o.now
        /\ o.now < o.grant.expires_at
        /\ o.grant.changes = o.changes

\* What publish_authority reclaims "can no longer authorize a tunnel": no
\* record it dropped is current again at any time its session still accepts.
ReclaimedIsDead ==
    \A r \in reclaimed :
        LET s == proxy[r.instance_id]
        IN  s # None =>
                \A now \in s.last_observed_time..MaxNow :
                    ~PublicationIsCurrent(r.record, now)

=============================================================================
