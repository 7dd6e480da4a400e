------------------------ MODULE LoopbackProxy_safety ------------------------
(***************************************************************************)
(* The conjuncts of the inductive invariant of LoopbackProxy_proofs, one   *)
(* by one, and the theorems that follow from it.                           *)
(***************************************************************************)
EXTENDS LoopbackProxy_proofs

\* What a session holds stays sound: pending CONNECTs have sequences of their
\* own, the registry generation counts the operations, and every publication is
\* of an authority the engine issued, within that authority's validity.
LEMMA SessionStep ==
    ASSUME IInv, [Next]_vars, NEW i \in Instance
    PROVE  SessionSound(i)' /\ Unopened(i)'
<1> DEFINE s == proxy[i]
           t == proxy'[i]
<1>1. EngineTypes /\ SessionTypes /\ SessionTypes'
  BY SessionTypesStep, Zenon DEF IInv, Types
<1>2. Evolves(i) /\ next_instance_id <= next_instance_id'
  BY <1>1, Evolution, InstancesGrow, Zenon
<1>3. /\ next_instance_id \in Nat /\ next_instance_id' \in Nat
      /\ s \in Sessions \cup {None} /\ t \in Sessions \cup {None}
      /\ i \in Nat /\ changes[i] \in Nat
  BY <1>1, BoundAssumption DEF SessionTypes, Instance
<1>4. SessionSound(i) /\ Unopened(i)
  BY Zenon DEF IInv
<1>5. \A a \in Authorities : Timely(a) => Timely(a)'
  BY <1>1, EngineMoves, Zenon
<1>6. CASE t = s /\ changes'[i] = changes[i]
  <2> SUFFICES ASSUME s # None PROVE SessionSound(i)'
    BY <1>2, <1>3, <1>4, <1>6, SMTT(20) DEF SessionSound, Unopened
  <2>1. ASSUME NEW o \in Origin, s.publications[o] # None
        PROVE  RecordSound(proxy[i], o, proxy[i].publications[o])'
    <3>1. RecordSound(s, o, s.publications[o])
      BY <1>4, <2>1 DEF SessionSound, Published
    <3>2. s.publications[o].authority \in Authorities
      BY <1>3, <2>1 DEF Sessions, Publications
    <3> QED
      BY <1>5, <1>6, <3>1, <3>2 DEF RecordSound, Timely
  <2> QED
    BY <1>2, <1>3, <1>4, <1>6, <2>1 DEF SessionSound, Published, PendingSound
<1>7. CASE t = None /\ changes'[i] = changes[i]
  BY <1>2, <1>3, <1>4, <1>7 DEF SessionSound, Unopened
<1>8. CASE Opens(i)
  BY <1>2, <1>3, <1>4, <1>8 DEF SessionSound, Unopened, Opens, PendingSound, Published
<1>9. CASE Moves(i, s, t)
  <2>1. /\ s \in Sessions /\ s # None /\ t \in Sessions
        /\ s.last_observed_time <= t.last_observed_time
        /\ PendingMoves(s, t) /\ RegistryMoves(i, s, t)
    BY <1>9 DEF Moves
  <2>2. /\ i < next_instance_id
        /\ s.registry_generation = changes[i] + 1
        /\ PendingSound(s)
        /\ \A o \in Published(i) : RecordSound(s, o, s.publications[o])
    BY <1>4, <2>1 DEF SessionSound
  <2>3. PendingSound(proxy[i])'
    <3>1. s.sequence \in Nat /\ t.sequence \in Nat
          /\ \A r \in t.pending \cup s.pending : r.sequence \in Nat
      BY <2>1 DEF Sessions, PendingRecords
    <3> QED
      BY <2>1, <2>2, <3>1 DEF PendingSound, PendingMoves
  <2>4. t.registry_generation = changes'[i] + 1
    BY <1>3, <2>1, <2>2 DEF RegistryMoves
  <2>5. ASSUME NEW o \in Origin, t.publications[o] # None
        PROVE  RecordSound(proxy[i], o, proxy[i].publications[o])'
    <3>1. RecordSound(t, o, t.publications[o])
      <4>1. CASE t.publications[o] = s.publications[o]
        <5>1. RecordSound(s, o, s.publications[o])
          BY <2>2, <2>5, <4>1 DEF Published
        <5>2. s.publications[o].published_at \in Nat
          BY <2>1, <2>5, <4>1 DEF Sessions, Publications
        <5> QED
          BY <2>1, <4>1, <5>1, <5>2 DEF RecordSound, Sessions
      <4> QED
        BY <2>1, <2>5, <4>1 DEF RegistryMoves
    <3>2. t.publications[o].authority \in Authorities
      BY <2>1, <2>5 DEF Sessions, Publications
    <3> QED
      BY <1>5, <3>1, <3>2 DEF RecordSound, Timely
  <2> QED
    BY <1>2, <1>3, <2>2, <2>3, <2>4, <2>5 DEF SessionSound, Unopened, Published
<1> QED
  BY <1>2, <1>6, <1>7, <1>8, <1>9 DEF Evolves

\* What a call carries stays sound while the session waits for the engine.
LEMMA CallStays ==
    ASSUME IInv, [Next]_vars, NEW j \in Instance,
           proxy'[j] = proxy[j], call'[j] = call[j], grants \subseteq grants',
           \A g \in grants' \ grants : g.instance_id # j
    PROVE  Fits(j)' /\ CallSound(j)'
<1>1. /\ EngineTypes /\ SessionTypes /\ call \in [Instance -> Calls \cup {None}]
      /\ Fits(j) /\ CallSound(j)
  BY Zenon DEF IInv, Types
<1>2. epoch <= epoch' /\ \A a \in Authorities : Timely(a) => Timely(a)'
  BY <1>1, EngineMoves, Zenon
<1>3. epoch \in Nat /\ epoch' \in Nat
  <2>1. EngineTypes'
    BY <1>1, EngineMoves, Zenon
  <2> QED
    BY <1>1, <2>1, Zenon DEF EngineTypes
<1>4. Fits(j)'
  BY <1>1 DEF Fits, Published
<1> DEFINE c == call[j]
<1> SUFFICES ASSUME c # None PROVE CallSound(j)'
  BY <1>4 DEF CallSound
<1>5. c \in Calls /\ proxy[j] \in Sessions /\ proxy[j] # None
  BY <1>1 DEF SessionTypes, Fits
<1>6. c.op \in {"publish", "scan", "replace"} => Bound(j, c)'
  <2> SUFFICES ASSUME c.op \in {"publish", "scan", "replace"} PROVE Bound(j, c)'
    OBVIOUS
  <2>1. Bound(j, c) /\ c.authority \in Authorities
    BY <1>1, <1>5, CallTypes DEF CallSound
  <2> QED
    BY <1>2, <2>1 DEF Bound, Timely
<1>7. c.op = "scan" => \A o \in c.dead : Dead(j, proxy[j].publications[o])'
  <2> SUFFICES ASSUME c.op = "scan", NEW o \in c.dead
               PROVE  Dead(j, proxy[j].publications[o])'
    OBVIOUS
  <2>1. Dead(j, proxy[j].publications[o])
    BY <1>1 DEF CallSound
  <2>2. proxy[j].publications[o].authority \in Authorities
    BY <1>1, <1>5 DEF Fits, Published, Sessions, Publications
  <2> QED
    BY <1>2, <1>3, <2>1, <2>2 DEF Dead, Authorities
<1>8. c.op = "authorize" =>
          /\ c.record.sequence <= proxy[j].sequence
          /\ \A r \in proxy[j].pending : r.sequence # c.record.sequence
          /\ \A g \in grants' :
                g.instance_id = j => g.connect_sequence # c.record.sequence
  BY <1>1 DEF CallSound
<1>9. c.op = "revalidate" =>
          /\ c.grant \in grants'
          /\ c.grant.instance_id = j
          /\ c.grant.registry_generation = proxy[j].registry_generation
          /\ c.grant.issued_at <= c.now
          /\ c.now < c.grant.expires_at
  BY <1>1 DEF CallSound
<1> QED
  BY <1>6, <1>7, <1>8, <1>9 DEF CallSound

\* Only authorize_connect issues a grant, and only for its own session.
LEMMA GrantsGrow ==
    ASSUME [Next]_vars
    PROVE  \/ grants' = grants
           \/ \E i \in Instance : /\ AuthorizeFinish(i)
                                  /\ grants' = grants \cup {Grant(i, call[i])}
<1>1. CASE EngineStep \/ New \/ Discard \/ UNCHANGED vars
  BY <1>1, RestKeeps, Zenon DEF RestFrame
<1>2. ASSUME NEW i \in Instance, CallStep(i)
      PROVE  \/ grants' = grants
             \/ AuthorizeFinish(i) /\ grants' = grants \cup {Grant(i, call[i])}
  <2>1. AuthorizeFinish(i) =>
            grants' = grants \/ grants' = grants \cup {Grant(i, call[i])}
    BY Zenon DEF AuthorizeFinish
  <2> QED
    BY <1>2, <2>1, CallKeeps, Zenon DEF CallFrame
<1>3. ASSUME NEW i \in Instance, HostStep(i) PROVE grants' = grants
  BY <1>3, HostKeeps, Zenon DEF HostFrame
<1> QED
  BY <1>1, <1>2, <1>3 DEF Next, Instance

\* A record the scan finds dead stays dead: the engine's readiness and generation
\* can only be wrong for an authority of an epoch that has ended.
LEMMA NotCurrentIsDead ==
    ASSUME IInv, NEW i \in Instance, proxy[i] # None, NEW o \in Published(i),
           ~PublicationIsCurrent(proxy[i].publications[o], proxy[i].last_observed_time)
    PROVE  Dead(i, proxy[i].publications[o])
<1> DEFINE r == proxy[i].publications[o]
<1>1. proxy[i] \in Sessions /\ epoch \in Nat
  <2>1. EngineTypes /\ SessionTypes
    BY Zenon DEF IInv, Types
  <2> QED
    BY <2>1 DEF EngineTypes, SessionTypes
<1>2. r \in Publications /\ r.authority \in Authorities /\ r.published_at \in Nat
      /\ r.publication_valid_until \in Nat /\ proxy[i].last_observed_time \in Nat
  BY <1>1 DEF Published, Sessions, Publications
<1>3. RecordSound(proxy[i], o, r)
  BY Zenon DEF IInv, SessionSound
<1>4. /\ Timely(r.authority) /\ r.authority.valid_from <= r.published_at
      /\ r.published_at <= proxy[i].last_observed_time
      /\ r.publication_valid_until <= r.authority.valid_until
  BY <1>3, Zenon DEF RecordSound
<1>5. ~PublicationIsCurrent(r, proxy[i].last_observed_time)
  OBVIOUS
<1>6. Dead(i, r) <=> \/ r.authority.epoch < epoch
                    \/ r.publication_valid_until <= proxy[i].last_observed_time
  BY Zenon DEF Dead
<1> HIDE DEF r
<1>7. /\ r.authority.epoch \in Nat /\ r.authority.valid_from \in Nat
      /\ r.authority.valid_until \in Nat
  BY <1>2 DEF Authorities
<1>8. SUFFICES ASSUME r.authority.epoch >= epoch,
                      r.publication_valid_until > proxy[i].last_observed_time
               PROVE  FALSE
  BY <1>1, <1>2, <1>6, <1>7 DEF r
<1> QED
  BY <1>1, <1>2, <1>4, <1>5, <1>7, <1>8 DEF Timely, PublicationIsCurrent, AuthorityIsCurrent

\* The session in a call keeps what the call carries sound.
LEMMA OwnCall ==
    ASSUME IInv, [Next]_vars, NEW i \in Instance, CallStep(i) \/ HostStep(i)
    PROVE  Fits(i)' /\ CallSound(i)'
<1>1. /\ SessionTypes /\ call \in [Instance -> Calls \cup {None}]
      /\ Fits(i) /\ CallSound(i) /\ SessionSound(i)
  BY Zenon DEF IInv, Types
<1>2. UNCHANGED engine
  BY CallKeeps, HostKeeps, Zenon DEF CallFrame, HostFrame
<1>3. ASSUME call'[i] = None PROVE Fits(i)' /\ CallSound(i)'
  BY <1>3, Zenon DEF Fits, CallSound
<1>4. CASE PublishBind(i)
  <2> DEFINE c == call[i]
  <2>1. /\ c # None /\ c.op = "publish" /\ c \in Calls /\ proxy' = proxy
        /\ Bound(i, c) /\ proxy[i] # None
    BY <1>1, <1>4 DEF PublishBind, CallSound, Fits
  <2>2. CASE ~Binds(c.authority, c.now)
    BY <1>1, <1>3, <1>4, <2>2 DEF PublishBind, Refuse
  <2>3. CASE Binds(c.authority, c.now)
    <3>1. call'[i] = [op |-> "scan", authority |-> c.authority, now |-> c.now,
                      current |-> {}, dead |-> {}]
      BY <1>1, <1>4, <2>3, SMTT(20) DEF PublishBind, Enter
    <3> QED
      BY <1>2, <2>1, <3>1 DEF Fits, CallSound, Bound, Timely, engine
  <2> QED
    BY <2>2, <2>3
<1>5. ASSUME NEW o \in Origin, PublishScan(i, o) PROVE Fits(i)' /\ CallSound(i)'
  <2> DEFINE c == call[i]
             d == call'[i]
  <2>1. /\ c # None /\ c.op = "scan" /\ c \in Calls /\ proxy' = proxy
        /\ Bound(i, c) /\ proxy[i] # None /\ o \in Published(i)
        /\ c.dead \subseteq Published(i)
        /\ \A p \in c.dead : Dead(i, proxy[i].publications[p])
    BY <1>1, <1>5 DEF PublishScan, CallSound, Fits, Unscanned
  <2>2. /\ d.op = "scan" /\ d.authority = c.authority /\ d.now = c.now
        /\ \/ d.dead = c.dead
           \/ /\ d.dead = c.dead \cup {o}
              /\ ~PublicationIsCurrent(proxy[i].publications[o], c.now)
    <3>1. CASE PublicationIsCurrent(proxy[i].publications[o], c.now)
      <4>1. d = [c EXCEPT !.current = c.current \cup {o}]
        BY <1>1, <1>5, <3>1 DEF PublishScan
      <4> QED
        BY <2>1, <4>1 DEF Calls
    <3>2. CASE ~PublicationIsCurrent(proxy[i].publications[o], c.now)
      <4>1. d = [c EXCEPT !.dead = c.dead \cup {o}]
        BY <1>1, <1>5, <3>2 DEF PublishScan
      <4> QED
        BY <2>1, <3>2, <4>1 DEF Calls
    <3> QED
      BY <3>1, <3>2
  <2>3. \A p \in d.dead : Dead(i, proxy[i].publications[p])
    <3>1. c.now = proxy[i].last_observed_time
      BY <2>1 DEF Bound
    <3> QED
      BY <2>1, <2>2, <3>1, NotCurrentIsDead
  <2> QED
    BY <1>2, <2>1, <2>2, <2>3 DEF Fits, CallSound, Bound, Timely, Dead, Published, engine
<1>6. CASE PublishCommit(i) \/ ReplaceCommit(i) \/ AuthorizeFinish(i) \/ RevalidateFinish(i)
  <2>1. Refuse(i)
    BY <1>6, Zenon DEF PublishCommit, ReplaceCommit, AuthorizeFinish, RevalidateFinish
  <2> QED
    BY <1>1, <1>3, <2>1 DEF Refuse
<1>7. CASE \/ Drop(i)
           \/ \E a \in admissions : RevokeAuthority(i, a)
           \/ \E p \in pendings : Cancel(i, p)
           \/ \E now \in 0..MaxNow : AdmitRefused(i, now)
           \/ \E now \in 0..MaxNow, o \in Origin : AdmitConnect(i, o, now)
  <2>1. call[i] = None /\ call' = call
    BY <1>7, Zenon DEF Drop, RevokeAuthority, Cancel, AdmitRefused, AdmitConnect, Idle
  <2> QED
    BY <1>3, <2>1, Zenon
<1>8. ASSUME NEW now \in 0..MaxNow, Idle(i), Observes(i, now), proxy' = Observed(i, now)
      PROVE  /\ proxy'[i] # None
             /\ proxy'[i].last_observed_time = now
             /\ proxy'[i].registry_generation = proxy[i].registry_generation
  <2>1. /\ proxy[i] \in Sessions /\ proxy'[i] = [proxy[i] EXCEPT !.last_observed_time = now]
        /\ proxy'[i] \in Sessions
    BY <1>1, <1>8, Observing
  <2> QED
    BY <2>1, NoneAssumption DEF Sessions
<1>9. ASSUME NEW now \in 0..MaxNow, NEW authority \in authorities,
             Publish(i, authority, now)
      PROVE  Fits(i)' /\ CallSound(i)'
  <2>1. Idle(i) /\ proxy'[i] # None /\ proxy'[i].last_observed_time = now
    BY <1>8, <1>9 DEF Publish
  <2>2. CASE call'[i] = None
    BY <1>3, <2>2, SMTT(20)
  <2>3. CASE call'[i] # None
    <3>1. /\ call'[i] = [op |-> "publish", authority |-> authority, now |-> now]
          /\ authority.valid_from <= now
      BY <1>1, <1>9, <2>1, <2>3 DEF Publish, Enter, Bindable, Idle
    <3>2. Timely(authority)
      BY Zenon DEF IInv
    <3> QED
      BY <1>2, <2>1, <3>1, <3>2 DEF Fits, CallSound, Bound, Timely, engine
  <2> QED
    BY <2>2, <2>3
<1>10. ASSUME NEW now \in 0..MaxNow, NEW a \in admissions,
              NEW authority \in authorities, Replace(i, a, authority, now)
       PROVE  Fits(i)' /\ CallSound(i)'
  <2>1. Idle(i) /\ proxy'[i] # None /\ proxy'[i].last_observed_time = now
    BY <1>8, <1>10 DEF Replace
  <2>2. CASE call'[i] = None
    BY <1>3, <2>2, Zenon
  <2>3. CASE call'[i] # None
    <3>1. /\ call'[i] = [op |-> "replace", authority |-> authority, now |-> now,
                         admission |-> a]
          /\ authority.valid_from <= now
      BY <1>1, <1>10, <2>1, <2>3 DEF Replace, Enter, Bindable, Idle
    <3>2. Timely(authority)
      BY Zenon DEF IInv
    <3> QED
      <4>1. /\ call'[i].op = "replace" /\ call'[i].authority = authority
            /\ call'[i].now = now
        BY <3>1
      <4>2. Timely(authority)'
        BY <1>2, <3>2, Zenon DEF Timely, engine
      <4>3. Bound(i, call[i])'
        BY <2>1, <3>1, <4>1, <4>2 DEF Bound, Timely
      <4> QED
        BY <2>1, <4>1, <4>3 DEF Fits, CallSound
  <2> QED
    BY <2>2, <2>3
<1>11. ASSUME NEW now \in 0..MaxNow, NEW p \in pendings, NEW a \in admissions,
              NEW expected \in BOOLEAN, AuthorizeConnect(i, p, a, expected, now)
       PROVE  Fits(i)' /\ CallSound(i)'
  <2>1. CASE call'[i] = None
    BY <1>3, <2>1, Zenon
  <2>2. CASE call'[i] # None
    <3> DEFINE s == proxy[i]
    <3>1. /\ Idle(i) /\ Observes(i, now) /\ p.record \in s.pending
          /\ call'[i] = [op |-> "authorize", now |-> now, record |-> p.record,
                         admission |-> a]
          /\ proxy' = [Observed(i, now) EXCEPT ![i] =
                 [Observed(i, now)[i] EXCEPT
                     !.pending = Observed(i, now)[i].pending \ {p.record}]]
          /\ grants' = grants
      BY <1>1, <1>11, <2>2 DEF AuthorizeConnect, Enter, Idle
    <3>2. /\ s \in Sessions /\ s # None
          /\ Observed(i, now)[i] = [s EXCEPT !.last_observed_time = now]
          /\ Observed(i, now)[i] \in Sessions
          /\ Observed(i, now) \in [Instance -> Sessions \cup {None}]
      BY <1>1, <3>1, Observing
    <3>3. /\ Observed(i, now)[i].pending = s.pending
          /\ Observed(i, now)[i].sequence = s.sequence
      BY <3>2 DEF Sessions
    <3>4. proxy'[i] = [Observed(i, now)[i] EXCEPT !.pending = s.pending \ {p.record}]
      BY <3>1, <3>2, <3>3
    <3>5. /\ proxy'[i] \in Sessions
          /\ proxy'[i].pending = s.pending \ {p.record}
          /\ proxy'[i].sequence = s.sequence
      BY <3>2, <3>3, <3>4, Zenon DEF Sessions
    <3>6. PendingSound(s)
      BY <1>1, <3>2 DEF SessionSound
    <3>7. \A g \in grants : g.instance_id = i => g.connect_sequence # p.record.sequence
      BY <3>1, <3>2 DEF IInv, GrantSpent
    <3>8. /\ p.record.sequence <= proxy'[i].sequence
          /\ \A r \in proxy'[i].pending : r.sequence # p.record.sequence
      BY <3>1, <3>5, <3>6 DEF PendingSound
    <3>9. call'[i].op = "authorize" /\ call'[i].record = p.record
      BY <3>1
    <3>10. proxy'[i] # None
      BY <3>5, NoneAssumption
    <3> QED
      BY <3>1, <3>7, <3>8, <3>9, <3>10 DEF Fits, CallSound
  <2> QED
    BY <2>1, <2>2
<1>12. ASSUME NEW now \in 0..MaxNow, NEW g \in grants, Revalidate(i, g, now)
       PROVE  Fits(i)' /\ CallSound(i)'
  <2>1. /\ Idle(i) /\ proxy'[i] # None /\ proxy'[i].last_observed_time = now
        /\ proxy'[i].registry_generation = proxy[i].registry_generation
        /\ grants' = grants
    BY <1>8, <1>12 DEF Revalidate, tokens
  <2>2. CASE call'[i] = None
    BY <1>3, <2>2, Zenon
  <2>3. CASE call'[i] # None
    <3>1. /\ call'[i] = [op |-> "revalidate", now |-> now, grant |-> g]
          /\ g.registry_generation = proxy[i].registry_generation
          /\ g.instance_id = i /\ g.issued_at <= now /\ now < g.expires_at
      BY <1>1, <1>12, <2>1, <2>3 DEF Revalidate, Enter, Idle
    <3> QED
      BY <2>1, <3>1 DEF Fits, CallSound
  <2> QED
    BY <2>2, <2>3
<1> QED
  BY <1>4, <1>5, <1>6, <1>7, <1>9, <1>10, <1>11, <1>12, Zenon DEF CallStep, HostStep

\* Every session keeps what its method carries sound, its own steps or not.
LEMMA CallsStep ==
    ASSUME IInv, [Next]_vars, NEW j \in Instance
    PROVE  Fits(j)' /\ CallSound(j)'
<1>1. /\ EngineTypes /\ SessionTypes /\ call \in [Instance -> Calls \cup {None}]
      /\ Fits(j) /\ SessionSound(j)
  BY Zenon DEF IInv, Types
<1>2. ASSUME UNCHANGED <<proxy, call, grants>> PROVE Fits(j)' /\ CallSound(j)'
  BY <1>2, CallStays, Zenon
<1>3. CASE New
  <2>1. call' = call /\ grants' = grants
    BY <1>3, RestKeeps, Zenon DEF RestFrame
  <2>2. CASE j # next_instance_id
    <3>1. PICK x : proxy' = [proxy EXCEPT ![next_instance_id] = x]
      BY <1>1, <1>3, NewOpens, Zenon
    <3>2. proxy'[j] = proxy[j]
      BY <1>1, <2>2, <3>1 DEF SessionTypes
    <3> QED
      BY <2>1, <3>2, CallStays, Zenon
  <2>3. CASE j = next_instance_id
    <3>1. ~(j < next_instance_id)
      BY <2>3, BoundAssumption DEF Instance
    <3>2. call'[j] = None
      BY <1>1, <2>1, <3>1, Zenon DEF Fits, SessionSound
    <3> QED
      BY <3>2, Zenon DEF Fits, CallSound
  <2> QED
    BY <2>2, <2>3, Zenon
<1>4. CASE EngineStep \/ Discard \/ UNCHANGED vars
  BY <1>2, <1>3, <1>4, RestKeeps, Zenon DEF RestFrame
<1>5. ASSUME NEW i \in Instance, CallStep(i) \/ HostStep(i), i # j
      PROVE  Fits(j)' /\ CallSound(j)'
  <2>1. Alone(i)
    BY <1>1, <1>5, Others, Zenon
  <2>2. proxy'[j] = proxy[j] /\ call'[j] = call[j]
    BY <1>1, <1>5, <2>1 DEF Alone, SessionTypes
  <2>3. AuthorizeFinish(i) \/ grants' = grants
    BY <1>5, CallKeeps, HostKeeps, Zenon DEF CallFrame, HostFrame
  <2>4. AuthorizeFinish(i) => grants' = grants \/ grants' = grants \cup {Grant(i, call[i])}
    BY Zenon DEF AuthorizeFinish
  <2>5. Grant(i, call[i]).instance_id = i
    BY DEF Grant
  <2>6. grants \subseteq grants' /\ \A g \in grants' \ grants : g.instance_id # j
    BY <1>5, <2>3, <2>4, <2>5
  <2> QED
    BY <2>2, <2>6, CallStays, Zenon
<1>6. ASSUME CallStep(j) \/ HostStep(j) PROVE Fits(j)' /\ CallSound(j)'
  BY <1>6, OwnCall, Zenon
<1> QED
  BY <1>3, <1>4, <1>5, <1>6, Zenon DEF Next, Instance

\* A grant spends its CONNECT, and GrantsAreSound is kept.
LEMMA GrantsStep ==
    ASSUME IInv, [Next]_vars
    PROVE  (\A g \in grants : GrantSpent(g))' /\ GrantsAreSound'
<1>1. /\ SessionTypes /\ SessionTypes' /\ TokenTypes
      /\ call \in [Instance -> Calls \cup {None}]
      /\ GrantsAreSound
  BY SessionTypesStep, Zenon DEF IInv, Types
<1>2. ASSUME NEW g \in grants PROVE GrantSpent(g)'
  <2> DEFINE i == g.instance_id
             s == proxy[i]
             t == proxy'[i]
  <2>1. g \in Grants /\ i \in Instance /\ i \in Nat /\ g.connect_sequence \in Nat
        /\ next_instance_id \in Nat /\ next_instance_id' \in Nat
    <3>1. g \in Grants /\ next_instance_id \in Nat /\ next_instance_id' \in Nat
      BY <1>1 DEF SessionTypes, TokenTypes
    <3>2. i \in Instance /\ g.connect_sequence \in Nat
      BY <3>1 DEF Grants
    <3> QED
      BY <3>1, <3>2, BoundAssumption DEF Instance
  <2>2. Evolves(i) /\ next_instance_id <= next_instance_id'
    BY <1>1, <2>1, Evolution, InstancesGrow, Zenon
  <2>3. GrantSpent(g)
    BY Zenon DEF IInv
  <2>4. CASE t = s \/ t = None
    BY <2>1, <2>2, <2>3, <2>4 DEF GrantSpent
  <2>5. CASE Opens(i)
    BY <2>1, <2>3, <2>5 DEF GrantSpent, Opens
  <2>6. CASE Moves(i, s, t)
    <3>1. /\ g.connect_sequence <= s.sequence
          /\ \A r \in s.pending : r.sequence # g.connect_sequence
      BY <2>3, <2>6 DEF GrantSpent, Moves
    <3>2. s.sequence \in Nat /\ t.sequence \in Nat /\ PendingMoves(s, t)
      BY <2>6 DEF Moves, Sessions
    <3>3. /\ g.connect_sequence <= t.sequence
          /\ \A r \in t.pending : r.sequence # g.connect_sequence
      BY <2>1, <3>1, <3>2 DEF PendingMoves
    <3> QED
      BY <2>1, <2>2, <2>3, <3>3 DEF GrantSpent
  <2> QED
    BY <2>2, <2>4, <2>5, <2>6 DEF Evolves
<1>3. CASE grants' = grants
  BY <1>1, <1>2, <1>3 DEF GrantsAreSound
<1>4. ASSUME NEW i \in Instance, AuthorizeFinish(i), grants' = grants \cup {Grant(i, call[i])},
             grants' # grants
      PROVE  (\A g \in grants : GrantSpent(g))' /\ GrantsAreSound'
  <2> DEFINE c == call[i]
             o == c.admission.origin
             r == proxy[i].publications[o]
             n == Grant(i, c)
  <2>1. /\ c # None /\ c.op = "authorize" /\ c \in Calls
        /\ ValidAdmission(i, c.admission) /\ o = c.record.target
        /\ PublicationIsCurrent(r, c.now)
        /\ UNCHANGED <<proxy, next_instance_id>>
    BY <1>1, <1>4 DEF AuthorizeFinish
  <2>2. /\ proxy[i] \in Sessions /\ proxy[i] # None /\ r # None /\ SessionSound(i)
        /\ CallSound(i)
    <3>1. proxy[i] # None /\ r # None
      BY <2>1, Zenon DEF ValidAdmission
    <3>2. proxy[i] \in Sessions
      BY <1>1, <3>1, SMTT(20) DEF SessionTypes
    <3> QED
      BY <3>1, <3>2, Zenon DEF IInv
  <2>3. /\ c.now \in Nat /\ o \in Origin /\ c.record.sequence \in Nat
    BY <2>1, CallTypes, SMTT(20) DEF Admissions, PendingRecords
  <2>4. r \in Publications /\ o \in Published(i)
    BY <2>2, <2>3, SMTT(20) DEF Sessions, Published
  <2>5. /\ r.published_at \in Nat /\ r.publication_valid_until \in Nat
        /\ r.authority.valid_from \in Nat /\ r.authority.valid_until \in Nat
    BY <2>4, ZenonT(30) DEF Publications, Authorities
  <2>6. /\ r.authority.valid_from <= r.published_at
        /\ r.publication_valid_until <= r.authority.valid_until
    BY <2>2, <2>4, ZenonT(30) DEF SessionSound, RecordSound
  <2>7. r.published_at <= c.now /\ c.now < r.publication_valid_until
    BY <2>1, ZenonT(30) DEF PublicationIsCurrent
  <2>8. /\ n.instance_id = i /\ n.origin = o /\ n.target = c.record.target
        /\ n.authority = r.authority /\ n.issued_at = c.now
        /\ n.expires_at = GrantExpiry(r, c.now)
        /\ n.connect_sequence = c.record.sequence
        /\ n.registry_generation = proxy[i].registry_generation
        /\ n.changes = changes[i]
    BY Zenon DEF Grant
  <2> HIDE DEF n, r
  <2>9. /\ c.now < GrantExpiry(r, c.now)
        /\ GrantExpiry(r, c.now) <= r.authority.valid_until
        /\ GrantExpiry(r, c.now) <= c.now + GrantLifetime
    BY <2>3, <2>5, <2>6, <2>7, LimitsAssumption, SMTT(20) DEF GrantExpiry, Earlier
  <2>10. \A g \in grants : g.instance_id = i => g.connect_sequence # n.connect_sequence
    <3>1. \A g \in grants : g.instance_id = i => g.connect_sequence # c.record.sequence
      BY <2>1, <2>2, Zenon DEF CallSound
    <3> QED
      BY <2>8, <3>1, Zenon
  <2>11. GrantsAreSound'
    <3>1. /\ n.target = n.origin
          /\ n.authority.valid_from <= n.issued_at
          /\ n.issued_at < n.expires_at
          /\ n.expires_at <= n.authority.valid_until
          /\ n.expires_at <= n.issued_at + GrantLifetime
      BY <2>1, <2>3, <2>5, <2>6, <2>7, <2>8, <2>9
    <3>2. grants' = grants \cup {n}
      BY <1>4 DEF n
    <3>3. \A g \in grants' : g \in grants \/ g = n
      BY <3>2, Zenon
    <3>4. ASSUME NEW g \in grants', NEW h \in grants',
                 g.instance_id = h.instance_id, g.connect_sequence = h.connect_sequence
          PROVE  g = h
      <4>1. CASE g \in grants /\ h \in grants
        BY <1>1, <3>4, <4>1, Zenon DEF GrantsAreSound
      <4> QED
        BY <2>8, <2>10, <3>3, <3>4, <4>1, Zenon
    <3>5. ASSUME NEW g \in grants'
          PROVE  /\ g.target = g.origin
                 /\ g.authority.valid_from <= g.issued_at
                 /\ g.issued_at < g.expires_at
                 /\ g.expires_at <= g.authority.valid_until
                 /\ g.expires_at <= g.issued_at + GrantLifetime
      BY <1>1, <3>1, <3>3, Zenon DEF GrantsAreSound
    <3> QED
      BY <3>4, <3>5, Zenon DEF GrantsAreSound
  <2>12. ASSUME NEW g, g = n PROVE GrantSpent(g)'
    <3>1. /\ i < next_instance_id
          /\ proxy[i].registry_generation = changes[i] + 1
          /\ c.record.sequence <= proxy[i].sequence
          /\ \A q \in proxy[i].pending : q.sequence # c.record.sequence
      BY <2>1, <2>2, ZenonT(30) DEF SessionSound, CallSound
    <3>2. /\ n.instance_id < next_instance_id'
          /\ n.registry_generation = n.changes + 1
          /\ n.connect_sequence <= proxy'[n.instance_id].sequence
          /\ \A q \in proxy'[n.instance_id].pending : q.sequence # n.connect_sequence
      BY <2>1, <2>8, <3>1
    <3> QED
      BY <2>12, <3>2, ZenonT(30) DEF GrantSpent
  <2>13. grants' = grants \cup {n}
    BY <1>4 DEF n
  <2>14. ASSUME NEW g \in grants' PROVE GrantSpent(g)'
    BY <1>2, <2>12, <2>13
  <2> QED
    BY <2>11, <2>14, Zenon
<1> QED
  BY <1>3, <1>4, GrantsGrow

\* The authorities a host holds are the engine's, or of an epoch that ended.
LEMMA AuthoritiesStep ==
    ASSUME IInv, [Next]_vars
    PROVE  (\A a \in authorities : Timely(a))'
<1>1. EngineTypes /\ TokenTypes /\ \A a \in authorities : Timely(a)
  BY Zenon DEF IInv, Types
<1>2. ASSUME NEW a \in authorities PROVE Timely(a)'
  <2>1. a \in Authorities /\ Timely(a)
    BY <1>1, Zenon DEF TokenTypes
  <2> QED
    BY <1>1, <2>1, EngineMoves, Zenon
<1>3. ASSUME authorities' \subseteq authorities PROVE (\A a \in authorities : Timely(a))'
  BY <1>2, <1>3, Zenon
<1>4. ASSUME NEW o \in Origin, NEW w \in Window, Authorize(o, w)
      PROVE  (\A a \in authorities : Timely(a))'
  BY <1>1, <1>4 DEF Authorize, engine, Timely, EngineTypes
<1>5. CASE EngineStep \/ New \/ Discard \/ UNCHANGED vars
  BY <1>3, <1>4, <1>5, RestKeeps, Zenon DEF RestFrame
<1>6. ASSUME NEW i \in Instance, CallStep(i) PROVE (\A a \in authorities : Timely(a))'
  <2>1. authorities' = authorities
    BY <1>6, CallKeeps, Zenon DEF CallFrame
  <2> QED
    BY <1>2, <2>1, Zenon
<1>7. ASSUME NEW i \in Instance, HostStep(i) PROVE (\A a \in authorities : Timely(a))'
  BY <1>3, <1>7, HostKeeps, Zenon DEF HostFrame
<1> QED
  BY <1>5, <1>6, <1>7, Zenon DEF Next, Instance

\* A handle is never ahead of the registry it names.
LEMMA AdmissionsStep ==
    ASSUME IInv, [Next]_vars
    PROVE  (\A a \in admissions : AdmissionSound(a))'
<1>1. /\ SessionTypes /\ SessionTypes' /\ TokenTypes
      /\ call \in [Instance -> Calls \cup {None}]
  BY SessionTypesStep, Zenon DEF IInv, Types
<1>2. ASSUME NEW a \in admissions PROVE AdmissionSound(a)'
  <2> DEFINE i == a.instance_id
  <2>1. i \in Instance /\ a.publication_generation \in Nat
    BY <1>1 DEF TokenTypes, Admissions
  <2>2. i \in Nat /\ next_instance_id \in Nat /\ next_instance_id' \in Nat
    BY <1>1, <2>1, BoundAssumption DEF SessionTypes, Instance
  <2>3. Evolves(i) /\ next_instance_id <= next_instance_id'
    BY <1>1, <2>1, Evolution, InstancesGrow, Zenon
  <2>4. AdmissionSound(a)
    BY Zenon DEF IInv
  <2>5. CASE proxy'[i] = proxy[i] \/ proxy'[i] = None
    BY <2>2, <2>3, <2>4, <2>5 DEF AdmissionSound
  <2>6. CASE Opens(i)
    BY <2>2, <2>4, <2>6 DEF AdmissionSound, Opens
  <2>7. CASE Moves(i, proxy[i], proxy'[i])
    <3>1. /\ proxy[i].registry_generation \in Nat /\ proxy'[i].registry_generation \in Nat
          /\ proxy[i].registry_generation <= proxy'[i].registry_generation
      <4>1. /\ proxy[i] \in Sessions /\ proxy'[i] \in Sessions
            /\ RegistryMoves(i, proxy[i], proxy'[i])
        BY <2>7, Zenon DEF Moves
      <4>2. proxy[i].registry_generation \in Nat /\ proxy'[i].registry_generation \in Nat
        BY <4>1, SessionFields, Zenon
      <4>3. \/ proxy'[i].registry_generation = proxy[i].registry_generation
            \/ proxy'[i].registry_generation = proxy[i].registry_generation + 1
        BY <4>1, Zenon DEF RegistryMoves
      <4> QED
        BY <4>2, <4>3
    <3>2. a.publication_generation <= proxy[i].registry_generation
      BY <2>4, <2>7 DEF AdmissionSound, Moves
    <3> QED
      BY <2>1, <2>2, <2>3, <2>4, <3>1, <3>2, SMTT(20) DEF AdmissionSound
  <2> QED
    BY <2>3, <2>5, <2>6, <2>7 DEF Evolves
<1>3. ASSUME admissions' \subseteq admissions
      PROVE  (\A a \in admissions : AdmissionSound(a))'
  BY <1>2, <1>3, Zenon
<1>4. ASSUME NEW i \in Instance, NEW g, g.instance_id = i,
             g.publication_generation = NextGeneration(i),
             proxy[i] # None, next_instance_id' = next_instance_id,
             proxy'[i] # None => proxy'[i].registry_generation = NextGeneration(i),
             NextGeneration(i) \in Nat
      PROVE  AdmissionSound(g)'
  <2>1. i < next_instance_id
    BY <1>4, Zenon DEF IInv, SessionSound
  <2> QED
    BY <1>4, <2>1 DEF AdmissionSound
<1>5. ASSUME NEW i \in Instance, PublishCommit(i) \/ ReplaceCommit(i)
      PROVE  (\A a \in admissions : AdmissionSound(a))'
  <2>1. proxy[i] \in Sessions /\ proxy[i] # None
    <3>1. call[i] # None
      BY <1>5, Zenon DEF PublishCommit, ReplaceCommit
    <3>2. proxy[i] # None
      BY <3>1, Zenon DEF IInv, Fits
    <3> QED
      BY <1>1, <3>2 DEF SessionTypes
  <2>2. NextGeneration(i) \in Nat
    BY <2>1 DEF NextGeneration, Sessions
  <2>3. CASE admissions' = admissions
    BY <1>3, <2>3
  <2>4. CASE admissions' # admissions
    <3>1. PICK r : /\ admissions' = admissions \cup {Admission(i, r)}
                   /\ r.publication_generation = NextGeneration(i)
                   /\ changes'[i] = changes[i] + 1
                   /\ next_instance_id' = next_instance_id
      <4>1. CASE PublishCommit(i)
        <5> DEFINE r == Record(call[i].authority, proxy[i].publication_sequence + 1,
                               call[i].now, NextGeneration(i))
        <5>1. /\ admissions' = admissions \cup {Admission(i, r)}
              /\ changes'[i] = changes[i] + 1
              /\ next_instance_id' = next_instance_id
          BY <1>1, <2>4, <4>1, Zenon DEF PublishCommit, SessionTypes
        <5>2. r.publication_generation = NextGeneration(i)
          BY SMTT(20) DEF Record
        <5> QED
          BY <5>1, <5>2, SMTT(20)
      <4>2. CASE ReplaceCommit(i)
        <5> DEFINE r == Record(call[i].authority, call[i].admission.publication_id,
                               call[i].now, NextGeneration(i))
        <5>1. /\ admissions' = admissions \cup {Admission(i, r)}
              /\ changes'[i] = changes[i] + 1
              /\ next_instance_id' = next_instance_id
          BY <1>1, <2>4, <4>2 DEF ReplaceCommit, SessionTypes
        <5>2. r.publication_generation = NextGeneration(i)
          BY SMTT(20) DEF Record
        <5> QED
          BY <5>1, <5>2
      <4> QED
        BY <1>5, <4>1, <4>2, SMTT(20)
    <3>2. proxy'[i] # None => proxy'[i].registry_generation = NextGeneration(i)
      <4>1. SessionSound(i) /\ SessionSound(i)'
        BY SessionStep, Zenon DEF IInv
      <4> QED
        BY <2>1, <3>1, <4>1 DEF SessionSound, NextGeneration
    <3>3. ASSUME NEW g, g = Admission(i, r) PROVE AdmissionSound(g)'
      <4>1. g.instance_id = i /\ g.publication_generation = NextGeneration(i)
        BY <3>1, <3>3 DEF Admission
      <4> QED
        BY <1>4, <2>1, <2>2, <3>1, <3>2, <4>1
    <3>4. ASSUME NEW g \in admissions' PROVE AdmissionSound(g)'
      BY <1>2, <3>1, <3>3, <3>4
    <3> QED
      BY <3>4
  <2> QED
    BY <2>3, <2>4
<1>6. CASE EngineStep \/ New \/ Discard \/ UNCHANGED vars
  BY <1>3, <1>6, RestKeeps, Zenon DEF RestFrame
<1>7. ASSUME NEW i \in Instance, CallStep(i)
      PROVE  (\A a \in admissions : AdmissionSound(a))'
  <2>1. CASE admissions' = admissions
    BY <1>2, <2>1, Zenon
  <2> QED
    BY <1>5, <1>7, <2>1, CallKeeps, Zenon DEF CallFrame
<1>8. ASSUME NEW i \in Instance, HostStep(i)
      PROVE  (\A a \in admissions : AdmissionSound(a))'
  BY <1>3, <1>8, HostKeeps, Zenon DEF HostFrame
<1> QED
  BY <1>6, <1>7, <1>8, Zenon DEF Next, Instance

\* What publish_authority dropped stays dead for its session.
LEMMA ReclaimedStep ==
    ASSUME IInv, [Next]_vars
    PROVE  (\A r \in reclaimed : ReclaimedSound(r))'
<1>1. /\ EngineTypes /\ SessionTypes /\ SessionTypes' /\ HistoryTypes
      /\ call \in [Instance -> Calls \cup {None}]
  BY SessionTypesStep, Zenon DEF IInv, Types
<1>2. epoch <= epoch' /\ epoch \in Nat /\ epoch' \in Nat
  BY <1>1, EngineMoves, Zenon DEF EngineTypes
<1>3. ASSUME NEW r \in reclaimed PROVE ReclaimedSound(r)'
  <2> DEFINE i == r.instance_id
  <2>1. i \in Instance /\ r.record \in Publications
    BY <1>1 DEF HistoryTypes
  <2>2. /\ r.record.authority.epoch \in Nat /\ r.record.publication_valid_until \in Nat
        /\ i \in Nat /\ next_instance_id \in Nat /\ next_instance_id' \in Nat
    <3>1. next_instance_id \in Nat /\ next_instance_id' \in Nat
      BY <1>1 DEF SessionTypes
    <3>2. r.record.authority.epoch \in Nat /\ r.record.publication_valid_until \in Nat
      BY <2>1 DEF Publications, Authorities
    <3> QED
      BY <2>1, <3>1, <3>2, BoundAssumption DEF Instance
  <2>3. Evolves(i) /\ next_instance_id <= next_instance_id'
    BY <1>1, <2>1, Evolution, InstancesGrow, Zenon
  <2>4. ReclaimedSound(r)
    BY Zenon DEF IInv
  <2>5. CASE proxy'[i] = proxy[i] \/ proxy'[i] = None
    BY <1>2, <2>2, <2>3, <2>4, <2>5, SMTT(20) DEF ReclaimedSound, Dead
  <2>6. CASE Opens(i)
    BY <2>2, <2>4, <2>6, SMTT(20) DEF ReclaimedSound, Opens
  <2>7. CASE Moves(i, proxy[i], proxy'[i])
    <3>1. /\ proxy[i].last_observed_time \in Nat /\ proxy'[i].last_observed_time \in Nat
          /\ proxy[i].last_observed_time <= proxy'[i].last_observed_time
          /\ proxy[i] # None
      BY <2>7 DEF Moves, Sessions
    <3> QED
      BY <1>2, <2>2, <2>3, <2>4, <3>1, SMTT(20) DEF ReclaimedSound, Dead
  <2> QED
    BY <2>3, <2>5, <2>6, <2>7 DEF Evolves
<1>4. CASE reclaimed' = reclaimed
  BY <1>3, <1>4
<1>5. ASSUME NEW i \in Instance, PublishCommit(i)
      PROVE  (\A r \in reclaimed : ReclaimedSound(r))'
  <2> DEFINE c == call[i]
  <2>1. /\ c # None /\ c.op = "scan" /\ c \in Calls /\ proxy[i] \in Sessions
        /\ proxy[i] # None /\ CallSound(i) /\ SessionSound(i) /\ c.dead \subseteq Published(i)
        /\ next_instance_id' = next_instance_id
    <3>1. /\ c # None /\ c.op = "scan" /\ next_instance_id' = next_instance_id
      BY <1>5, Zenon DEF PublishCommit
    <3>2. Fits(i) /\ CallSound(i) /\ SessionSound(i)
      BY Zenon DEF IInv
    <3>3. proxy[i] # None /\ c.dead \subseteq Published(i)
      BY <3>1, <3>2, Zenon DEF Fits
    <3>4. c \in Calls /\ proxy[i] \in Sessions
      BY <1>1, <3>1, <3>3, SMTT(20) DEF SessionTypes
    <3> QED
      BY <3>1, <3>2, <3>3, <3>4, Zenon
  <2>2. reclaimed' = reclaimed \cup
            {[instance_id |-> i, record |-> proxy[i].publications[o]] : o \in c.dead}
    BY <1>5, Zenon DEF PublishCommit
  <2>3. ASSUME NEW o \in c.dead, NEW r,
               r = [instance_id |-> i, record |-> proxy[i].publications[o]]
        PROVE  ReclaimedSound(r)'
    <3>1. Dead(i, proxy[i].publications[o]) /\ i < next_instance_id
      BY <2>1, ZenonT(30) DEF CallSound, SessionSound
    <3>2. proxy[i].publications[o] \in Publications
      BY <2>1 DEF Published, Sessions
    <3>3. /\ proxy[i].publications[o].authority.epoch \in Nat
          /\ proxy[i].publications[o].publication_valid_until \in Nat
      BY <3>2, SMTT(20) DEF Publications, Authorities
    <3>4. proxy'[i] # None => /\ proxy[i].last_observed_time <= proxy'[i].last_observed_time
                              /\ proxy[i].last_observed_time \in Nat
                              /\ proxy'[i].last_observed_time \in Nat
      <4>1. Evolves(i)
        BY Evolution
      <4>2. proxy'[i] # None => proxy'[i] \in Sessions
        BY <1>1 DEF SessionTypes
      <4>3. ~Opens(i)
        BY <1>1, <3>1 DEF Opens, SessionTypes
      <4>4. \/ proxy'[i] = None \/ proxy'[i] = proxy[i]
            \/ proxy[i].last_observed_time <= proxy'[i].last_observed_time
        BY <4>1, <4>3, Zenon DEF Evolves, Moves
      <4>5. /\ proxy[i].last_observed_time \in Nat
            /\ proxy'[i] # None => proxy'[i].last_observed_time \in Nat
        BY <2>1, <4>2, SessionFields, Zenon
      <4>6. proxy'[i] = proxy[i] =>
                proxy[i].last_observed_time <= proxy'[i].last_observed_time
        BY <4>5
      <4> QED
        BY <4>4, <4>5, <4>6, Zenon
    <3>5. r.instance_id = i /\ r.record = proxy[i].publications[o]
      BY <2>3
    <3> QED
      BY <1>2, <2>1, <3>1, <3>3, <3>4, <3>5, SMTT(20) DEF ReclaimedSound, Dead
  <2>4. ASSUME NEW r \in reclaimed' PROVE ReclaimedSound(r)'
    BY <1>3, <2>2, <2>3
  <2> QED
    BY <2>4
<1>6. CASE EngineStep \/ New \/ Discard \/ UNCHANGED vars
  BY <1>4, <1>6, RestKeeps, Zenon DEF RestFrame, history
<1>7. ASSUME NEW i \in Instance, CallStep(i)
      PROVE  (\A r \in reclaimed : ReclaimedSound(r))'
  BY <1>4, <1>5, <1>7, CallKeeps, Zenon DEF CallFrame
<1>8. ASSUME NEW i \in Instance, HostStep(i)
      PROVE  (\A r \in reclaimed : ReclaimedSound(r))'
  BY <1>4, <1>8, HostKeeps, Zenon DEF HostFrame
<1> QED
  BY <1>6, <1>7, <1>8, Zenon DEF Next, Instance

\* A tunnel opens only on what the engine and the registry say at that moment.
LEMMA TunnelsStep ==
    ASSUME IInv, [Next]_vars
    PROVE  TunnelsAreCurrent'
<1>1. SessionTypes /\ TokenTypes /\ TunnelsAreCurrent
  BY Zenon DEF IInv, Types
<1>2. CASE opened' = opened
  BY <1>1, <1>2 DEF TunnelsAreCurrent
<1>3. ASSUME NEW i \in Instance, RevalidateFinish(i) PROVE TunnelsAreCurrent'
  <2> DEFINE c == call[i]
             n == [grant |-> c.grant, now |-> c.now, epoch |-> epoch,
                   changes |-> changes[i]]
  <2>1. c # None /\ c.op = "revalidate" /\ CallSound(i) /\ SessionSound(i) /\ proxy[i] # None
    BY <1>3, Zenon DEF RevalidateFinish, IInv, Fits
  <2>2. /\ c.grant \in grants /\ c.grant.registry_generation = proxy[i].registry_generation
        /\ c.grant.issued_at <= c.now /\ c.now < c.grant.expires_at
    BY <2>1, Zenon DEF CallSound
  <2>3. CASE ~StillPublished(i, c.grant, c.now)
    BY <1>2, <1>3, <2>3, ZenonT(30) DEF RevalidateFinish
  <2>4. CASE StillPublished(i, c.grant, c.now)
    <3>1. opened' = opened \cup {n}
      BY <1>3, <2>4, ZenonT(30) DEF RevalidateFinish
    <3>2. c.grant.authority.epoch = epoch
      BY <2>4, Zenon DEF StillPublished, PublicationIsCurrent, AuthorityIsCurrent
    <3>3. c.grant.changes = changes[i]
      <4>1. c.grant.registry_generation = c.grant.changes + 1
        BY <2>2, Zenon DEF IInv, GrantSpent
      <4>2. proxy[i].registry_generation = changes[i] + 1
        BY <2>1 DEF SessionSound
      <4>3. c.grant.changes \in Nat /\ changes[i] \in Nat
        BY <1>1, <2>2 DEF SessionTypes, TokenTypes, Grants
      <4>4. \A k, m \in Nat : k + 1 = m + 1 => k = m
        OBVIOUS
      <4> QED
        BY <2>2, <4>1, <4>2, <4>3, <4>4, Zenon
    <3> QED
      <4>1. /\ n.grant.authority.epoch = n.epoch
            /\ n.grant.issued_at <= n.now
            /\ n.now < n.grant.expires_at
            /\ n.grant.changes = n.changes
        BY <2>2, <3>2, <3>3
      <4> HIDE DEF n
      <4> QED
        BY <1>1, <3>1, <4>1, Zenon DEF TunnelsAreCurrent
  <2> QED
    BY <2>3, <2>4, Zenon
<1>4. CASE EngineStep \/ New \/ Discard \/ UNCHANGED vars
  BY <1>2, <1>4, RestKeeps, Zenon DEF RestFrame, history
<1>5. ASSUME NEW i \in Instance, CallStep(i) PROVE TunnelsAreCurrent'
  BY <1>2, <1>3, <1>5, CallKeeps, Zenon DEF CallFrame
<1>6. ASSUME NEW i \in Instance, HostStep(i) PROVE TunnelsAreCurrent'
  BY <1>2, <1>6, HostKeeps, Zenon DEF HostFrame
<1> QED
  BY <1>4, <1>5, <1>6, Zenon DEF Next, Instance

-----------------------------------------------------------------------------
(* The theorems.                                                           *)

\* No session is open at first.
LEMMA InitIInv == Init => IInv
<1> SUFFICES ASSUME Init PROVE IInv
  OBVIOUS
<1>1. Types
  BY DEF Init, Types, EngineTypes, SessionTypes, TokenTypes, HistoryTypes, Instance
<1>2. \A i \in Instance : proxy[i] = None /\ call[i] = None /\ changes[i] = 0
  BY Zenon DEF Init, Instance
<1>3. \A i \in Instance : Fits(i) /\ Unopened(i) /\ SessionSound(i) /\ CallSound(i)
  BY <1>2 DEF Fits, Unopened, SessionSound, CallSound
<1> QED
  BY <1>1, <1>3 DEF IInv, Init, GrantsAreSound, TunnelsAreCurrent

\* Every step keeps the inductive invariant.
LEMMA NextIInv == IInv /\ [Next]_vars => IInv'
<1> SUFFICES ASSUME IInv, [Next]_vars PROVE IInv'
  OBVIOUS
<1>1. Types'
  BY TypesStep, Zenon
<1>2. \A i \in Instance : (Fits(i) /\ Unopened(i) /\ SessionSound(i) /\ CallSound(i))'
  BY SessionStep, CallsStep, Zenon
<1>3. (\A a \in authorities : Timely(a))' /\ (\A a \in admissions : AdmissionSound(a))'
  BY AuthoritiesStep, AdmissionsStep, Zenon
<1>4. (\A g \in grants : GrantSpent(g))' /\ GrantsAreSound' /\ TunnelsAreCurrent'
  BY GrantsStep, TunnelsStep, Zenon
<1>5. (\A r \in reclaimed : ReclaimedSound(r))'
  BY ReclaimedStep, Zenon
<1> QED
  BY <1>1, <1>2, <1>3, <1>4, <1>5, Zenon DEF IInv

\* IInv holds in every reachable state, between any two questions that
\* publish_authority, replace_authority, authorize_connect and
\* revalidate_tunnel_grant ask the engine.
THEOREM LoopbackInvariant == Spec => []IInv
  BY InitIInv, NextIInv, PTL DEF Spec

\* One CONNECT yields at most one grant, within its authority's validity.
THEOREM GrantSafety == Spec => []GrantsAreSound
<1>1. IInv => GrantsAreSound
  BY Zenon DEF IInv
<1> QED
  BY <1>1, LoopbackInvariant, PTL

\* No tunnel opens on an authority from before the last invalidation, or on a
\* grant from before the last registry operation.
THEOREM TunnelSafety == Spec => []TunnelsAreCurrent
<1>1. IInv => TunnelsAreCurrent
  BY Zenon DEF IInv
<1> QED
  BY <1>1, LoopbackInvariant, PTL

\* What publish_authority reclaims can no longer authorize a tunnel.
THEOREM ReclaimSafety == Spec => []ReclaimedIsDead
<1>1. IInv => ReclaimedIsDead
  <2> SUFFICES ASSUME IInv, NEW r \in reclaimed, proxy[r.instance_id] # None,
                      NEW now \in proxy[r.instance_id].last_observed_time..MaxNow
               PROVE  ~PublicationIsCurrent(r.record, now)
    BY DEF ReclaimedIsDead
  <2>1. Dead(r.instance_id, r.record)
    BY Zenon DEF IInv, ReclaimedSound
  <2>2. r.record \in Publications /\ proxy[r.instance_id] \in Sessions /\ epoch \in Nat
    <3>1. EngineTypes /\ SessionTypes /\ HistoryTypes
      BY Zenon DEF IInv, Types
    <3>2. r.instance_id \in Instance /\ r.record \in Publications
      BY <3>1 DEF HistoryTypes
    <3> QED
      BY <3>1, <3>2 DEF EngineTypes, SessionTypes
  <2>3. /\ r.record.authority.epoch \in Nat /\ r.record.publication_valid_until \in Nat
        /\ proxy[r.instance_id].last_observed_time \in Nat
    BY <2>2 DEF Publications, Authorities, Sessions
  <2> QED
    BY <2>1, <2>2, <2>3, BoundAssumption, SMTT(20)
    DEF Dead, PublicationIsCurrent, AuthorityIsCurrent
<1> QED
  BY <1>1, LoopbackInvariant, PTL

\* A handle that validate_admission refuses is refused for ever: a publication
\* that appears has a registry generation no handle in circulation carries.
THEOREM HandleSafety == Spec => HandlesStayDead
<1>1. ASSUME IInv, [Next]_vars, NEW i \in 1..MaxInstances, NEW a \in admissions,
             ~ValidAdmission(i, a)
      PROVE  ~ValidAdmission(i, a)'
  <2> SUFFICES ASSUME ValidAdmission(i, a)' PROVE FALSE
    OBVIOUS
  <2> DEFINE o == a.origin
             s == proxy[i]
             t == proxy'[i]
  <2>1. /\ a.instance_id = i /\ t # None /\ t.publications[o] # None
        /\ t.publications[o].publication_id = a.publication_id
        /\ t.publications[o].publication_generation = a.publication_generation
    BY DEF ValidAdmission
  <2>2. /\ i \in Instance /\ next_instance_id \in Nat /\ o \in Origin
        /\ a.publication_generation \in Nat
    <3>1. SessionTypes /\ TokenTypes
      BY <1>1, Zenon DEF IInv, Types
    <3> QED
      BY <1>1, <3>1 DEF SessionTypes, TokenTypes, Admissions, Instance
  <2>3. AdmissionSound(a)
    BY <1>1, Zenon DEF IInv
  <2>4. Evolves(i)
    BY <1>1, <2>2, Evolution, Zenon
  <2>5. t # s
    BY <1>1, <2>1 DEF ValidAdmission
  <2>6. ~Opens(i)
    BY <2>1, <2>2, <2>3 DEF AdmissionSound, Opens, Instance
  <2>7. Moves(i, s, t)
    BY <2>1, <2>4, <2>5, <2>6, SMTT(20) DEF Evolves
  <2>8. /\ s # None /\ s.registry_generation \in Nat
        /\ \/ t.publications[o] = s.publications[o]
           \/ t.publications[o].publication_generation = s.registry_generation + 1
    BY <2>1, <2>2, <2>7, ZenonT(30) DEF Moves, RegistryMoves, Sessions
  <2>9. a.publication_generation <= s.registry_generation
    BY <2>1, <2>3, <2>8 DEF AdmissionSound
  <2>10. t.publications[o] = s.publications[o]
    BY <2>1, <2>2, <2>8, <2>9
  <2> QED
    BY <1>1, <2>1, <2>8, <2>10 DEF ValidAdmission
<1>2. IInv /\ [Next]_vars =>
          [\A i \in 1..MaxInstances : \A a \in admissions :
              ~ValidAdmission(i, a) => ~ValidAdmission(i, a)']_vars
  BY <1>1
<1> QED
  BY <1>2, LoopbackInvariant, PTL DEF Spec, HandlesStayDead
=============================================================================
