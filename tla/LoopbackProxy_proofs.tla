------------------------ MODULE LoopbackProxy_proofs ------------------------
(***************************************************************************)
(* The registry of hns-loopback-proxy, for every number of sessions,       *)
(* origins and authorities and every limit.  IInv is inductive; it says    *)
(* what each variable knows of the others between two questions a method   *)
(* asks the engine.  A step does one of four things to a session           *)
(* (Evolves): nothing, drop it, open it fresh, or move it forward; the     *)
(* conjuncts of IInv follow from that and from EngineMoves.                *)
(***************************************************************************)
EXTENDS LoopbackProxy, TLAPS

Instance == 1..MaxInstances

-----------------------------------------------------------------------------
(* The inductive invariant.                                                *)

Admissions ==
    [instance_id : Instance, origin : Origin, publication_id : Nat,
     publication_generation : Nat]

Grants ==
    [instance_id : Instance, origin : Origin, authority : Authorities,
     registry_generation : Nat, publication_id : Nat,
     publication_generation : Nat, connect_sequence : Nat, issued_at : Nat,
     expires_at : Nat, target : Origin, changes : Nat]

Calls ==
    [op : {"publish"}, authority : Authorities, now : Nat]
    \cup [op : {"scan"}, authority : Authorities, now : Nat,
          current : SUBSET Origin, dead : SUBSET Origin]
    \cup [op : {"replace"}, authority : Authorities, now : Nat,
          admission : Admissions]
    \cup [op : {"authorize"}, now : Nat, record : PendingRecords,
          admission : Admissions]
    \cup [op : {"revalidate"}, now : Nat, grant : Grants]

EngineTypes ==
    /\ generation \in Nat
    /\ epoch \in Nat
    /\ readiness \in {"down", "transport", "bridge"}

SessionTypes ==
    /\ next_instance_id \in Nat \ {0}
    /\ proxy \in [Instance -> Sessions \cup {None}]
    /\ changes \in [Instance -> Nat]

TokenTypes ==
    /\ authorities \subseteq Authorities
    /\ pendings \subseteq [instance_id : Instance, record : PendingRecords]
    /\ admissions \subseteq Admissions
    /\ grants \subseteq Grants

HistoryTypes ==
    /\ reclaimed \subseteq [instance_id : Instance, record : Publications]
    /\ opened \subseteq [grant : Grants, now : Nat, epoch : Nat, changes : Nat]

Types ==
    /\ EngineTypes
    /\ SessionTypes
    /\ call \in [Instance -> Calls \cup {None}]
    /\ TokenTypes
    /\ HistoryTypes

\* A session in a method is open, and a scan has found only records it holds.
Fits(i) ==
    call[i] # None =>
        /\ proxy[i] # None
        /\ call[i].op = "scan" => call[i].dead \subseteq Published(i)

\* An authority of the engine's epoch was issued while the bridge was ready and
\* under the generation in force: leaving that readiness ends the epoch.
Timely(a) ==
    /\ a.epoch <= epoch
    /\ a.epoch = epoch => readiness = "bridge" /\ a.generation = generation

\* A record that cannot be current at any time session i still accepts.
Dead(i, record) ==
    \/ record.authority.epoch < epoch
    \/ record.publication_valid_until <= proxy[i].last_observed_time

RecordSound(s, o, record) ==
    /\ record.authority.origin = o
    /\ Timely(record.authority)
    /\ record.authority.valid_from <= record.published_at
    /\ record.published_at <= s.last_observed_time
    /\ record.publication_valid_until <= record.authority.valid_until

PendingSound(s) ==
    \A r \in s.pending :
        /\ r.sequence <= s.sequence
        /\ \A q \in s.pending : r.sequence = q.sequence => r = q

SessionSound(i) ==
    proxy[i] # None =>
        /\ i < next_instance_id
        /\ proxy[i].registry_generation = changes[i] + 1
        /\ PendingSound(proxy[i])
        /\ \A o \in Published(i) :
              RecordSound(proxy[i], o, proxy[i].publications[o])

\* What a method carries from one question to the next.
Bound(i, c) ==
    /\ Timely(c.authority)
    /\ c.authority.valid_from <= c.now
    /\ c.now = proxy[i].last_observed_time

CallSound(i) ==
    LET c == call[i]
    IN  c # None =>
          /\ c.op \in {"publish", "scan", "replace"} => Bound(i, c)
          /\ c.op = "scan" =>
                \A o \in c.dead : Dead(i, proxy[i].publications[o])
          /\ c.op = "authorize" =>
                /\ c.record.sequence <= proxy[i].sequence
                /\ \A r \in proxy[i].pending : r.sequence # c.record.sequence
                /\ \A g \in grants :
                      g.instance_id = i => g.connect_sequence # c.record.sequence
          /\ c.op = "revalidate" =>
                /\ c.grant \in grants
                /\ c.grant.instance_id = i
                /\ c.grant.registry_generation = proxy[i].registry_generation
                /\ c.grant.issued_at <= c.now
                /\ c.now < c.grant.expires_at

\* The CONNECT behind a grant is used up, and the grant knows how many registry
\* operations came before it.
GrantSpent(g) ==
    /\ g.instance_id < next_instance_id
    /\ g.registry_generation = g.changes + 1
    /\ LET s == proxy[g.instance_id]
       IN  s # None =>
              /\ g.connect_sequence <= s.sequence
              /\ \A r \in s.pending : r.sequence # g.connect_sequence

AdmissionSound(a) ==
    /\ a.instance_id < next_instance_id
    /\ proxy[a.instance_id] # None =>
          a.publication_generation <= proxy[a.instance_id].registry_generation

\* A record publish_authority dropped is dead for its session.
ReclaimedSound(r) ==
    /\ r.instance_id < next_instance_id
    /\ proxy[r.instance_id] # None => Dead(r.instance_id, r.record)

Unopened(i) == i >= next_instance_id => changes[i] = 0

IInv ==
    /\ Types
    /\ \A a \in authorities : Timely(a)
    /\ \A i \in Instance : Fits(i) /\ Unopened(i) /\ SessionSound(i) /\ CallSound(i)
    /\ \A g \in grants : GrantSpent(g)
    /\ \A a \in admissions : AdmissionSound(a)
    /\ \A r \in reclaimed : ReclaimedSound(r)
    /\ GrantsAreSound
    /\ TunnelsAreCurrent

-----------------------------------------------------------------------------
(* Types.                                                                  *)

\* The call types by their operation.
LEMMA CallTypes ==
    ASSUME NEW c \in Calls
    PROVE  /\ c.now \in Nat
           /\ c.op \in {"publish", "scan", "replace"} => c.authority \in Authorities
           /\ c.op = "scan" => c.current \in SUBSET Origin /\ c.dead \in SUBSET Origin
           /\ c.op \in {"replace", "authorize"} => c.admission \in Admissions
           /\ c.op = "authorize" => c.record \in PendingRecords
           /\ c.op = "revalidate" => c.grant \in Grants
  BY DEF Calls

\* The counters of a session.
LEMMA SessionFields ==
    ASSUME NEW s \in Sessions
    PROVE  /\ s.last_observed_time \in Nat
           /\ s.sequence \in Nat
           /\ s.registry_generation \in Nat
  BY DEF Sessions

\* A session with another registry, and what else changes with it.
LEMMA SessionPublishes ==
    ASSUME NEW s \in Sessions, NEW p \in [Origin -> Publications \cup {None}],
           NEW n \in Nat, NEW g \in Nat
    PROVE  /\ [s EXCEPT !.publications = p] \in Sessions
           /\ [s EXCEPT !.publications = p, !.registry_generation = g] \in Sessions
           /\ [s EXCEPT !.publications = p, !.publication_sequence = n,
                        !.registry_generation = g] \in Sessions
  BY Zenon DEF Sessions

-----------------------------------------------------------------------------
(* What the steps leave alone.                                             *)

\* What every call of the host leaves alone.
HostFrame ==
    /\ UNCHANGED <<engine, next_instance_id, grants, opened, reclaimed>>
    /\ authorities' \subseteq authorities
    /\ admissions' \subseteq admissions

\* No call of the host touches the engine, the grants or the history of tunnels.
LEMMA HostKeeps ==
    ASSUME NEW i \in Instance, HostStep(i)
    PROVE  HostFrame
<1> USE DEF HostFrame
<1>1. CASE Drop(i)
  BY <1>1, Zenon DEF Drop, tokens, history
<1>2. CASE \E a \in admissions : RevokeAuthority(i, a)
  BY <1>2, Zenon DEF RevokeAuthority
<1>3. CASE \E p \in pendings : Cancel(i, p)
  BY <1>3, Zenon DEF Cancel, tokens, history
<1>4. ASSUME NEW now, AdmitRefused(i, now) PROVE HostFrame
  BY <1>4, Zenon DEF AdmitRefused, tokens, history
<1>5. ASSUME NEW now, NEW o \in Origin, AdmitConnect(i, o, now) PROVE HostFrame
  BY <1>5, Zenon DEF AdmitConnect, history
<1>6. ASSUME NEW now, NEW authority \in authorities, Publish(i, authority, now)
      PROVE  HostFrame
  BY <1>6, Zenon DEF Publish, history
<1>7. ASSUME NEW now, NEW a \in admissions, NEW authority \in authorities,
             Replace(i, a, authority, now)
      PROVE  HostFrame
  BY <1>7, Zenon DEF Replace, history
<1>8. ASSUME NEW now, NEW p \in pendings, NEW a \in admissions, NEW expected \in BOOLEAN,
             AuthorizeConnect(i, p, a, expected, now)
      PROVE  HostFrame
  BY <1>8, Zenon DEF AuthorizeConnect, history
<1>9. ASSUME NEW now, NEW g \in grants, Revalidate(i, g, now) PROVE HostFrame
  BY <1>9, Zenon DEF Revalidate, tokens, history
<1> QED
  BY <1>1, <1>2, <1>3, <1>4, <1>5, <1>6, <1>7, <1>8, <1>9, Zenon DEF HostStep

\* What every step of a method leaves alone, and the step that may not.
CallFrame(i) ==
    /\ UNCHANGED <<engine, next_instance_id, authorities, pendings>>
    /\ AuthorizeFinish(i) \/ grants' = grants
    /\ RevalidateFinish(i) \/ opened' = opened
    /\ PublishCommit(i) \/ reclaimed' = reclaimed
    /\ PublishCommit(i) \/ ReplaceCommit(i) \/ admissions' = admissions

\* Each step of a method changes only what its own commit is for.
LEMMA CallKeeps ==
    ASSUME NEW i \in Instance, CallStep(i)
    PROVE  CallFrame(i)
<1> USE DEF CallFrame
<1>1. CASE PublishBind(i)
  BY <1>1, Zenon DEF PublishBind, tokens, history
<1>2. CASE \E o \in Origin : PublishScan(i, o)
  BY <1>2, Zenon DEF PublishScan, tokens, history
<1>3. CASE PublishCommit(i)
  <2>1. /\ UNCHANGED <<engine, next_instance_id, authorities, pendings>>
        /\ grants' = grants /\ opened' = opened
    BY <1>3, Zenon DEF PublishCommit
  <2> QED
    BY <1>3, <2>1, Zenon
<1>4. CASE ReplaceCommit(i)
  <2>1. /\ UNCHANGED <<engine, next_instance_id, authorities, pendings>>
        /\ grants' = grants /\ opened' = opened /\ reclaimed' = reclaimed
    BY <1>4, Zenon DEF ReplaceCommit
  <2> QED
    BY <1>4, <2>1, Zenon
<1>5. CASE AuthorizeFinish(i)
  <2>1. UNCHANGED <<engine, next_instance_id, authorities, pendings, admissions, history>>
    BY <1>5, Zenon DEF AuthorizeFinish
  <2> QED
    BY <1>5, <2>1, Zenon DEF history
<1>6. CASE RevalidateFinish(i)
  <2>1. UNCHANGED <<engine, next_instance_id, tokens, reclaimed>>
    BY <1>6, Zenon DEF RevalidateFinish
  <2> QED
    BY <1>6, <2>1, Zenon DEF tokens
<1> QED
  BY <1>1, <1>2, <1>3, <1>4, <1>5, <1>6, Zenon DEF CallStep

\* What the engine, a new session, a discarded handle and a stuttering step
\* leave alone.
RestFrame ==
    /\ UNCHANGED <<call, grants, history>>
    /\ New \/ UNCHANGED <<proxy, next_instance_id>>
    /\ Fail \/ PolicyChanged \/ Climb \/ UNCHANGED engine
    /\ pendings' \subseteq pendings
    /\ admissions' \subseteq admissions
    /\ \/ authorities' \subseteq authorities
       \/ \E o \in Origin, w \in Window : Authorize(o, w)

\* No session is in what the other steps change, but for the one New opens.
LEMMA RestKeeps ==
    ASSUME EngineStep \/ New \/ Discard \/ UNCHANGED vars
    PROVE  RestFrame
<1> USE DEF RestFrame
<1>1. CASE Fail
  BY <1>1, Zenon DEF Fail, tokens
<1>2. CASE PolicyChanged
  BY <1>2, Zenon DEF PolicyChanged, tokens
<1>3. CASE Climb
  BY <1>3, Zenon DEF Climb, tokens
<1>4. ASSUME NEW o \in Origin, NEW w \in Window, Authorize(o, w) PROVE RestFrame
  <2>1. UNCHANGED <<engine, next_instance_id, proxy, call, pendings, admissions, grants,
                    history>>
    BY <1>4, Zenon DEF Authorize
  <2> QED
    BY <1>4, <2>1, Zenon
<1>5. CASE New
  <2>1. UNCHANGED <<engine, call, tokens, history>>
    BY <1>5, Zenon DEF New
  <2> QED
    BY <1>5, <2>1, Zenon DEF tokens
<1>6. CASE Discard
  BY <1>6, Zenon DEF Discard
<1>7. CASE UNCHANGED vars
  BY <1>7, Zenon DEF vars, tokens
<1> QED
  BY <1>1, <1>2, <1>3, <1>4, <1>5, <1>6, <1>7, Zenon DEF EngineStep

-----------------------------------------------------------------------------
(* What a step may do to a session, and what it leaves alone.              *)

\* The pending table loses records, or gains the one of the next CONNECT.
PendingMoves(s, t) ==
    /\ s.sequence <= t.sequence
    /\ \A r \in t.pending \ s.pending :
          /\ r.sequence = s.sequence + 1
          /\ t.sequence = s.sequence + 1
          /\ \A q \in t.pending \ s.pending : q = r

\* The registry loses records, or one operation changes it and is counted.
RegistryMoves(i, s, t) ==
    /\ \/ /\ t.registry_generation = s.registry_generation
          /\ changes'[i] = changes[i]
       \/ /\ t.registry_generation = s.registry_generation + 1
          /\ changes'[i] = changes[i] + 1
    /\ \A o \in Origin :
          \/ t.publications[o] \in {s.publications[o], None}
          \/ /\ t.registry_generation = s.registry_generation + 1
             /\ t.publications[o].publication_generation = t.registry_generation
             /\ RecordSound(t, o, t.publications[o])

Moves(i, s, t) ==
    /\ s \in Sessions
    /\ s # None
    /\ t \in Sessions
    /\ s.last_observed_time <= t.last_observed_time
    /\ PendingMoves(s, t)
    /\ RegistryMoves(i, s, t)

Opens(i) ==
    /\ i = next_instance_id
    /\ next_instance_id' = next_instance_id + 1
    /\ proxy'[i] \in Sessions
    /\ proxy'[i].registry_generation = 1
    /\ proxy'[i].pending = {}
    /\ proxy'[i].publications = [o \in Origin |-> None]
    /\ changes'[i] = changes[i]

Evolves(i) ==
    \/ proxy'[i] = proxy[i] /\ changes'[i] = changes[i]
    \/ proxy'[i] = None /\ changes'[i] = changes[i]
    \/ Opens(i)
    \/ Moves(i, proxy[i], proxy'[i])

\* The other sessions of a process are left alone.
Alone(i) ==
    /\ proxy' = [proxy EXCEPT ![i] = proxy'[i]]
    /\ call' = [call EXCEPT ![i] = call'[i]]
    /\ changes' = [changes EXCEPT ![i] = changes'[i]]

\* The engine's invalidations only accumulate: what an authority lost it never
\* gets back.
LEMMA EngineMoves ==
    ASSUME EngineTypes, [Next]_vars
    PROVE  /\ epoch <= epoch'
           /\ \A a \in Authorities : Timely(a) => Timely(a)'
           /\ EngineTypes'
<1> DEFINE Goal == /\ epoch <= epoch'
                   /\ \A a \in Authorities : Timely(a) => Timely(a)'
                   /\ EngineTypes'
<1>1. ASSUME UNCHANGED engine PROVE Goal
  BY <1>1 DEF engine, Timely, EngineTypes
<1>2. CASE Fail
  BY <1>2 DEF Fail, Timely, Authorities, EngineTypes
<1>3. CASE PolicyChanged
  BY <1>3 DEF PolicyChanged, Timely, Authorities, EngineTypes
<1>4. CASE Climb
  BY <1>4 DEF Climb, Timely, Authorities, EngineTypes
<1>5. CASE EngineStep \/ New \/ Discard \/ UNCHANGED vars
  BY <1>1, <1>2, <1>3, <1>4, <1>5, RestKeeps, Zenon DEF RestFrame
<1>6. ASSUME NEW i \in Instance, CallStep(i) PROVE Goal
  BY <1>1, <1>6, CallKeeps, Zenon DEF CallFrame
<1>7. ASSUME NEW i \in Instance, HostStep(i) PROVE Goal
  BY <1>1, <1>7, HostKeeps, Zenon DEF HostFrame
<1> QED
  BY <1>5, <1>6, <1>7, Zenon DEF Next, Instance

\* A call leaves the other sessions alone.
LEMMA Others ==
    ASSUME SessionTypes, call \in [Instance -> Calls \cup {None}], NEW i \in Instance,
           CallStep(i) \/ HostStep(i)
    PROVE  Alone(i)
<1>1. ASSUME UNCHANGED proxy PROVE proxy' = [proxy EXCEPT ![i] = proxy'[i]]
  BY <1>1 DEF SessionTypes
<1>2. ASSUME UNCHANGED call PROVE call' = [call EXCEPT ![i] = call'[i]]
  BY <1>2
<1>3. ASSUME UNCHANGED changes PROVE changes' = [changes EXCEPT ![i] = changes'[i]]
  BY <1>3 DEF SessionTypes
<1>4. ASSUME NEW x, call' = [call EXCEPT ![i] = x]
      PROVE  call' = [call EXCEPT ![i] = call'[i]]
  BY <1>4
<1>5. ASSUME NEW x, proxy' = [proxy EXCEPT ![i] = x]
      PROVE  proxy' = [proxy EXCEPT ![i] = proxy'[i]]
  BY <1>5 DEF SessionTypes
<1>6. ASSUME NEW x, changes' = [changes EXCEPT ![i] = x]
      PROVE  changes' = [changes EXCEPT ![i] = changes'[i]]
  BY <1>6 DEF SessionTypes
<1>7. ASSUME NEW now, proxy' = Observed(i, now)
      PROVE  proxy' = [proxy EXCEPT ![i] = proxy'[i]]
  BY <1>5, <1>7, Zenon DEF Observed
<1>8. ASSUME NEW now, NEW x, proxy' = [Observed(i, now) EXCEPT ![i] = x]
      PROVE  proxy' = [proxy EXCEPT ![i] = proxy'[i]]
  BY <1>8, Zenon DEF Observed, SessionTypes
<1>9. CASE PublishBind(i)
  BY <1>1, <1>3, <1>4, <1>9, Zenon DEF Alone, PublishBind, Enter, Refuse, history
<1>10. ASSUME NEW o \in Origin, PublishScan(i, o) PROVE Alone(i)
  <2>1. UNCHANGED <<proxy, changes>>
    BY <1>10, Zenon DEF PublishScan, history
  <2>2. \E x : call' = [call EXCEPT ![i] = x]
    BY <1>10 DEF PublishScan
  <2> QED
    BY <1>1, <1>3, <1>4, <2>1, <2>2, Zenon DEF Alone
<1>11. CASE PublishCommit(i)
  <2>1. call' = [call EXCEPT ![i] = None]
    BY <1>11, Zenon DEF PublishCommit, Refuse
  <2>2. \E x : proxy' = [proxy EXCEPT ![i] = x]
    BY <1>11, Zenon DEF PublishCommit
  <2>3. UNCHANGED changes \/ \E x : changes' = [changes EXCEPT ![i] = x]
    BY <1>11, Zenon DEF PublishCommit
  <2> QED
    BY <1>3, <1>4, <1>5, <1>6, <2>1, <2>2, <2>3, Zenon DEF Alone
<1>12. CASE ReplaceCommit(i)
  <2>1. call' = [call EXCEPT ![i] = None]
    BY <1>12, Zenon DEF ReplaceCommit, Refuse
  <2>2. \/ UNCHANGED <<proxy, changes>>
        \/ /\ \E x : proxy' = [proxy EXCEPT ![i] = x]
           /\ \E x : changes' = [changes EXCEPT ![i] = x]
    BY <1>12 DEF ReplaceCommit
  <2> QED
    BY <1>1, <1>3, <1>4, <1>5, <1>6, <2>1, <2>2, Zenon DEF Alone
<1>13. CASE AuthorizeFinish(i)
  BY <1>1, <1>3, <1>4, <1>13, Zenon DEF Alone, AuthorizeFinish, Refuse, history
<1>14. CASE RevalidateFinish(i)
  BY <1>1, <1>3, <1>4, <1>14, Zenon DEF Alone, RevalidateFinish, Refuse
<1>15. CASE Drop(i)
  BY <1>2, <1>3, <1>5, <1>15, Zenon DEF Alone, Drop, history
<1>16. ASSUME NEW a \in admissions, RevokeAuthority(i, a) PROVE Alone(i)
  <2>1. UNCHANGED call
    BY <1>16, Zenon DEF RevokeAuthority
  <2>2. /\ \E x : proxy' = [proxy EXCEPT ![i] = x]
        /\ \E x : changes' = [changes EXCEPT ![i] = x]
    BY <1>16, Zenon DEF RevokeAuthority
  <2> QED
    BY <1>2, <1>5, <1>6, <2>1, <2>2, Zenon DEF Alone
<1>17. ASSUME NEW p \in pendings, Cancel(i, p) PROVE Alone(i)
  <2>1. UNCHANGED <<call, changes>>
    BY <1>17, Zenon DEF Cancel, history
  <2>2. \E x : proxy' = [proxy EXCEPT ![i] = x]
    BY <1>17, Zenon DEF Cancel
  <2> QED
    BY <1>2, <1>3, <1>5, <2>1, <2>2, Zenon DEF Alone
<1>18. ASSUME NEW now, AdmitRefused(i, now) PROVE Alone(i)
  <2>1. UNCHANGED <<call, changes>>
    BY <1>18, Zenon DEF AdmitRefused, history
  <2>2. proxy' = Observed(i, now) \/ \E x : proxy' = [Observed(i, now) EXCEPT ![i] = x]
    BY <1>18 DEF AdmitRefused
  <2> QED
    BY <1>2, <1>3, <1>7, <1>8, <2>1, <2>2, Zenon DEF Alone
<1>19. ASSUME NEW now, NEW o \in Origin, AdmitConnect(i, o, now) PROVE Alone(i)
  <2>1. UNCHANGED <<call, changes>>
    BY <1>19, Zenon DEF AdmitConnect, history
  <2>2. \E x : proxy' = [Observed(i, now) EXCEPT ![i] = x]
    BY <1>19, Zenon DEF AdmitConnect
  <2> QED
    BY <1>2, <1>3, <1>8, <2>1, <2>2, Zenon DEF Alone
<1>20. ASSUME NEW now, NEW authority \in authorities, Publish(i, authority, now)
       PROVE  Alone(i)
  BY <1>2, <1>3, <1>4, <1>7, <1>20, Zenon DEF Alone, Publish, Enter, history
<1>21. ASSUME NEW now, NEW a \in admissions, NEW authority \in authorities,
              Replace(i, a, authority, now)
       PROVE  Alone(i)
  BY <1>2, <1>3, <1>4, <1>7, <1>21, Zenon DEF Alone, Replace, Enter, history
<1>22. ASSUME NEW now, NEW p \in pendings, NEW a \in admissions, NEW expected \in BOOLEAN,
              AuthorizeConnect(i, p, a, expected, now)
       PROVE  Alone(i)
  <2>1. UNCHANGED changes /\ (UNCHANGED call \/ \E x : call' = [call EXCEPT ![i] = x])
    BY <1>22, Zenon DEF AuthorizeConnect, Enter, history
  <2>2. \/ \E x : proxy' = [Observed(i, now) EXCEPT ![i] = x]
        \/ \E x : proxy' = [proxy EXCEPT ![i] = x]
    BY <1>22 DEF AuthorizeConnect
  <2> QED
    BY <1>2, <1>3, <1>4, <1>5, <1>8, <2>1, <2>2, Zenon DEF Alone
<1>23. ASSUME NEW now, NEW g \in grants, Revalidate(i, g, now) PROVE Alone(i)
  BY <1>2, <1>3, <1>4, <1>7, <1>23, Zenon DEF Alone, Revalidate, Enter, history
<1>24. CASE CallStep(i)
  BY <1>9, <1>10, <1>11, <1>12, <1>13, <1>14, <1>24, Zenon DEF CallStep
<1>25. CASE HostStep(i)
  BY <1>15, <1>16, <1>17, <1>18, <1>19, <1>20, <1>21, <1>22, <1>23, <1>25, Zenon
  DEF HostStep
<1> QED
  BY <1>24, <1>25, Zenon

\* A call that neither admits a CONNECT nor changes the registry.
LEMMA Quiet ==
    ASSUME NEW i \in Instance, NEW s \in Sessions, NEW t \in Sessions, s # None,
           s.last_observed_time <= t.last_observed_time,
           t.sequence = s.sequence,
           t.pending \subseteq s.pending,
           t.registry_generation = s.registry_generation,
           t.publications = s.publications,
           changes'[i] = changes[i]
    PROVE  Moves(i, s, t)
  BY DEF Moves, PendingMoves, RegistryMoves, Sessions

\* A call that observes the time has a session that accepts it.
LEMMA Observing ==
    ASSUME SessionTypes, NEW i \in Instance, Idle(i), NEW now \in 0..MaxNow,
           Observes(i, now)
    PROVE  /\ proxy[i] \in Sessions
           /\ proxy[i] # None
           /\ Observed(i, now) = [proxy EXCEPT ![i] =
                  [proxy[i] EXCEPT !.last_observed_time = now]]
           /\ Observed(i, now)[i] = [proxy[i] EXCEPT !.last_observed_time = now]
           /\ Observed(i, now) \in [Instance -> Sessions \cup {None}]
           /\ Observed(i, now)[i] \in Sessions
           /\ now \in Nat
           /\ proxy[i].last_observed_time <= now
<1>1. proxy[i] \in Sessions /\ proxy[i] # None
  BY DEF SessionTypes, Idle
<1>2. [proxy[i] EXCEPT !.last_observed_time = now] \in Sessions
  BY <1>1 DEF Sessions
<1>3. /\ now \in Nat
      /\ proxy[i].last_observed_time <= now
  BY DEF Observes
<1>4. Observed(i, now) = [proxy EXCEPT ![i] =
          [proxy[i] EXCEPT !.last_observed_time = now]]
  BY DEF Observed
<1>5. /\ Observed(i, now)[i] = [proxy[i] EXCEPT !.last_observed_time = now]
      /\ Observed(i, now) \in [Instance -> Sessions \cup {None}]
  BY <1>2, <1>4 DEF SessionTypes
<1> QED
  BY <1>1, <1>2, <1>3, <1>4, <1>5, Zenon

\* What the steps of a method do to its session.
LEMMA CallMoves ==
    ASSUME IInv, NEW i \in Instance, CallStep(i)
    PROVE  Evolves(i)
<1>0. /\ SessionTypes /\ call \in [Instance -> Calls \cup {None}]
      /\ Fits(i) /\ CallSound(i)
  BY Zenon DEF IInv, Types
<1>1. ASSUME UNCHANGED <<proxy, changes>> PROVE Evolves(i)
  BY <1>1 DEF Evolves
<1>2. CASE \/ PublishBind(i) \/ AuthorizeFinish(i) \/ RevalidateFinish(i)
           \/ \E o \in Origin : PublishScan(i, o)
  BY <1>1, <1>2 DEF PublishBind, AuthorizeFinish, RevalidateFinish, PublishScan, history
<1>3. CASE PublishCommit(i)
  <2> DEFINE c == call[i]
             kept == [o \in Origin |-> IF o \in c.dead
                                       THEN None ELSE proxy[i].publications[o]]
             id == proxy[i].publication_sequence + 1
             record == Record(c.authority, id, c.now, NextGeneration(i))
             pubs == [kept EXCEPT ![c.authority.origin] = record]
  <2>1. /\ c # None /\ c.op = "scan" /\ c \in Calls
        /\ proxy[i] \in Sessions /\ proxy[i] # None
    BY <1>0, <1>3, Zenon DEF PublishCommit, Fits, SessionTypes
  <2>2. /\ c.now \in Nat /\ c.authority \in Authorities
        /\ Bound(i, c)
    BY <1>0, <2>1, CallTypes DEF CallSound
  <2>3. CASE ~Admissible(c)
    <3>1. proxy'[i] = [proxy[i] EXCEPT !.publications = kept] /\ changes' = changes
      BY <1>0, <1>3, <2>3 DEF PublishCommit, SessionTypes
    <3>2. kept \in [Origin -> Publications \cup {None}]
      BY <2>1 DEF Sessions
    <3>3. proxy'[i] \in Sessions
      <4>1. [proxy[i] EXCEPT !.publications = kept] \in Sessions
        BY <2>1, <3>2, SessionPublishes, Zenon
      <4> QED
        BY <3>1, <4>1, Zenon
    <3>4. \A o \in Origin : kept[o] \in {proxy[i].publications[o], None}
      OBVIOUS
    <3> HIDE DEF kept
    <3>5. /\ proxy'[i].publications = kept
          /\ proxy'[i].registry_generation = proxy[i].registry_generation
          /\ proxy'[i].last_observed_time = proxy[i].last_observed_time
          /\ proxy'[i].pending = proxy[i].pending
          /\ proxy'[i].sequence = proxy[i].sequence
      BY <2>1, <3>1 DEF Sessions
    <3>6. RegistryMoves(i, proxy[i], proxy'[i])
      BY <3>1, <3>4, <3>5, Zenon DEF RegistryMoves
    <3>7. Moves(i, proxy[i], proxy'[i])
      BY <2>1, <3>3, <3>5, <3>6 DEF Moves, PendingMoves, Sessions
    <3> QED
      BY <3>7, Zenon DEF Evolves
  <2>4. CASE Admissible(c)
    <3>1. /\ proxy'[i] = [proxy[i] EXCEPT !.publications = pubs,
                              !.publication_sequence = id,
                              !.registry_generation = NextGeneration(i)]
          /\ changes'[i] = changes[i] + 1
      BY <1>0, <1>3, <2>4, Zenon DEF PublishCommit, SessionTypes
    <3>2. record \in Publications /\ id \in Nat /\ NextGeneration(i) \in Nat
      BY <2>1, <2>2, LimitsAssumption
      DEF Record, Publications, Sessions, NextGeneration, Earlier, Authorities
    <3>3. record.authority = c.authority /\ record.publication_generation = NextGeneration(i)
      BY DEF Record
    <3>4. RecordSound(proxy[i], c.authority.origin, record)
      BY <2>1, <2>2, LimitsAssumption
      DEF RecordSound, Record, Bound, Earlier, Authorities, Sessions
    <3> HIDE DEF record, id
    <3>5. /\ pubs \in [Origin -> Publications \cup {None}]
          /\ \A o \in Origin : \/ pubs[o] \in {proxy[i].publications[o], None}
                               \/ o = c.authority.origin /\ pubs[o] = record
      <4>1. kept \in [Origin -> Publications \cup {None}]
        BY <2>1 DEF Sessions
      <4>2. \A o \in Origin : kept[o] \in {proxy[i].publications[o], None}
        OBVIOUS
      <4> HIDE DEF kept
      <4> QED
        BY <3>2, <4>1, <4>2, Zenon
    <3> HIDE DEF pubs
    <3>6. proxy'[i] \in Sessions
      <4>1. [proxy[i] EXCEPT !.publications = pubs, !.publication_sequence = id,
                             !.registry_generation = NextGeneration(i)] \in Sessions
        BY <2>1, <3>2, <3>5, SessionPublishes, Zenon
      <4> QED
        BY <3>1, <4>1
    <3>7. /\ proxy'[i].publications = pubs
          /\ proxy'[i].registry_generation = NextGeneration(i)
          /\ proxy'[i].last_observed_time = proxy[i].last_observed_time
          /\ proxy'[i].pending = proxy[i].pending
          /\ proxy'[i].sequence = proxy[i].sequence
      BY <2>1, <3>1 DEF Sessions
    <3>8. RegistryMoves(i, proxy[i], proxy'[i])
      BY <3>1, <3>3, <3>4, <3>5, <3>7 DEF RegistryMoves, RecordSound, NextGeneration
    <3>9. Moves(i, proxy[i], proxy'[i])
      BY <2>1, <3>6, <3>7, <3>8 DEF Moves, PendingMoves, Sessions
    <3> QED
      BY <3>9, Zenon DEF Evolves
  <2> QED
    BY <2>3, <2>4, Zenon
<1>4. CASE ReplaceCommit(i)
  <2> DEFINE c == call[i]
             record == Record(c.authority, c.admission.publication_id, c.now,
                              NextGeneration(i))
             pubs == [proxy[i].publications EXCEPT ![c.authority.origin] = record]
  <2>1. /\ c # None /\ c.op = "replace" /\ c \in Calls
        /\ proxy[i] \in Sessions /\ proxy[i] # None
    BY <1>0, <1>4 DEF ReplaceCommit, Fits, SessionTypes
  <2>2. /\ c.now \in Nat /\ c.authority \in Authorities /\ c.admission \in Admissions
        /\ Bound(i, c)
    BY <1>0, <2>1, CallTypes DEF CallSound
  <2>3. CASE ~(Binds(c.authority, c.now) /\ c.authority.origin = c.admission.origin)
    BY <1>1, <1>4, <2>3 DEF ReplaceCommit
  <2>4. CASE Binds(c.authority, c.now) /\ c.authority.origin = c.admission.origin
    <3>1. /\ proxy'[i] = [proxy[i] EXCEPT !.publications = pubs,
                              !.registry_generation = NextGeneration(i)]
          /\ changes'[i] = changes[i] + 1
      BY <1>0, <1>4, <2>4, Zenon DEF ReplaceCommit, SessionTypes
    <3>2. record \in Publications /\ NextGeneration(i) \in Nat
      BY <2>1, <2>2, LimitsAssumption
      DEF Record, Publications, Sessions, NextGeneration, Earlier, Authorities, Admissions
    <3>3. record.authority = c.authority /\ record.publication_generation = NextGeneration(i)
      BY DEF Record
    <3>4. RecordSound(proxy[i], c.authority.origin, record)
      BY <2>1, <2>2, LimitsAssumption
      DEF RecordSound, Record, Bound, Earlier, Authorities, Sessions
    <3> HIDE DEF record
    <3>5. /\ pubs \in [Origin -> Publications \cup {None}]
          /\ \A o \in Origin : \/ pubs[o] \in {proxy[i].publications[o], None}
                               \/ o = c.authority.origin /\ pubs[o] = record
      <4>1. proxy[i].publications \in [Origin -> Publications \cup {None}]
        BY <2>1 DEF Sessions
      <4> QED
        BY <3>2, <4>1, Zenon
    <3> HIDE DEF pubs
    <3>6. proxy'[i] \in Sessions
      <4>1. [proxy[i] EXCEPT !.publications = pubs,
                             !.registry_generation = NextGeneration(i)] \in Sessions
        BY <2>1, <3>2, <3>5, SessionPublishes, Zenon
      <4> QED
        BY <3>1, <4>1
    <3>7. /\ proxy'[i].publications = pubs
          /\ proxy'[i].registry_generation = NextGeneration(i)
          /\ proxy'[i].last_observed_time = proxy[i].last_observed_time
          /\ proxy'[i].pending = proxy[i].pending
          /\ proxy'[i].sequence = proxy[i].sequence
      BY <2>1, <3>1 DEF Sessions
    <3>8. RegistryMoves(i, proxy[i], proxy'[i])
      BY <3>1, <3>3, <3>4, <3>5, <3>7 DEF RegistryMoves, RecordSound, NextGeneration
    <3>9. Moves(i, proxy[i], proxy'[i])
      BY <2>1, <3>6, <3>7, <3>8 DEF Moves, PendingMoves, Sessions
    <3> QED
      BY <3>9, Zenon DEF Evolves
  <2> QED
    BY <2>3, <2>4, Zenon
<1> QED
  BY <1>2, <1>3, <1>4 DEF CallStep

\* Two states of a session with the same registry.
Agree(s, t) ==
    /\ t \in Sessions
    /\ t.registry_generation = s.registry_generation
    /\ t.publications = s.publications

\* What the calls of the host do to their session.
LEMMA HostMoves ==
    ASSUME IInv, NEW i \in Instance, HostStep(i)
    PROVE  Evolves(i)
<1>0. SessionTypes
  BY Zenon DEF IInv, Types
<1>1. ASSUME NEW now \in 0..MaxNow, Idle(i), Observes(i, now), proxy' = Observed(i, now),
             changes' = changes
      PROVE  Evolves(i)
  <2> DEFINE s == proxy[i]
             t == [s EXCEPT !.last_observed_time = now]
  <2>1. /\ s \in Sessions /\ s # None /\ proxy'[i] = t /\ now \in Nat
        /\ s.last_observed_time <= now
    BY <1>1, <1>0, Observing
  <2>2. /\ Agree(s, t) /\ t.last_observed_time = now /\ t.sequence = s.sequence
        /\ t.pending = s.pending
    BY <2>1 DEF Agree, Sessions
  <2> HIDE DEF t
  <2>3. Moves(i, s, t)
    BY <1>1, <2>1, <2>2, Quiet DEF Agree
  <2> QED
    BY <2>1, <2>3, Zenon DEF Evolves
<1>2. CASE Drop(i)
  BY <1>0, <1>2 DEF Drop, Evolves, history, SessionTypes
<1>3. ASSUME NEW a \in admissions, RevokeAuthority(i, a) PROVE Evolves(i)
  <2> DEFINE p == [proxy[i].publications EXCEPT ![a.origin] = None]
  <2>1. proxy[i] \in Sessions /\ proxy[i] # None
    BY <1>0, <1>3 DEF RevokeAuthority, Idle, SessionTypes
  <2>2. proxy'[i] = [proxy[i] EXCEPT !.publications = p,
                                     !.registry_generation = NextGeneration(i)]
    BY <1>0, <1>3 DEF RevokeAuthority, SessionTypes
  <2>3. changes'[i] = changes[i] + 1
    BY <1>0, <1>3 DEF RevokeAuthority, SessionTypes
  <2>4. /\ p \in [Origin -> Publications \cup {None}]
        /\ \A o \in Origin : p[o] \in {proxy[i].publications[o], None}
    <3>1. proxy[i].publications \in [Origin -> Publications \cup {None}]
      BY <2>1 DEF Sessions
    <3> QED
      BY <3>1, Zenon
  <2> HIDE DEF p
  <2>5. NextGeneration(i) \in Nat
    BY <2>1 DEF Sessions, NextGeneration
  <2>6. [proxy[i] EXCEPT !.publications = p,
                         !.registry_generation = NextGeneration(i)] \in Sessions
    BY <2>1, <2>4, <2>5, SessionPublishes, Zenon
  <2>7. /\ proxy'[i].publications = p
        /\ proxy'[i].registry_generation = NextGeneration(i)
        /\ proxy'[i].last_observed_time = proxy[i].last_observed_time
        /\ proxy'[i].pending = proxy[i].pending
        /\ proxy'[i].sequence = proxy[i].sequence
    BY <2>1, <2>2 DEF Sessions
  <2>8. RegistryMoves(i, proxy[i], proxy'[i])
    BY <2>3, <2>4, <2>7 DEF RegistryMoves, NextGeneration
  <2>9. Moves(i, proxy[i], proxy'[i])
    BY <2>1, <2>2, <2>6, <2>7, <2>8 DEF Moves, PendingMoves, Sessions
  <2> QED
    BY <2>9, Zenon DEF Evolves
<1>4. ASSUME NEW p \in pendings, Cancel(i, p) PROVE Evolves(i)
  <2>1. PICK r \in proxy[i].pending :
            proxy' = [proxy EXCEPT ![i] =
                [proxy[i] EXCEPT !.pending = proxy[i].pending \ {r}]]
    BY <1>4, Zenon DEF Cancel
  <2>2. proxy[i] \in Sessions /\ proxy[i] # None /\ changes' = changes
    BY <1>0, <1>4 DEF Cancel, Idle, history, SessionTypes
  <2>3. proxy'[i] = [proxy[i] EXCEPT !.pending = proxy[i].pending \ {r}]
    BY <1>0, <2>1 DEF SessionTypes
  <2>4. proxy'[i] \in Sessions
    BY <2>2, <2>3 DEF Sessions
  <2>5. Moves(i, proxy[i], proxy'[i])
    BY <2>2, <2>3, <2>4, Quiet DEF Sessions
  <2> QED
    BY <2>5, Zenon DEF Evolves
<1>5. ASSUME NEW now \in 0..MaxNow, AdmitRefused(i, now) PROVE Evolves(i)
  <2>1. Idle(i) /\ Observes(i, now) /\ changes' = changes
    BY <1>5 DEF AdmitRefused, history
  <2>2. CASE proxy' = Observed(i, now)
    BY <1>1, <2>1, <2>2
  <2>3. CASE proxy' = [Observed(i, now) EXCEPT ![i] =
                          [Observed(i, now)[i] EXCEPT !.pending = Live(i, now)]]
    <3> DEFINE s == proxy[i]
               o == [s EXCEPT !.last_observed_time = now]
               t == [o EXCEPT !.pending = Live(i, now)]
    <3>1. /\ s \in Sessions /\ s # None /\ now \in Nat /\ s.last_observed_time <= now
          /\ Observed(i, now)[i] = o
          /\ Observed(i, now) \in [Instance -> Sessions \cup {None}]
      BY <2>1, <1>0, Observing
    <3>2. proxy'[i] = t
      BY <2>3, <3>1
    <3>3. Live(i, now) \subseteq s.pending /\ Live(i, now) \in SUBSET PendingRecords
      BY <3>1 DEF Live, Sessions
    <3>4. /\ Agree(s, t) /\ t.last_observed_time = now /\ t.sequence = s.sequence
          /\ t.pending = Live(i, now)
      BY <3>1, <3>3, Zenon DEF Agree, Sessions
    <3> HIDE DEF t
    <3>5. Moves(i, s, t)
      BY <2>1, <3>1, <3>3, <3>4, Quiet DEF Agree
    <3> QED
      BY <3>2, <3>5, Zenon DEF Evolves
  <2> QED
    BY <1>5, <2>2, <2>3 DEF AdmitRefused
<1>6. ASSUME NEW now \in 0..MaxNow, NEW o \in Origin, AdmitConnect(i, o, now)
      PROVE  Evolves(i)
  <2> DEFINE s == proxy[i]
             record == [sequence |-> s.sequence + 1, target |-> o, admitted_at |-> now,
                        expires_at |-> now + PendingLifetime]
             t == [[s EXCEPT !.last_observed_time = now] EXCEPT
                      !.pending = Live(i, now) \cup {record}, !.sequence = s.sequence + 1]
  <2>1. Idle(i) /\ Observes(i, now) /\ changes' = changes
    BY <1>6 DEF AdmitConnect, history
  <2>2. /\ s \in Sessions /\ s # None /\ s.last_observed_time <= now /\ now \in Nat
        /\ Observed(i, now)[i] = [s EXCEPT !.last_observed_time = now]
        /\ Observed(i, now) \in [Instance -> Sessions \cup {None}]
    BY <2>1, <1>0, Observing
  <2>3. proxy'[i] = [Observed(i, now)[i] EXCEPT !.pending = Live(i, now) \cup {record},
                                                !.sequence = s.sequence + 1]
    BY <1>6, <2>2 DEF AdmitConnect
  <2>4. Live(i, now) \subseteq s.pending /\ Live(i, now) \in SUBSET PendingRecords
        /\ s.sequence \in Nat
    BY <2>2 DEF Live, Sessions
  <2>5. record \in PendingRecords /\ record.sequence = s.sequence + 1
    BY <2>2, <2>4, LimitsAssumption DEF PendingRecords
  <2> HIDE DEF record
  <2>6. Live(i, now) \cup {record} \in SUBSET PendingRecords /\ s.sequence + 1 \in Nat
    BY <2>4, <2>5
  <2>7. /\ Agree(s, t) /\ t.last_observed_time = now /\ t.sequence = s.sequence + 1
        /\ t.pending = Live(i, now) \cup {record}
    BY <2>2, <2>6, Zenon DEF Agree, Sessions
  <2>8. proxy'[i] = t
    BY <2>2, <2>3
  <2> HIDE DEF t
  <2>9. PendingMoves(s, t) /\ RegistryMoves(i, s, t)
    BY <2>1, <2>4, <2>5, <2>7 DEF PendingMoves, RegistryMoves, Agree
  <2> QED
    BY <2>2, <2>7, <2>8, <2>9 DEF Moves, Evolves, Agree
<1>7. ASSUME NEW now \in 0..MaxNow, NEW authority \in authorities,
             Publish(i, authority, now)
      PROVE  Evolves(i)
  BY <1>1, <1>7 DEF Publish, history
<1>8. ASSUME NEW now \in 0..MaxNow, NEW a \in admissions, NEW authority \in authorities,
             Replace(i, a, authority, now)
      PROVE  Evolves(i)
  BY <1>1, <1>8 DEF Replace, history
<1>9. ASSUME NEW now \in 0..MaxNow, NEW p \in pendings, NEW a \in admissions,
             NEW expected \in BOOLEAN, AuthorizeConnect(i, p, a, expected, now)
      PROVE  Evolves(i)
  <2>1. Idle(i) /\ changes' = changes /\ proxy[i] \in Sessions /\ proxy[i] # None
    BY <1>0, <1>9 DEF AuthorizeConnect, Idle, history, SessionTypes
  <2>2. CASE Observes(i, now)
    <3> DEFINE s == proxy[i]
               left == s.pending \ {p.record}
               t == [[s EXCEPT !.last_observed_time = now] EXCEPT !.pending = left]
    <3>1. /\ s.last_observed_time <= now /\ now \in Nat
          /\ Observed(i, now)[i] = [s EXCEPT !.last_observed_time = now]
          /\ Observed(i, now) \in [Instance -> Sessions \cup {None}]
      BY <2>1, <2>2, <1>0, Observing
    <3>2. proxy'[i] = [Observed(i, now)[i] EXCEPT
                           !.pending = Observed(i, now)[i].pending \ {p.record}]
      BY <1>9, <2>2, <3>1 DEF AuthorizeConnect
    <3>3. left \in SUBSET PendingRecords /\ Observed(i, now)[i].pending = s.pending
      BY <2>1, <3>1 DEF Agree, Sessions
    <3>4. proxy'[i] = t
      BY <3>1, <3>2, <3>3
    <3>5. /\ Agree(s, t) /\ t.last_observed_time = now /\ t.sequence = s.sequence
          /\ t.pending = left
      BY <2>1, <3>1, <3>3, Zenon DEF Agree, Sessions
    <3> HIDE DEF t
    <3>6. Moves(i, s, t)
      BY <2>1, <3>1, <3>5, Quiet DEF Agree
    <3> QED
      BY <3>4, <3>6, Zenon DEF Evolves
  <2>3. CASE ~Observes(i, now)
    <3>1. proxy'[i] = [proxy[i] EXCEPT !.pending = proxy[i].pending \ {p.record}]
      BY <1>0, <1>9, <2>1, <2>3 DEF AuthorizeConnect, SessionTypes
    <3>2. proxy'[i] \in Sessions
      BY <2>1, <3>1 DEF Sessions
    <3>3. Moves(i, proxy[i], proxy'[i])
      BY <2>1, <3>1, <3>2, Quiet DEF Sessions
    <3> QED
      BY <3>3, Zenon DEF Evolves
  <2> QED
    BY <2>2, <2>3
<1>10. ASSUME NEW now \in 0..MaxNow, NEW g \in grants, Revalidate(i, g, now)
       PROVE  Evolves(i)
  BY <1>1, <1>10 DEF Revalidate, history
<1> QED
  BY <1>2, <1>3, <1>4, <1>5, <1>6, <1>7, <1>8, <1>9, <1>10 DEF HostStep

\* Instance ids are handed out in order and not reused.
LEMMA InstancesGrow ==
    ASSUME SessionTypes, [Next]_vars
    PROVE  /\ next_instance_id \in Nat
           /\ next_instance_id' \in Nat \ {0}
           /\ next_instance_id <= next_instance_id'
           /\ New \/ next_instance_id' = next_instance_id
<1>1. CASE next_instance_id' = next_instance_id
  BY <1>1 DEF SessionTypes
<1>2. CASE New
  BY <1>2 DEF New, SessionTypes
<1>3. CASE EngineStep \/ Discard \/ UNCHANGED vars
  BY <1>1, <1>2, <1>3, RestKeeps, Zenon DEF RestFrame
<1>4. ASSUME NEW i \in Instance, CallStep(i) PROVE next_instance_id' = next_instance_id
  BY <1>4, CallKeeps, Zenon DEF CallFrame
<1>5. ASSUME NEW i \in Instance, HostStep(i) PROVE next_instance_id' = next_instance_id
  BY <1>5, HostKeeps, Zenon DEF HostFrame
<1> QED
  BY <1>1, <1>2, <1>3, <1>4, <1>5, Zenon DEF Next, Instance

\* ProxySession::new starts with nothing published and nothing pending.
LEMMA NewOpens ==
    ASSUME EngineTypes, SessionTypes, New
    PROVE  /\ \E x : proxy' = [proxy EXCEPT ![next_instance_id] = x]
           /\ \A i \in Instance : i = next_instance_id => Opens(i)
<1> DEFINE fresh == [runtime_generation |-> generation, last_observed_time |-> 0,
                     sequence |-> 0, pending |-> {}, registry_generation |-> 1,
                     publication_sequence |-> 0,
                     publications |-> [o \in Origin |-> None]]
<1>1. /\ proxy' = [proxy EXCEPT ![next_instance_id] = fresh]
      /\ next_instance_id' = next_instance_id + 1
      /\ changes' = changes
  BY Zenon DEF New, history
<1>2. fresh \in Sessions
  BY DEF Sessions, EngineTypes
<1>3. /\ fresh.registry_generation = 1 /\ fresh.pending = {}
      /\ fresh.publications = [o \in Origin |-> None]
  OBVIOUS
<1> HIDE DEF fresh
<1>4. ASSUME NEW i \in Instance, i = next_instance_id PROVE Opens(i)
  <2>1. proxy'[i] = fresh
    BY <1>1, <1>4 DEF SessionTypes
  <2> QED
    BY <1>1, <1>2, <1>3, <1>4, <2>1, Zenon DEF Opens
<1> QED
  BY <1>1, <1>4, Zenon

\* Every step drops a session, opens a fresh one, or moves it forward.
LEMMA Evolution ==
    ASSUME IInv, [Next]_vars, NEW i \in Instance
    PROVE  Evolves(i)
<1>1. /\ EngineTypes /\ SessionTypes
      /\ call \in [Instance -> Calls \cup {None}]
  BY Zenon DEF IInv, Types
<1>2. CASE UNCHANGED <<proxy, changes>>
  BY <1>2, Zenon DEF Evolves
<1>3. CASE New
  <2>1. CASE i = next_instance_id
    BY <1>1, <1>3, <2>1, NewOpens, Zenon DEF Evolves
  <2>2. CASE i # next_instance_id
    <3>1. changes' = changes
      BY <1>3, Zenon DEF New, history
    <3>2. PICK x : proxy' = [proxy EXCEPT ![next_instance_id] = x]
      BY <1>1, <1>3, NewOpens, Zenon
    <3>3. proxy'[i] = proxy[i]
      BY <1>1, <2>2, <3>2 DEF SessionTypes
    <3> QED
      BY <3>1, <3>3, Zenon DEF Evolves
  <2> QED
    BY <2>1, <2>2, Zenon
<1>4. CASE EngineStep \/ Discard \/ UNCHANGED vars
  BY <1>2, <1>3, <1>4, RestKeeps, Zenon DEF RestFrame, history
<1>5. ASSUME NEW k \in Instance, CallStep(k) \/ HostStep(k), k # i PROVE Evolves(i)
  <2>1. Alone(k)
    BY <1>1, <1>5, Others, Zenon
  <2>2. proxy'[i] = proxy[i] /\ changes'[i] = changes[i]
    BY <1>1, <1>5, <2>1 DEF Alone, SessionTypes
  <2> QED
    BY <2>2, Zenon DEF Evolves
<1>6. ASSUME CallStep(i) \/ HostStep(i) PROVE Evolves(i)
  BY <1>6, CallMoves, HostMoves, Zenon
<1> QED
  BY <1>3, <1>4, <1>5, <1>6, Zenon DEF Next, Instance

-----------------------------------------------------------------------------
(* Types.                                                                  *)

\* Sessions and their change counts stay well typed, from how they evolve.
LEMMA SessionTypesStep ==
    ASSUME IInv, [Next]_vars
    PROVE  SessionTypes'
<1>1. /\ EngineTypes /\ SessionTypes
      /\ call \in [Instance -> Calls \cup {None}]
  BY Zenon DEF IInv, Types
<1>2. next_instance_id' \in Nat \ {0}
  BY <1>1, InstancesGrow, Zenon
<1>3. /\ \A i \in Instance : proxy'[i] \in Sessions \cup {None}
      /\ \A i \in Instance : changes'[i] \in Nat
  <2> SUFFICES ASSUME NEW i \in Instance
               PROVE  proxy'[i] \in Sessions \cup {None} /\ changes'[i] \in Nat
    BY Zenon
  <2>1. Evolves(i)
    BY Evolution, Zenon
  <2>2. proxy[i] \in Sessions \cup {None} /\ changes[i] \in Nat
    BY <1>1 DEF SessionTypes
  <2> QED
    BY <2>1, <2>2 DEF Evolves, Opens, Moves, RegistryMoves
<1>4. ASSUME NEW k, NEW x, NEW y,
             proxy' = [proxy EXCEPT ![k] = x] \/ proxy' = proxy,
             changes' = [changes EXCEPT ![k] = y] \/ changes' = changes
      PROVE  SessionTypes'
  BY <1>1, <1>2, <1>3, <1>4 DEF SessionTypes
<1>5. CASE New
  <2>1. changes' = changes
    BY <1>5, Zenon DEF New, history
  <2> QED
    BY <1>1, <1>4, <1>5, <2>1, NewOpens, Zenon
<1>6. CASE EngineStep \/ Discard \/ UNCHANGED vars
  BY <1>4, <1>5, <1>6, RestKeeps, Zenon DEF RestFrame, history
<1>7. ASSUME NEW k \in Instance, CallStep(k) \/ HostStep(k) PROVE SessionTypes'
  <2>1. /\ proxy' = [proxy EXCEPT ![k] = proxy'[k]]
        /\ changes' = [changes EXCEPT ![k] = changes'[k]]
    BY <1>1, <1>7, Others, Zenon DEF Alone
  <2> QED
    BY <1>4, <2>1
<1> QED
  BY <1>5, <1>6, <1>7, Zenon DEF Next, Instance

\* What a method carries to its next question stays well typed.
LEMMA CallTypesStep ==
    ASSUME IInv, [Next]_vars
    PROVE  call' \in [Instance -> Calls \cup {None}]
<1>1. /\ SessionTypes /\ TokenTypes
      /\ call \in [Instance -> Calls \cup {None}]
  BY Zenon DEF IInv, Types
<1>2. CASE EngineStep \/ New \/ Discard \/ UNCHANGED vars
  BY <1>1, <1>2, RestKeeps, Zenon DEF RestFrame
<1>3. ASSUME NEW i \in Instance, CallStep(i) \/ HostStep(i),
             call'[i] \in Calls \cup {None}
      PROVE  call' \in [Instance -> Calls \cup {None}]
  <2>1. call' = [call EXCEPT ![i] = call'[i]]
    BY <1>1, <1>3, Others, Zenon DEF Alone
  <2> QED
    BY <1>1, <1>3, <2>1
<1>4. ASSUME NEW i \in Instance, UNCHANGED call \/ Refuse(i)
      PROVE  call'[i] \in Calls \cup {None}
  BY <1>1, <1>4 DEF Refuse
<1>5. ASSUME NEW i \in Instance, NEW c \in Calls, Enter(i, c)
      PROVE  call'[i] \in Calls \cup {None}
  BY <1>1, <1>5 DEF Enter
<1>6. ASSUME NEW i \in Instance, CallStep(i) PROVE call'[i] \in Calls \cup {None}
  <2>1. CASE PublishBind(i)
    <3>1. call[i] \in Calls /\ call[i].op = "publish"
      BY <1>1, <2>1 DEF PublishBind
    <3>2. call[i].authority \in Authorities /\ call[i].now \in Nat
      BY <3>1, CallTypes
    <3>3. [op |-> "scan", authority |-> call[i].authority, now |-> call[i].now,
           current |-> {}, dead |-> {}] \in Calls
      BY <3>2 DEF Calls
    <3> QED
      BY <1>4, <1>5, <2>1, <3>3, Zenon DEF PublishBind
  <2>2. ASSUME NEW o \in Origin, PublishScan(i, o)
        PROVE  call'[i] \in Calls \cup {None}
    <3>1. call[i] \in [op : {"scan"}, authority : Authorities, now : Nat,
                       current : SUBSET Origin, dead : SUBSET Origin]
      BY <1>1, <2>2 DEF PublishScan, Calls
    <3>2. \/ call'[i] = [call[i] EXCEPT !.current = @ \cup {o}]
          \/ call'[i] = [call[i] EXCEPT !.dead = @ \cup {o}]
      BY <1>1, <2>2, Zenon DEF PublishScan
    <3>3. call'[i] \in [op : {"scan"}, authority : Authorities, now : Nat,
                        current : SUBSET Origin, dead : SUBSET Origin]
      BY <3>1, <3>2
    <3> QED
      BY <3>3, Zenon DEF Calls
  <2> QED
    BY <1>4, <1>6, <2>1, <2>2, Zenon DEF CallStep, PublishCommit, ReplaceCommit,
       AuthorizeFinish, RevalidateFinish
<1>7. ASSUME NEW i \in Instance, HostStep(i) PROVE call'[i] \in Calls \cup {None}
  <2>1. \A now \in 0..MaxNow : now \in Nat
    OBVIOUS
  <2>2. ASSUME NEW now \in 0..MaxNow, NEW authority \in authorities,
               Publish(i, authority, now)
        PROVE  call'[i] \in Calls \cup {None}
    <3>1. [op |-> "publish", authority |-> authority, now |-> now] \in Calls
      BY <1>1, <2>1 DEF Calls, TokenTypes
    <3> QED
      BY <1>4, <1>5, <2>2, <3>1, Zenon DEF Publish
  <2>3. ASSUME NEW now \in 0..MaxNow, NEW a \in admissions,
               NEW authority \in authorities, Replace(i, a, authority, now)
        PROVE  call'[i] \in Calls \cup {None}
    <3>1. [op |-> "replace", authority |-> authority, now |-> now,
           admission |-> a] \in Calls
      BY <1>1, <2>1 DEF Calls, TokenTypes
    <3> QED
      BY <1>4, <1>5, <2>3, <3>1, Zenon DEF Replace
  <2>4. ASSUME NEW now \in 0..MaxNow, NEW p \in pendings, NEW a \in admissions,
               NEW expected \in BOOLEAN, AuthorizeConnect(i, p, a, expected, now)
        PROVE  call'[i] \in Calls \cup {None}
    <3>1. p.record \in PendingRecords /\ a \in Admissions
      BY <1>1 DEF TokenTypes
    <3>2. [op |-> "authorize", now |-> now, record |-> p.record,
           admission |-> a] \in Calls
      BY <2>1, <3>1 DEF Calls
    <3> QED
      BY <1>4, <1>5, <2>4, <3>2, Zenon DEF AuthorizeConnect
  <2>5. ASSUME NEW now \in 0..MaxNow, NEW g \in grants, Revalidate(i, g, now)
        PROVE  call'[i] \in Calls \cup {None}
    <3>1. [op |-> "revalidate", now |-> now, grant |-> g] \in Calls
      BY <1>1, <2>1 DEF Calls, TokenTypes
    <3> QED
      BY <1>4, <1>5, <2>5, <3>1, Zenon DEF Revalidate
  <2>6. ASSUME \/ Drop(i)
               \/ \E a \in admissions : RevokeAuthority(i, a)
               \/ \E p \in pendings : Cancel(i, p)
               \/ \E now \in 0..MaxNow :
                     AdmitRefused(i, now) \/ \E o \in Origin : AdmitConnect(i, o, now)
        PROVE  UNCHANGED call
    BY <2>6, Zenon DEF Drop, RevokeAuthority, Cancel, AdmitRefused, AdmitConnect
  <2> QED
    BY <1>4, <1>7, <2>2, <2>3, <2>4, <2>5, <2>6, Zenon DEF HostStep
<1> QED
  BY <1>2, <1>3, <1>6, <1>7, Zenon DEF Next, Instance

\* What publish_authority and replace_authority write and hand out.
LEMMA RecordTypes ==
    ASSUME NEW i \in Instance, NEW authority \in Authorities, NEW id \in Nat,
           NEW now \in Nat, NEW g \in Nat
    PROVE  /\ Record(authority, id, now, g) \in Publications
           /\ Admission(i, Record(authority, id, now, g)) \in Admissions
<1>1. Earlier(authority.valid_until, now + PublicationLifetime) \in Nat
  <2>1. authority.valid_until \in Nat
    BY DEF Authorities
  <2> QED
    BY <2>1, LimitsAssumption DEF Earlier
<1>2. Record(authority, id, now, g) \in Publications
  BY <1>1 DEF Record, Publications
<1>3. /\ Record(authority, id, now, g).authority = authority
      /\ authority.origin \in Origin
  <2>1. authority.origin \in Origin
    BY DEF Authorities
  <2> QED
    BY <2>1 DEF Record
<1> QED
  BY <1>2, <1>3 DEF Admission, Admissions, Publications

\* What authorize_connect hands out.
LEMMA GrantTypes ==
    ASSUME NEW i \in Instance, SessionTypes, NEW c \in Calls, c.op = "authorize",
           ValidAdmission(i, c.admission)
    PROVE  Grant(i, c) \in Grants
<1>1. /\ c.now \in Nat /\ c.admission \in Admissions /\ c.record \in PendingRecords
  BY CallTypes
<1>2. proxy[i] \in Sessions /\ changes[i] \in Nat
  BY DEF SessionTypes, ValidAdmission
<1> DEFINE record == proxy[i].publications[c.admission.origin]
<1>3. c.admission.origin \in Origin /\ record \in Publications
  BY <1>1, <1>2 DEF ValidAdmission, Sessions, Admissions
<1>4. /\ c.record.sequence \in Nat /\ c.record.target \in Origin
      /\ proxy[i].registry_generation \in Nat
  BY <1>1, <1>2, SMTT(20) DEF PendingRecords, Sessions
<1>5. ASSUME NEW r \in Publications
      PROVE  /\ r.authority \in Authorities /\ r.publication_id \in Nat
             /\ r.publication_generation \in Nat /\ r.publication_valid_until \in Nat
  BY DEF Publications
<1>6. ASSUME NEW m \in Nat, NEW n \in Nat PROVE Earlier(m, n + GrantLifetime) \in Nat
  BY LimitsAssumption DEF Earlier
<1>7. GrantExpiry(record, c.now) \in Nat
  BY <1>1, <1>3, <1>5, <1>6, Zenon DEF GrantExpiry
<1>8. /\ record.authority \in Authorities /\ record.publication_id \in Nat
      /\ record.publication_generation \in Nat
  BY <1>3, <1>5, Zenon
<1> QED
  BY <1>1, <1>2, <1>3, <1>4, <1>7, <1>8 DEF Grant, Grants

\* What the host holds, and what is remembered, stays well typed.
LEMMA TokenTypesStep ==
    ASSUME IInv, [Next]_vars
    PROVE  TokenTypes' /\ HistoryTypes'
<1>1. /\ EngineTypes /\ SessionTypes /\ TokenTypes /\ HistoryTypes
      /\ call \in [Instance -> Calls \cup {None}]
      /\ \A i \in Instance : Fits(i)
  BY Zenon DEF IInv, Types
<1>2. CASE EngineStep \/ New \/ Discard \/ UNCHANGED vars
  <2>1. HistoryTypes'
    BY <1>1, <1>2, RestKeeps, Zenon DEF RestFrame, history, HistoryTypes
  <2>2. authorities' \subseteq Authorities
    <3>1. ASSUME NEW o \in Origin, NEW w \in Window, Authorize(o, w)
          PROVE  authorities' \subseteq Authorities
      <4>1. w[1] \in Nat /\ w[2] \in Nat
        BY BoundAssumption
      <4> QED
        BY <1>1, <3>1, <4>1 DEF Authorize, Authorities, TokenTypes, EngineTypes
    <3> QED
      BY <1>1, <1>2, <3>1, RestKeeps, Zenon DEF RestFrame, TokenTypes
  <2> QED
    BY <1>1, <1>2, <2>1, <2>2, RestKeeps, Zenon DEF RestFrame, TokenTypes
<1>3. ASSUME NEW i \in Instance, CallStep(i) PROVE TokenTypes' /\ HistoryTypes'
  <2>1. CallFrame(i)
    BY <1>3, CallKeeps, Zenon
  <2>2. CASE PublishCommit(i)
    <3> DEFINE c == call[i]
               id == proxy[i].publication_sequence + 1
               record == Record(c.authority, id, c.now, NextGeneration(i))
    <3>1. c \in Calls /\ c.op = "scan" /\ c # None
      BY <1>1, <2>2, Zenon DEF PublishCommit
    <3>2. proxy[i] # None /\ c.dead \subseteq Published(i)
      BY <1>1, <3>1, Zenon DEF Fits
    <3>3. proxy[i] \in Sessions
      BY <1>1, <3>2 DEF SessionTypes
    <3>4. \A o \in c.dead : proxy[i].publications[o] \in Publications
      BY <3>2, <3>3 DEF Published, Sessions
    <3>5. reclaimed' \subseteq [instance_id : Instance, record : Publications]
      <4>1. reclaimed' = reclaimed \cup
                {[instance_id |-> i, record |-> proxy[i].publications[o]] : o \in c.dead}
        BY <2>2, Zenon DEF PublishCommit
      <4> QED
        BY <1>1, <3>4, <4>1 DEF HistoryTypes
    <3>6. Admission(i, record) \in Admissions
      <4>1. id \in Nat /\ NextGeneration(i) \in Nat
        BY <3>3 DEF Sessions, NextGeneration
      <4>2. c.authority \in Authorities /\ c.now \in Nat
        BY <3>1, CallTypes
      <4> QED
        BY <4>1, <4>2, RecordTypes, Zenon
    <3>7. admissions' = admissions \cup {Admission(i, record)} \/ UNCHANGED admissions
      BY <2>2, ZenonT(30) DEF PublishCommit
    <3> HIDE DEF record, id, c
    <3>8. admissions' \subseteq Admissions
      BY <1>1, <3>6, <3>7 DEF TokenTypes
    <3>9. UNCHANGED <<authorities, pendings, grants, opened>>
      BY <2>2, Zenon DEF PublishCommit
    <3> QED
      BY <1>1, <3>5, <3>8, <3>9, Zenon DEF TokenTypes, HistoryTypes
  <2>3. CASE ReplaceCommit(i)
    <3> DEFINE c == call[i]
               record == Record(c.authority, c.admission.publication_id, c.now,
                                NextGeneration(i))
    <3>1. c \in Calls /\ c.op = "replace" /\ c # None
      BY <1>1, <2>3 DEF ReplaceCommit
    <3>2. proxy[i] \in Sessions
      <4>1. proxy[i] # None
        BY <1>1, <3>1, Zenon DEF Fits
      <4> QED
        BY <1>1, <4>1 DEF SessionTypes
    <3>3. Admission(i, record) \in Admissions
      <4>1. NextGeneration(i) \in Nat
        BY <3>2 DEF Sessions, NextGeneration
      <4>2. c.authority \in Authorities /\ c.now \in Nat /\ c.admission \in Admissions
        BY <3>1, CallTypes
      <4>3. c.admission.publication_id \in Nat
        BY <4>2 DEF Admissions
      <4> QED
        BY <4>1, <4>2, <4>3, RecordTypes, Zenon
    <3>4. admissions' = admissions \cup {Admission(i, record)} \/ UNCHANGED admissions
      BY <2>3, Zenon DEF ReplaceCommit
    <3> HIDE DEF record, c
    <3>5. admissions' \subseteq Admissions
      BY <1>1, <3>3, <3>4 DEF TokenTypes
    <3>6. UNCHANGED <<authorities, pendings, grants, opened, reclaimed>>
      BY <2>3, Zenon DEF ReplaceCommit
    <3> QED
      BY <1>1, <3>5, <3>6, Zenon DEF TokenTypes, HistoryTypes
  <2>4. CASE AuthorizeFinish(i)
    <3>1. call[i] \in Calls /\ call[i].op = "authorize"
      BY <1>1, <2>4 DEF AuthorizeFinish
    <3>2. \/ UNCHANGED grants
          \/ ValidAdmission(i, call[i].admission) /\ grants' = grants \cup {Grant(i, call[i])}
      BY <2>4, Zenon DEF AuthorizeFinish
    <3>3. grants' \subseteq Grants
      <4>1. ASSUME ValidAdmission(i, call[i].admission) PROVE Grant(i, call[i]) \in Grants
        BY <1>1, <3>1, <4>1, GrantTypes, Zenon
      <4> QED
        BY <1>1, <3>2, <4>1 DEF TokenTypes
    <3>4. UNCHANGED <<authorities, pendings, admissions, history>>
      BY <2>4, Zenon DEF AuthorizeFinish
    <3> QED
      BY <1>1, <3>3, <3>4, Zenon DEF TokenTypes, HistoryTypes, history
  <2>5. CASE RevalidateFinish(i)
    <3>1. call[i] \in Calls /\ call[i].op = "revalidate"
      BY <1>1, <2>5 DEF RevalidateFinish
    <3>2. call[i].grant \in Grants /\ call[i].now \in Nat
      BY <3>1, CallTypes
    <3>3. epoch \in Nat /\ changes[i] \in Nat
      BY <1>1 DEF EngineTypes, SessionTypes
    <3>4. \/ UNCHANGED opened
          \/ opened' = opened \cup {[grant |-> call[i].grant, now |-> call[i].now,
                                     epoch |-> epoch, changes |-> changes[i]]}
      BY <2>5, Zenon DEF RevalidateFinish
    <3>5. opened' \subseteq [grant : Grants, now : Nat, epoch : Nat, changes : Nat]
      BY <1>1, <3>2, <3>3, <3>4 DEF HistoryTypes
    <3>6. UNCHANGED <<tokens, reclaimed>>
      BY <2>5, Zenon DEF RevalidateFinish
    <3> QED
      BY <1>1, <3>5, <3>6, Zenon DEF TokenTypes, HistoryTypes, tokens
  <2> QED
    BY <1>1, <2>1, <2>2, <2>3, <2>4, <2>5, Zenon DEF CallFrame, TokenTypes, HistoryTypes
<1>4. ASSUME NEW i \in Instance, HostStep(i) PROVE TokenTypes' /\ HistoryTypes'
  <2>1. HostFrame
    BY <1>4, HostKeeps, Zenon
  <2>2. pendings' \subseteq [instance_id : Instance, record : PendingRecords]
    <3>1. ASSUME NEW now \in 0..MaxNow, NEW o \in Origin, AdmitConnect(i, o, now)
          PROVE  pendings' \subseteq [instance_id : Instance, record : PendingRecords]
      <4>1. proxy[i] \in Sessions
        BY <1>1, <3>1 DEF SessionTypes, AdmitConnect, Idle
      <4> DEFINE record == [sequence |-> proxy[i].sequence + 1, target |-> o,
                            admitted_at |-> now, expires_at |-> now + PendingLifetime]
      <4>2. record \in PendingRecords
        BY <4>1, LimitsAssumption, BoundAssumption DEF PendingRecords, Sessions
      <4>3. pendings' = pendings \cup {[instance_id |-> i, record |-> record]}
        BY <3>1, Zenon DEF AdmitConnect
      <4> HIDE DEF record
      <4> QED
        BY <1>1, <4>2, <4>3 DEF TokenTypes
    <3>2. ASSUME NEW now, NEW p \in pendings, NEW a \in admissions,
                 NEW expected \in BOOLEAN, AuthorizeConnect(i, p, a, expected, now)
          PROVE  pendings' \subseteq pendings
      BY <3>2, Zenon DEF AuthorizeConnect
    <3>3. ASSUME NEW now, \/ AdmitRefused(i, now)
                          \/ \E g \in grants : Revalidate(i, g, now)
                          \/ \E authority \in authorities : Publish(i, authority, now)
                          \/ \E a \in admissions, authority \in authorities :
                                Replace(i, a, authority, now)
          PROVE  UNCHANGED pendings
      BY <3>3, Zenon DEF AdmitRefused, Revalidate, Publish, Replace, tokens
    <3>4. ASSUME \/ Drop(i)
                 \/ \E a \in admissions : RevokeAuthority(i, a)
                 \/ \E p \in pendings : Cancel(i, p)
          PROVE  UNCHANGED pendings
      BY <3>4, Zenon DEF Drop, RevokeAuthority, Cancel, tokens
    <3>5. ASSUME pendings' \subseteq pendings
          PROVE  pendings' \subseteq [instance_id : Instance, record : PendingRecords]
      BY <1>1, <3>5, Zenon DEF TokenTypes
    <3>6. ASSUME UNCHANGED pendings
          PROVE  pendings' \subseteq [instance_id : Instance, record : PendingRecords]
      BY <1>1, <3>6, Zenon DEF TokenTypes
    <3> QED
      BY <1>4, <3>1, <3>2, <3>3, <3>4, <3>5, <3>6, Zenon DEF HostStep
  <2> QED
    BY <1>1, <2>1, <2>2, Zenon DEF HostFrame, TokenTypes, HistoryTypes
<1> QED
  BY <1>2, <1>3, <1>4, Zenon DEF Next, Instance

\* Every operation of the engine, of a session and of the host keeps the types.
LEMMA TypesStep ==
    ASSUME IInv, [Next]_vars
    PROVE  Types'
<1>1. EngineTypes
  BY Zenon DEF IInv, Types
<1>2. EngineTypes'
  BY <1>1, EngineMoves, Zenon
<1> QED
  BY <1>2, SessionTypesStep, CallTypesStep, TokenTypesStep, Zenon DEF Types


=============================================================================
