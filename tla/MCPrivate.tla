------------------------------ MODULE MCPrivate ------------------------------
(***************************************************************************)
(* The private transports and the authority brokers for TLC: the ODoH      *)
(* requester, named routes, the HNSR runtimes and the brokers.  "part" is  *)
(* fixed at the start and says which of them runs.                         *)
(***************************************************************************)
EXTENDS Integers

CONSTANTS Records, RouteRecords, RouteBatches, Proxies, NoPeer, MaxCached, MaxTime, MaxGeneration, MaxRequests, MaxSessions, MaxSaves,
          Services, MaxEndpoints, MaxResource, MaxClock, MaxRouteSessions, MaxOpened,
          Labels, MaxTrusted, MaxRoleGeneration, MaxRelaySessions, MaxExports,
          Brokers, Subjects, Requester, MaximumLiveSubjects, MaxRevision, MaxNow, MaxJobs

VARIABLES part, authority,
          odoh, call, cancelled, store, blobs, outcome,
          state, committed, resource, floor_time, pending, selections, requester, opened, blocked,
          kind, node, peers, gone, exports,
          lease, history, live, job, trusted, released, jobs

\* Two targets; the first has a proxy that is also its own target, two conflicting
\* configurations of one sequence and one that expires early.
Signed(locator, sequence, id, expires) ==
  [locator |-> locator, sequence |-> sequence, id |-> id, expires |-> expires]
MCRecords == {Signed("l1", 1, "a", 2), Signed("l1", 2, "b", 3), Signed("l1", 2, "c", 3), Signed("l2", 1, "d", 3)}
Target(locator) == IF locator = "l1" THEN "p2" ELSE "t"

\* Routes of one endpoint under one grant: an equivocation, a later sequence that expires
\* earlier and a later delegation without the capability; a later grant whose routes
\* start again; a second endpoint; another authority.
Named(digest, serial, grant, endpoint, delegation, leave, sequence, route) ==
  [digest |-> digest, serial |-> serial, grant |-> grant, endpoint |-> endpoint, delegation |-> delegation,
   leave |-> leave, capable |-> leave # "l2", sequence |-> sequence, route |-> route,
   expires |-> IF sequence = 2 THEN 2 ELSE 3]
First == Named("A", 1, "g1", "e1", 1, "l1", 1, "x")
Other == Named("A", 1, "g1", "e1", 1, "l1", 1, "y")
Later == Named("A", 1, "g1", "e1", 1, "l1", 2, "x")
Incapable == Named("A", 1, "g1", "e1", 2, "l2", 1, "x")
Regranted == Named("A", 2, "g2", "e1", 1, "l3", 1, "z")
Second == Named("A", 1, "g1", "e2", 1, "l4", 1, "x")
Foreign == Named("B", 1, "g3", "e1", 1, "l1", 1, "x")
MCRouteRecords == {First, Other, Later, Incapable, Regranted, Second, Foreign}
MCRouteBatches ==
  {<<First, Foreign>>, <<Other>>, <<First, Later>>, <<First, Incapable>>, <<First, Regranted>>,
   <<First, Second>>, <<First, Other>>}

O == INSTANCE OdohRequester WITH Roles <- {"odoh"}, MaxChanges <- 2
R == INSTANCE NamedRoutes WITH Roles <- {"requester"}, MaxChanges <- 3
H == INSTANCE AuthorityBrokers WITH Roles <- {"own"}, MaxChanges <- 2

odohVars == <<odoh, call, cancelled, store, blobs, outcome>>
routeVars == <<state, committed, resource, floor_time, pending, selections, requester, opened, blocked>>
relayVars == <<kind, node, peers, gone, exports>>
brokerVars == <<lease, history, live, job, trusted, released, jobs>>
MCVars == <<part, authority, odohVars, routeVars, relayVars, brokerVars>>

Init ==
  /\ part \in {"odoh", "routes", "relay", "brokers"}
  /\ IF part = "relay" THEN H!AuthorityInit ELSE IF part = "routes" THEN R!AuthorityInit ELSE O!AuthorityInit
  /\ odoh = O!Down /\ call = O!NoCall /\ cancelled = FALSE /\ store = O!NoBlob /\ blobs = {} /\ outcome = O!Quiet
  /\ R!Fresh
  /\ H!Stopped /\ (part # "relay" => kind = "relay")
  /\ H!BrokerInit

\* After a restart the authority and the resource stay as they came up.
Settled == authority.session > 1 => authority'.policy = authority.policy /\ authority'.ready /\ resource' = resource
Odoh == part = "odoh" /\ O!OdohNext /\ UNCHANGED <<part, routeVars, relayVars, brokerVars>> /\ Settled
\* While resources or profiles change, one of the two, the authority keeps its policy
\* and the clock stands; with the first resource and profile both move.
Changing == resource.generation + resource.profile > 2
Steady ==
  /\ resource.generation = 1 \/ resource.profile = 1
  /\ authority.policy = 1 /\ authority.ready /\ authority.floor = 0
  /\ floor_time = 0 /\ \A s \in selections : s.time = 0
Route == part = "routes" /\ R!RouteNext /\ Settled /\ (Changing' => Steady')
         /\ UNCHANGED <<part, odohVars, relayVars, brokerVars>>
\* Labels, brokers and subjects are told apart only by equality: the first to be used is
\* always the same.  Routes are asked of the first subject, and a runtime that has saved
\* a snapshot meets one connection.
Relay == part = "relay" /\ H!RelayNext /\ Settled /\ (H!Used' = {} \/ "c1" \in H!Used')
         /\ (exports' # {} => H!Used' \subseteq {"c1"})
         /\ UNCHANGED <<part, odohVars, routeVars, brokerVars>>
Broker == part = "brokers" /\ H!BrokerNext /\ (jobs' = 1 => job'["b2"] = H!NoJob /\ job'["b1"].subject # "s2")
          /\ (\A b \in Brokers : job'[b].subject = "s2" => ~job'[b].route)
          /\ UNCHANGED <<part, authority, odohVars, routeVars, relayVars>>
Next == Odoh \/ Route \/ Relay \/ Broker
Spec == Init /\ [][Next]_MCVars

\* A private answer is from a target that its authority, its configuration and its clock
\* still allow, and a restored state is the latest saved (OdohRequester!AnswersAreCurrent,
\* RestoresAreLatest and AuthorityBrokers!RestoredIsNewer).
PrivateStateIsCurrent ==
  /\ part = "odoh" => O!AnswersAreCurrent
  /\ O!RestoresAreLatest /\ H!RestoredIsNewer

\* What was opened for a name is never replaced by what it superseded
\* (NamedRoutes!OpenedOnlyAdvance).
OpenedOnlyAdvance == R!OpenedOnlyAdvance

\* Neither a connection nor a lease is used after what it was granted under is gone
\* (AuthorityBrokers!NothingOutlivesItsOwner, ReleasedIsCurrent).
GrantsOutliveNothing == H!NothingOutlivesItsOwner /\ H!ReleasedIsCurrent
=============================================================================
