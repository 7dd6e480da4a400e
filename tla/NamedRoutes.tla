----------------------------- MODULE NamedRoutes -----------------------------
(***************************************************************************)
(* HNSA named routes (hns-dane-engine/src/hnsa_route.rs): a batch of       *)
(* signed records is verified against the authority in the name's          *)
(* resource and reduced to one latest route for each endpoint, while       *)
(* HnsaNamedRouteState remembers the serials and sequences seen; a         *)
(* selected route is opened later against the state that was committed.    *)
(*                                                                         *)
(* A record is an authorization, a delegation and a route; signatures hold *)
(* for what the authority named by "digest" issued, and an identifier      *)
(* stands for the signed content.                                          *)
(***************************************************************************)
EXTENDS TransportAuthority, FiniteSets, Sequences, SequencesExt

CONSTANTS RouteRecords,       \* digest, serial, grant, endpoint, delegation, leave, capable,
                              \* sequence, route, expires
          RouteBatches,       \* responses to a rendezvous query, sequences of them
          Services,
          MaxEndpoints,       \* MAX_HNSA_NAMED_ROUTE_ENDPOINTS
          MaxResource,        \* bound on new resources
          MaxClock, MaxRouteSessions, MaxOpened

VARIABLES state,              \* HnsaNamedRouteState in memory, with the epoch: the resource
                              \* generation at which its authority began
          committed,          \* its last durable commit
          resource,           \* the accepted resource and the profile policy
          floor_time,         \* trusted_time_high_water the platform keeps
          pending,            \* a selection that has not validated its binding yet
          selections,         \* selected routes the application holds
          requester,          \* binding of the HNSR requester
          opened,             \* routes opened, in order
          blocked             \* epochs whose committed state was not active

routeVars == <<authority, state, committed, resource, floor_time, pending, selections, requester,
               opened, blocked>>

Digests == {r.digest : r \in RouteRecords}
Endpoints == {r.endpoint : r \in RouteRecords}
Nothing == [sequence |-> 0, id |-> ""]
Seen(sequence, id) == [sequence |-> sequence, id |-> id]
Stranger == [known |-> FALSE, delegation |-> Nothing, route |-> Nothing]
NewState ==
  [generation |-> 0, resource |-> 0, epoch |-> 0, digest |-> "", service |-> "", status |-> "Active",
   authorization |-> Nothing, endpoints |-> [e \in Endpoints |-> Stranger]]

Ok(s) == [state |-> s, error |-> ""]
Err(s, error) == [state |-> s, error |-> error]
Bump(s) == [s EXCEPT !.generation = @ + 1]

-----------------------------------------------------------------------------
(* The state.                                                              *)

\* Mutant of Rebound: a later resource makes the state active again.
ReboundActive(s, generation) == [Bump(s) EXCEPT !.resource = generation, !.status = "Active"]

\* A later resource of the same authority keeps what was seen, and the status.
Rebound(s, generation) == [Bump(s) EXCEPT !.resource = generation]

bind_scope(s, digest, service, generation) ==
  LET Fresh(g) == [NewState EXCEPT !.generation = g, !.resource = generation, !.epoch = generation,
                                   !.digest = digest, !.service = service]
  IN CASE s.generation = 0 -> Ok(Fresh(1))
       [] s.service # service -> Err(s, "SequenceStateScopeMismatch")
       [] generation < s.resource -> Err(s, "SequenceStateRollback")
       [] s.digest # digest ->
            IF generation <= s.resource THEN Err(s, "SequenceStateRollback") ELSE Ok(Fresh(s.generation + 1))
       [] generation > s.resource -> Ok(Rebound(s, generation))
       [] OTHER -> Ok(s)

mark(s, status) == IF s.status = status THEN s ELSE [Bump(s) EXCEPT !.status = status]

\* What a sequence already seen says of another: older, the same, in conflict or newer.
Compare(seen, next) ==
  CASE seen = Nothing \/ next.sequence > seen.sequence -> "newer"
    [] next.sequence < seen.sequence -> "older"
    [] next.id # seen.id -> "conflict"
    [] OTHER -> "same"
Advance(s, seen, next, newer) ==
  CASE Compare(seen, next) = "older" -> Err(s, "SequenceRollback")
    [] Compare(seen, next) = "conflict" -> Err(mark(s, "Conflicted"), "ConflictingSequenceState")
    [] Compare(seen, next) = "same" -> Ok(s)
    [] OTHER -> Ok(newer)

\* A greater serial clears every delegation and keeps the routes.
advance_authorization(s, next) ==
  Advance(s, s.authorization, next,
          [Bump(s) EXCEPT !.authorization = next,
             !.endpoints = [e \in Endpoints |-> [s.endpoints[e] EXCEPT !.delegation = Nothing]]])

advance_delegation(s, endpoint, next) ==
  IF ~s.endpoints[endpoint].known
  THEN IF Cardinality({e \in Endpoints : s.endpoints[e].known}) >= MaxEndpoints
       THEN Err(mark(s, "Exhausted"), "SequenceStateExhausted")
       ELSE Ok([Bump(s) EXCEPT !.endpoints[endpoint] =
                  [known |-> TRUE, delegation |-> next, route |-> Nothing]])
  ELSE Advance(s, s.endpoints[endpoint].delegation, next,
               [Bump(s) EXCEPT !.endpoints[endpoint].delegation = next])

advance_route(s, endpoint, next) ==
  Advance(s, s.endpoints[endpoint].route, next, [Bump(s) EXCEPT !.endpoints[endpoint].route = next])

Grant(r) == Seen(r.serial, r.grant)
Leave(r) == Seen(r.delegation, r.leave)
Route(r) == Seen(r.sequence, r.route)

selection_is_current(s, service, r) ==
  /\ s.status = "Active" /\ s.digest = r.digest /\ s.service = service /\ s.authorization = Grant(r)
  /\ s.endpoints[r.endpoint] = [known |-> TRUE, delegation |-> Leave(r), route |-> Route(r)]

-----------------------------------------------------------------------------
(* Selection.                                                              *)

\* The greatest of the objects, or that two of them conflict.
Greatest(objects) ==
  LET top == {o \in objects : \A p \in objects : p.sequence <= o.sequence}
  IN CASE objects = {} -> [error |-> "Missing", object |-> Nothing]
       [] Cardinality(top) > 1 -> [error |-> "ConflictingSequence", object |-> Nothing]
       [] OTHER -> [error |-> "", object |-> CHOOSE o \in top : TRUE]
select_service_authorization(records, digest) == Greatest({Grant(r) : r \in {r \in records : r.digest = digest}})
select_endpoint_delegation(records) == Greatest({Leave(r) : r \in records})

\* The loop over the records of one delegation in the order received: it compares each
\* with the latest so far only.
latest(records) ==
  FoldSeq(LAMBDA r, acc :
            CASE acc.error # "" -> acc
              [] acc.found = <<>> \/ r.sequence > acc.found[1].sequence -> [acc EXCEPT !.found = <<r>>]
              [] r.sequence = acc.found[1].sequence /\ r # acc.found[1] ->
                   [acc EXCEPT !.error = "ConflictingRouteSequence"]
              [] OTHER -> acc,
          [found |-> <<>>, error |-> ""], records)

\* One endpoint: its delegation, then its latest route; a failure ends the batch.
SelectEndpoint(acc, endpoint, batch, grant, now) ==
  LET granted == SelectSeq(batch, LAMBDA r : Grant(r) = grant /\ r.endpoint = endpoint)
      chosen == select_endpoint_delegation({granted[i] : i \in DOMAIN granted})
      delegated == advance_delegation(acc.state, endpoint, chosen.object)
      records == SelectSeq(granted, LAMBDA r : Leave(r) = chosen.object /\ now < r.expires)
      route == latest(records)
      advanced == advance_route(delegated.state, endpoint, Route(route.found[1]))
  IN CASE acc.error # "" -> acc
       [] chosen.error = "ConflictingSequence" ->
            [acc EXCEPT !.state = mark(@, "Conflicted"), !.error = chosen.error]
       [] delegated.error # "" -> [acc EXCEPT !.state = delegated.state, !.error = delegated.error]
       [] \E r \in ToSet(granted) : Leave(r) = chosen.object /\ ~r.capable ->
            [acc EXCEPT !.state = delegated.state]
       [] route.error # "" ->
            [acc EXCEPT !.state = mark(delegated.state, "Conflicted"), !.error = route.error]
       [] route.found = <<>> -> [acc EXCEPT !.state = delegated.state]
       [] OTHER -> [acc EXCEPT !.state = advanced.state, !.error = advanced.error,
                               !.selected = IF advanced.error = "" THEN @ \cup {route.found[1]} ELSE @]

\* Everything between the mint of the binding and its validation.
Reduce(service, batch, now) ==
  LET bound == bind_scope(state, resource.digest, service, resource.generation)
      records == ToSet(batch)
      chosen == select_service_authorization(records, resource.digest)
      granted == advance_authorization(bound.state, chosen.object)
      endpoints == SetToSortSeq({r.endpoint : r \in {r \in records : Grant(r) = chosen.object
                                                                     /\ r.digest = resource.digest}},
                                LAMBDA a, b : a = b \/ a = "e1")
      reduced == FoldSeq(LAMBDA e, acc : SelectEndpoint(acc, e, SelectSeq(batch, LAMBDA r : r.digest = resource.digest),
                                                        chosen.object, now),
                         [state |-> granted.state, error |-> "", selected |-> {}], endpoints)
      None(s, error) == [state |-> s, error |-> error, selected |-> {}]
  IN CASE bound.error # "" -> None(bound.state, bound.error)
       [] bound.state.status # "Active" -> None(bound.state, "SequenceState" \o bound.state.status)
       [] chosen.error = "ConflictingSequence" -> None(mark(bound.state, "Conflicted"), chosen.error)
       [] chosen.error # "" -> None(bound.state, chosen.error)
       [] granted.error # "" -> None(granted.state, granted.error)
       [] reduced.error # "" -> None(reduced.state, reduced.error)
       [] reduced.selected = {} -> None(reduced.state, "MissingRouteCandidate")
       [] OTHER -> reduced

Idle == pending = <<>>

\* verify_and_select_hnsa_named_routes up to its last check.  A clock behind the
\* platform's floor is refused before anything changes; the platform moves the floor
\* first.
Select(service, batch, now) ==
  /\ Idle /\ CanMint("requester") /\ Mint
  /\ now >= floor_time
  /\ floor_time' = now
  /\ LET result == Reduce(service, batch, now)
     IN /\ state' = result.state
        /\ pending' = IF result.error = ""
                      THEN <<[routes |-> result.selected, service |-> service, binding |-> Minted,
                              resource |-> resource, time |-> now, epoch |-> result.state.epoch]>>
                      ELSE <<>>
  /\ UNCHANGED <<committed, resource, selections, requester, opened, blocked>>

\* A verified candidate, as a selected route keeps it.
Candidate(p, r) ==
  [route |-> r, service |-> p.service, binding |-> p.binding, resource |-> p.resource, time |-> p.time, epoch |-> p.epoch]

\* The binding is validated after the reduction; the state keeps what it learned.
Selected ==
  /\ ~Idle /\ pending' = <<>>
  /\ selections' = IF Validation("requester", pending[1].binding) = "ok"
                   THEN {Candidate(pending[1], r) : r \in pending[1].routes}
                   ELSE {}
  /\ UNCHANGED <<authority, state, committed, resource, floor_time, requester, opened, blocked>>

\* The platform commits the state it holds, or stops before it does (Crash).
Commit ==
  /\ Idle /\ committed # state /\ committed' = state
  /\ blocked' = IF state.status = "Active" THEN blocked ELSE blocked \cup {state.epoch}
  /\ UNCHANGED <<authority, state, resource, floor_time, pending, selections, requester, opened>>

-----------------------------------------------------------------------------
(* Opening.                                                                *)

\* What begin_hnsa_named_route_open asks once it has retained the time.
Revalidated(s, now, deadline) ==
  /\ committed.resource = resource.generation
  /\ selection_is_current(committed, s.service, s.route)
  /\ now < s.route.expires /\ deadline < s.route.expires

compatible_requester_bindings(a, b) ==
  a.session = b.session /\ a.generation = b.generation /\ a.policy = b.policy

\* One engine snapshot validates the bindings of the candidate and of the requester.
begin_hnsr_open_with_authority_binding(binding) ==
  Validation("requester", binding) = "ok" /\ Validation("requester", requester) = "ok"

\* The time is retained by the selection whatever comes of the use.
Open(s, now, deadline) ==
  /\ Idle /\ s.resource = resource /\ now >= s.time /\ now >= floor_time /\ now < deadline
  /\ selections' = (selections \ {s}) \cup {[s EXCEPT !.time = now]}
  /\ IF /\ Revalidated(s, now, deadline)
        /\ compatible_requester_bindings(s.binding, requester)
        /\ begin_hnsr_open_with_authority_binding(s.binding)
     THEN /\ Len(opened) < MaxOpened
          /\ opened' = Append(opened, [route |-> s.route, epoch |-> s.epoch, stopped |-> s.epoch \in blocked])
     ELSE UNCHANGED opened
  /\ UNCHANGED <<authority, state, committed, resource, floor_time, pending, requester, blocked>>

-----------------------------------------------------------------------------
(* The environment.                                                        *)

StartRequester ==
  /\ Idle /\ Validation("requester", requester) # "ok" /\ CanMint("requester") /\ Mint /\ requester' = Minted
  /\ UNCHANGED <<state, committed, resource, floor_time, pending, selections, opened, blocked>>

\* A new accepted resource, with the same authority or another, or a new profile policy.
NewResource ==
  /\ Idle /\ resource.generation + resource.profile < MaxResource
  /\ \/ \E digest \in Digests : resource' = [resource EXCEPT !.generation = @ + 1, !.digest = digest]
     \/ resource' = [resource EXCEPT !.profile = @ + 1]
  /\ UNCHANGED <<authority, state, committed, floor_time, pending, selections, requester, opened, blocked>>

\* The process stops: the committed state is decoded, selections are gone.
Crash ==
  /\ authority.session < MaxRouteSessions /\ NewSession
  /\ state' = committed /\ pending' = <<>> /\ selections' = {} /\ requester' = Unbound
  /\ UNCHANGED <<committed, resource, floor_time, opened, blocked>>

Fresh ==
  /\ state = NewState /\ committed = NewState
  /\ resource = [generation |-> 1, digest |-> CHOOSE d \in Digests : TRUE, profile |-> 1]
  /\ floor_time = 0 /\ pending = <<>> /\ selections = {} /\ requester = Unbound /\ opened = <<>> /\ blocked = {}
RouteNext ==
  \/ \E service \in Services, batch \in RouteBatches, now \in 0..MaxClock : Select(service, batch, now)
  \/ Selected \/ Commit
  \/ \E s \in selections, now \in 0..MaxClock, deadline \in 1..(MaxClock + 1) : Open(s, now, deadline)
  \/ StartRequester \/ NewResource \/ Crash
  \/ /\ AuthorityStep
     /\ UNCHANGED <<state, committed, resource, floor_time, pending, selections, requester, opened, blocked>>

-----------------------------------------------------------------------------
(* Properties.                                                             *)

\* Within one authority epoch the routes opened never go back and never equivocate,
\* across crashes, commits and whatever batches arrive: serials do not decrease, under
\* one serial neither do an endpoint's delegations, and an endpoint's routes never do;
\* equal numbers mean the same signed object; and nothing is opened in an epoch whose
\* committed state was conflicted or exhausted.
OpenedOnlyAdvance ==
  /\ \A i \in DOMAIN opened : ~opened[i].stopped
  /\ \A i, j \in DOMAIN opened :
       i < j /\ opened[i].epoch = opened[j].epoch =>
         LET a == opened[i].route b == opened[j].route
         IN /\ Compare(Grant(a), Grant(b)) \in {"same", "newer"}
            /\ a.endpoint = b.endpoint =>
                 /\ Grant(a) = Grant(b) => Compare(Leave(a), Leave(b)) \in {"same", "newer"}
                 /\ Compare(Route(a), Route(b)) \in {"same", "newer"}
=============================================================================
