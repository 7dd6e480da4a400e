--------------------------- MODULE MCLoopbackProxy ---------------------------
(***************************************************************************)
(* LoopbackProxy for TLC, in three regimes that differ in what they give   *)
(* room to.  "registry": the publications of one session up to the end of  *)
(* its counters.  "tunnels": CONNECTs and grants of one session with one   *)
(* published origin.  "instances": two sessions at one time.  Origins are  *)
(* interchangeable.                                                        *)
(***************************************************************************)
EXTENDS LoopbackProxy, TLC

VARIABLE regime

MCWindow == {<<0, 1>>, <<0, 2>>}

Open == {i \in 1..MaxInstances : proxy[i] # None}

Named == {a.origin : a \in authorities \cup admissions}
            \cup UNION {Published(i) : i \in Open}

WithinRegime ==
    CASE regime = "registry" ->
            /\ next_instance_id <= 2
            /\ \A i \in Open : proxy[i].sequence = 0
      [] regime = "tunnels" ->
            /\ next_instance_id <= 2
            /\ Cardinality(Named) <= 1
            /\ \A a \in authorities : a.valid_until > 1
            /\ \A i \in Open : proxy[i].registry_generation <= 3
            /\ \A p \in pendings :
                  p.record.sequence = 1 \/ p.record.target \in Named
      [] regime = "instances" ->
            /\ epoch = 0
            /\ Cardinality(Named) <= 1
            /\ \A a \in authorities : a.valid_until > 1
            /\ \A i \in Open :
                  /\ proxy[i].last_observed_time = 0
                  /\ proxy[i].sequence <= 1
                  /\ proxy[i].registry_generation <= 2

MCInit == Init /\ regime \in {"registry", "tunnels", "instances"}

MCNext == Next /\ regime' = regime /\ WithinRegime'

MCSpec == MCInit /\ [][MCNext]_<<vars, regime>>

Origins == Permutations(Origin)

=============================================================================
