------------------------------ MODULE MCStacks ------------------------------
(***************************************************************************)
(* Three requests on a stack, which is what it takes for two of them to    *)
(* run at once.  All mixes of three kinds are too many: these have every   *)
(* kind at least once, two saves beside a deletion, two saves beside a     *)
(* run, and a deletion or an update beside each sort of run.               *)
(***************************************************************************)
EXTENDS Stacks

Mixes ==
    {{"delete", "up", "stop"}, {"delete", "add", "edit"}, {"delete", "create", "deploy"},
     {"update", "delete", "add"}, {"update", "down", "stop"}, {"update", "edit", "up"},
     {"restart", "create", "add"}}

\* The requests differ in nothing but their kind: one assignment of a mix will do.
Assign(mix) == CHOOSE k \in [Ops -> mix] : \A x \in mix : \E p \in Ops : k[p] = x

MCInit == StacksInit /\ \E mix \in Mixes : kind = Assign(mix)

MCSpec == MCInit /\ [][StacksNext]_allVars /\ StacksFairness
=============================================================================
