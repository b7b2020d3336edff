-------------------------- MODULE MCKubernetesEnvs --------------------------
(***************************************************************************)
(* Every project with up to three assignments, on two clusters of which an *)
(* assignment may also name a third, unregistered one.                     *)
(***************************************************************************)
EXTENDS KubernetesEnvs, SequencesExt

MCInputs ==
    [namespace : Namespaces \cup {None},
     assignments : BoundedSeq([cluster : ClusterIds \cup {None}, namespace : Namespaces \cup {None}], 3),
     clusters : {<<>>, <<"c1", "c2">>}]
=============================================================================
