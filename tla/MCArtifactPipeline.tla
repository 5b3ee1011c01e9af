-------------------------- MODULE MCArtifactPipeline --------------------------
(***************************************************************************)
(* Four generations: the ladder's; one that differs from it in the seed,   *)
(* so that all files are as long but hold other numbers; one in K, so that *)
(* its reference is as long; and one in N, so that its x is the very same. *)
(* (One that differs in M makes the run seven times as large, and is no    *)
(* new case: its vectors are of other lengths, its weights other numbers.) *)
(***************************************************************************)
EXTENDS ArtifactPipeline

MCDefault == [layer |-> "o_proj", m |-> 2, seed |-> 0]

MCVersions ==
    {MCDefault, [layer |-> "o_proj", m |-> 2, seed |-> 1],
     [layer |-> "down_proj", m |-> 2, seed |-> 0],
     [layer |-> "qkv_proj", m |-> 2, seed |-> 0]}

MCPlugins == {"faithful", "wrong", "nan"}
=============================================================================
