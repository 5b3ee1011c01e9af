----------------------------- MODULE MCModuleSwap -----------------------------
(***************************************************************************)
(* The real constants of the benchmark: 32 blocks of four linear layers,   *)
(* and its 18 prompts.                                                     *)
(***************************************************************************)
EXTENDS ModuleSwap

MCPrompts ==
    <<"s1", "s2", "s3", "s4", "s5", "s6", "m1", "m2", "m3", "m4", "m5", "m6",
      "l1", "l2", "l3", "l4", "l5", "l6">>
=============================================================================
