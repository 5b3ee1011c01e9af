--------------------------- MODULE MCPluginLifetime ---------------------------
(***************************************************************************)
(* Three objects and the storage of two creations, over two layers'        *)
(* weights: an original, its clone, and an object that takes the place of  *)
(* either.  Temporal properties are checked, hence no symmetry.            *)
(***************************************************************************)
EXTENDS PluginLifetime

CONSTANTS o1, o2, o3, d1, d2, c1, c2

MCObjects == {o1, o2, o3}
MCData == {d1, d2}
MCCreations == {c1, c2}
=============================================================================
