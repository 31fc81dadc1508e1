----------------------------- MODULE MCGtkPriv -----------------------------
(* Repositories for GtkPriv: a struct that embeds one that embeds one, in  *)
(* the order that takes most rounds, and releases around the bad one.      *)
EXTENDS GtkPriv

V(minor, micro) == [minor |-> minor, micro |-> micro]

MCEmbeds  == <<{2}, {3}, {}>>
MCMembers == [a |-> {[name |-> "x", type |-> "int"]},
              b |-> {[name |-> "x", type |-> "double"], [name |-> "y", type |-> "int"]}]
MCTagSets == {{V(22, 0), V(24, 18)},
              {V(22, 29), V(24, 18), V(24, 19)},
              {V(20, 9), V(22, 30), V(24, 20), V(24, 19)},
              {V(22, 0), V(22, 1), V(24, 0)},
              {V(70, 0), V(24, 19), V(89, 1)}}
MCBranchSets == {{}, {24}, {20, 70}}
MCMin == V(22, 0)
MCMax == V(70, 0)
MCBad == V(24, 19)
=============================================================================
