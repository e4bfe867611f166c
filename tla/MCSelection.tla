---------------------------- MODULE MCSelection ----------------------------
EXTENDS Selection, TLC

CONSTANTS q1, q2, u1, u2, a1, a2, a3, b1, b2, k1, none

MCRequests == {q1, q2}
MCUpstreams == {u1, u2}
MCNodes == {a1, a2, a3, b1, b2}
MCKeys == {k1}
MCNodesOf == u1 :> <<a1, a2, a3>> @@ u2 :> <<b1, b2>>
MCFlaky == {a3, b1, b2}

(* Without a3, u1 has the addresses of u2; whether it has the weights too  *)
(* depends on b2.                                                          *)
MCAddress == a1 :> "x" @@ a2 :> "y" @@ a3 :> "z" @@ b1 :> "x" @@ b2 :> "y"
MCWeightings == {a1 :> 1 @@ a2 :> 2 @@ a3 :> 1 @@ b1 :> 1 @@ b2 :> w : w \in {0, 2}}

(* a1 and a3 collide at one position. *)
MCHashes ==
    {[node |-> (<<a1, 0>> :> 0 @@ <<a1, 1>> :> 3 @@ <<a2, 0>> :> 1 @@ <<a2, 1>> :> 4 @@
                <<a3, 0>> :> 3 @@ <<a3, 1>> :> 5 @@ <<b1, 0>> :> 0 @@ <<b1, 1>> :> 3 @@
                <<b2, 0>> :> 1 @@ <<b2, 1>> :> 3),
      key |-> (k1 :> p)] : p \in {2, 5}}
RequestSymmetry == Permutations(MCRequests)
============================================================================
