---------------------------- MODULE MCStreamIOv3 ----------------------------
(***************************************************************************)
(* Blocks of 3 bytes in 2 pieces of 2, one block to a disk read; file a    *)
(* has two blocks, b has one.  Three scenarios, each within bounds of its  *)
(* own: packets that overtake one another while one file is read           *)
(* ("reorder"), two opens after one another ("open"), and a server that is *)
(* restarted under a caller that aborts ("restart").                       *)
(***************************************************************************)
EXTENDS StreamIOv3

VARIABLE scenario

MCInit == Init /\ ClientInit /\ scenario \in {"reorder", "open", "restart"}

OneFile == opened \in {<<>>, <<"a">>}

Within ==
    \/ scenario = "reorder" /\ OneFile /\ epoch = 1 /\ cut = 0
    \/ scenario = "open" /\ Cardinality(net) <= 1 /\ epoch = 1 /\ cut = 0
    \/ scenario = "restart" /\ Cardinality(net) <= 1 /\ OneFile

MCSpec == MCInit /\ [][NetNext /\ UNCHANGED scenario /\ Within']_<<allvars, scenario>>

MCSizeOf == [f \in Files |-> IF f = "a" THEN 4 ELSE 1]
=============================================================================
