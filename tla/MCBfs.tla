-------------------------------- MODULE MCBfs --------------------------------
(* Model checking of Bfs: see MCBfs.cfg. *)
EXTENDS Bfs

(* A file without a block, a file that begins where that one would, and a  *)
(* file behind it, whose name has no byte 2.                               *)
MCNames   == <<1, 2, 2>>
MCBlocks  == <<0, 0, 1>>
MCLengths == <<0, 1, 1>>
MCNameLength  == [f \in 0 .. 2 |-> MCNames[f + 1]]
MCBlockNumber == [f \in 0 .. 2 |-> MCBlocks[f + 1]]
MCFileLength  == [f \in 0 .. 2 |-> MCLengths[f + 1]]
=============================================================================
