---------------------------- MODULE MCPlotImage ----------------------------
EXTENDS PlotImage, TLC

(* All three remainders of a length by three, and one picture that does    *)
(* not fit into file_buf.                                                  *)
MCPicture == (0 :> <<137, 80>> @@ 1 :> <<255, 1, 128, 3>>
              @@ 2 :> <<137, 80, 200>> @@ 3 :> <<0, 240, 7, 99, 251>>)

Symmetry == Permutations(Threads)
=============================================================================
