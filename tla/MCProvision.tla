---- MODULE MCProvision ----
(***************************************************************************)
(* Two loads on a machine with a budget of 5: an Ollama model of 1, one of *)
(* 3, one larger than the budget, one of 2 whose size is not configured,   *)
(* and an MLX model of 4.  Two pulls that both fit the disk do not fit it  *)
(* together.                                                               *)
(***************************************************************************)
EXTENDS Provision, TLC

CONSTANTS l1, l2, small, big, huge, odd, mlx4

MCSize == small :> 1 @@ big :> 3 @@ huge :> 6 @@ odd :> 2 @@ mlx4 :> 4
====
