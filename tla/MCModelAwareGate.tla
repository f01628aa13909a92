---- MODULE MCModelAwareGate ----
(***************************************************************************)
(* A machine of 4 units of memory and four models: three Ollama models of  *)
(* which the small one fits beside either of the others, but the middle    *)
(* and the big one do not fit together, and an MLX model too large for it. *)
(***************************************************************************)
EXTENDS ModelAwareGate, TLC

CONSTANTS small, mid, big, mlx

MCModels == {small, mid, big, mlx}
MCSize == small :> 1 @@ mid :> 2 @@ big :> 3 @@ mlx :> 5
MCExclusive == {mlx}
====
