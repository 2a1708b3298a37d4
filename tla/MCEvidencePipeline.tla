------------------------- MODULE MCEvidencePipeline -------------------------
(* Values for the TLC runs of EvidencePipeline. *)
EXTENDS EvidencePipeline, TLC

Symmetry == Permutations(Callers)

\* Every document nearly repeats every other one, or none does.
AllNear == Contents \X Contents
NoneNear == {}
=============================================================================
