--------------------------- MODULE MCGraphMirror ---------------------------
(* Values for the TLC runs of GraphMirror. *)
EXTENDS GraphMirror, TLC

Symmetry == Permutations(Entities) \cup Permutations(Clients)

\* The sections of reconcile_once, in order; the others sweep findings.
AllSections ==
    <<"sweep_entity", "sweep_claim", "sweep_document", "sweep_evidence",
      "fill_claim", "fill_evidence", "fill_document">>

\* A section compares one sort of facts and keeps nothing for the next one; a
\* run leaves out those whose sort has no facts in it or is not its question.
EntitySections == <<"sweep_entity">>
ClaimSections == <<"sweep_claim", "sweep_evidence", "fill_claim", "fill_evidence">>
ExtractSections == <<"sweep_entity", "sweep_claim", "fill_claim">>
=============================================================================
