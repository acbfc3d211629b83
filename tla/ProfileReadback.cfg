SPECIFICATION Spec
INVARIANTS PlanCoversProfileOnce ProvenanceAgrees
