------------------------ MODULE MCEvidencePublication ------------------------
(* TLC instances of EvidencePublication: interchangeable runs and inputs. *)
EXTENDS EvidencePublication, TLC

Symmetry == Permutations(Runs) \cup Permutations(Files)
=============================================================================
