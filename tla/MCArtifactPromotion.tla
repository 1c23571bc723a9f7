------------------------ MODULE MCArtifactPromotion ------------------------
(* Files for ArtifactPromotion: a primary one and those linked to it. *)
EXTENDS ArtifactPromotion

CONSTANTS index, one, two

TwoTargets == {index, one}
ThreeTargets == {index, one, two}
=============================================================================
