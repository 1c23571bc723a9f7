------------------------ MODULE MCArtifactPipeline ------------------------
(* A guide and what is derived from it, one from the other: the canonical *)
(* chain up to the conformance specification, one with a fork, and a      *)
(* shorter one.                                                           *)
EXTENDS ArtifactPipeline, TLC

CONSTANTS guide, spec, contract, conf

Canonical == {guide, spec, contract, conf}
CanonicalRank == guide :> 0 @@ spec :> 1 @@ contract :> 2 @@ conf :> 3
CanonicalUpstream ==
  guide :> {} @@ spec :> {guide} @@ contract :> {spec} @@ conf :> {contract}

ForkRank == guide :> 0 @@ spec :> 1 @@ conf :> 2 @@ contract :> 3
ForkUpstream ==
  guide :> {} @@ spec :> {guide} @@ contract :> {spec} @@ conf :> {spec}

Short == {guide, spec, conf}
ShortRank == guide :> 0 @@ spec :> 1 @@ conf :> 2
ShortUpstream == guide :> {} @@ spec :> {guide} @@ conf :> {spec}

Derived == Canonical \ {guide}
SpecAndConf == {spec, conf}

Symmetry == Permutations(Content) \cup Permutations(Task)
=============================================================================
