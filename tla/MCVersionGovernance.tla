------------------------- MODULE MCVersionGovernance -------------------------
(* Instances of VersionGovernance for TLC. *)
EXTENDS VersionGovernance, TLC

\* Inline policies: what each one sets, the rest unset.
With(rules, level) ==
  [rules |-> [r \in Rule |-> IF r \in DOMAIN rules THEN rules[r] ELSE None],
   level |-> level]

Reviewed == With([minApprovers |-> 2, autoApprovePatches |-> TRUE], None)
Tested   == With([requirePassingTests |-> TRUE], "warn")
Scanned  == With([requiredScanGrade |-> 1, minApprovers |-> 1], None)
Lax      == With([requirePassingTests |-> FALSE, preventSelfApproval |-> FALSE,
                  minApprovers |-> 1, autoApprovePatches |-> TRUE], "audit")
Strict   == With([requirePassingTests |-> TRUE, minApprovers |-> 3,
                  autoApprovePatches |-> FALSE], "block")
Graded   == With([requiredScanGrade |-> 0], "block")

NoTemplates == [t \in {} |-> NoPolicy]

\* Approving (v2 is a patch of v1), and runs by themselves. Two modules that
\* track v2 are in environments of the first page, a third is in an older one.
ReviewPolicies == {Reviewed}
PatchOfFirst   == {<<"v1", "v2">>}
Tracking       == {"t1", "t2", "t3"} \X {"v2"}
NewerThan      == "t1" :> 0 @@ "t2" :> 1 @@ "t3" :> 2
ReviewMixes    == {{"publish", "approve", "reject", "tag"}, {"run"}}

\* Evidence, templates and downloads. Under NoPolicy a version is approved
\* without evidence: what its downloads need is up to the templates.
EvidencePolicies  == {Tested, Scanned, NoPolicy}
ThreeTemplates    == "lax" :> Lax @@ "strict" :> Strict @@ "graded" :> Graded
EvidenceBindings  == {"artifact", "team", "global"} \X {"lax", "strict", "graded"}
EvidenceMixes     == {{"tag", "approve", "run", "download"},
                      {"tag", "approve", "scan", "edit", "download", "yank"},
                      {"tag", "approve", "scan", "bind", "edit", "download"}}
Alike == Permutations(Version) \cup Permutations(RunHandler)

NoTargets == [t \in {} |-> 0]
=============================================================================
