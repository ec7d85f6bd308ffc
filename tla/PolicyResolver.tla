--------------------------- MODULE PolicyResolver ---------------------------
(***************************************************************************)
(* Which rules and which enforcement level hold for one artifact, given    *)
(* its inline approval policy and the policy templates bound to its four   *)
(* scopes. A rule a policy does not set has the value None. Grades are     *)
(* ranks: 0 is A, 4 is F.                                                  *)
(***************************************************************************)
EXTENDS Integers, FiniteSetsExt

CONSTANTS
  Template,        \* policy templates
  TemplatePolicy,  \* their rules and enforcement levels
  None

Flag == {"requirePassingTests", "requirePassingValidate",
         "preventSelfApproval", "autoApprovePatches"}
Rule == Flag \cup {"minApprovers", "requiredScanGrade"}

\* Most specific scope first.
Scopes == <<"artifact", "namespace", "team", "global">>
Scope  == {Scopes[i] : i \in DOMAIN Scopes}

Levels == <<"block", "warn", "audit">>

Switch == BOOLEAN \cup {None}
Policy ==
  [rules : [minApprovers : Nat \cup {None}, requiredScanGrade : (0 .. 4) \cup {None},
            requirePassingTests : Switch, requirePassingValidate : Switch,
            preventSelfApproval : Switch, autoApprovePatches : Switch],
   level : {"block", "warn", "audit", None}]

\* A null approval policy, or one without keys.
NoPolicy == [rules |-> [r \in Rule |-> None], level |-> None]

ASSUME PolicyAssumption ==
  /\ IsFiniteSet(Template)
  /\ TemplatePolicy \in [Template -> Policy]
  /\ None \notin Template /\ None \notin BOOLEAN /\ None \notin Int

----------------------------------------------------------------------------

Values(r, policies) == {p.rules[r] : p \in policies} \ {None}

\* Mutant of Strictest: the lowest number of approvers counts.
StrictestByMin(r, values) ==
  IF values = {} THEN None
  ELSE CASE r \in {"minApprovers", "requiredScanGrade"} -> Min(values)
         [] r = "autoApprovePatches" -> FALSE \notin values
         [] OTHER -> IF TRUE \in values THEN TRUE ELSE None

\* The strictest of several values: the most approvers, the best grade, no
\* automatic approval; a requirement that is only switched off is dropped.
Strictest(r, values) ==
  IF values = {} THEN None
  ELSE CASE r = "minApprovers"       -> Max(values)
         [] r = "requiredScanGrade"  -> Min(values)
         [] r = "autoApprovePatches" -> FALSE \notin values
         [] OTHER -> IF TRUE \in values THEN TRUE ELSE None

\* The policies of a scope: the bound templates, and inline on the artifact.
Members(inline, bound, s) ==
  bound[s] \cup IF s = "artifact" /\ inline # NoPolicy THEN {None} ELSE {}

PolicyOfMember(inline, m) == IF m = None THEN inline ELSE TemplatePolicy[m]

PoliciesAt(inline, bound, s) == {PolicyOfMember(inline, m) : m \in Members(inline, bound, s)}

\* A single policy is taken as it stands, several are merged.
MergeWithinScope(inline, bound, s) ==
  LET policies == PoliciesAt(inline, bound, s) IN
  IF Cardinality(Members(inline, bound, s)) = 1
  THEN (CHOOSE p \in policies : TRUE).rules
  ELSE [r \in Rule |-> Strictest(r, Values(r, policies))]

LevelOf(p) == IF p.level = None THEN "block" ELSE p.level

\* The first element of seq that is one of chosen.
FirstOf(seq, chosen) == seq[Min({i \in DOMAIN seq : seq[i] \in chosen})]

\* resolveEffectivePolicy: per rule the value of the most specific scope
\* that sets it; the strictest level of all policies.
EffectivePolicy(inline, bound) ==
  LET merged     == [s \in Scope |-> MergeWithinScope(inline, bound, s)]
      Setting(r) == {s \in Scope : merged[s][r] # None}
      levels     == {LevelOf(p) : p \in UNION {PoliciesAt(inline, bound, s) : s \in Scope}}
  IN  [rules |-> [r \in Rule |->
         IF Setting(r) = {} THEN None ELSE merged[FirstOf(Scopes, Setting(r))][r]],
       level |-> IF levels = {} THEN "block" ELSE FirstOf(Levels, levels)]
=============================================================================
