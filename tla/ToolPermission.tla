--------------------------- MODULE ToolPermission ---------------------------
(***************************************************************************)
(* The Security & Permissions library: may a tool call run on its own, or  *)
(* must a human approve it?  core/permissions.py holds the evaluation      *)
(* point, core/interface.py the organization rules and the standing        *)
(* "always allow" policies consulted around it.                            *)
(*                                                                         *)
(* A configuration is what a coworker's template and its workspace bind:   *)
(* profile and floor map a risk class to a setting, "absent" standing for  *)
(* a key the JSON does not hold.                                           *)
(***************************************************************************)

\* "unclassified" stands for every risk string the enumeration does not list.
Risks == {"safe", "sensitive", "dangerous", "unclassified"}

Settings == {"auto", "approval", "absent"}

\* PermissionProfile.save refuses a profile that lets dangerous tools run by themselves.
Configurations ==
    {config \in [profile : [Risks -> Settings], floor : [Risks -> Settings]] :
        config.profile["dangerous"] # "auto"}

\* What resolve_org_action_policy may answer: the effect of the first
\* matching rule, "allow" when none matches.
OrgEffects == {"allow", "deny", "require_approval"}

\* A missing coworker setting fails closed; a missing floor adds nothing.
CoworkerSetting(config, risk) ==
    IF config.profile[risk] = "absent" THEN "approval" ELSE config.profile[risk]

FloorSetting(config, risk) ==
    IF config.floor[risk] = "absent" THEN "auto" ELSE config.floor[risk]

\* resolve_tool_permission: dangerous and unclassified tools never get "auto".
ResolveToolPermission(config, risk) ==
    IF /\ risk \in {"safe", "sensitive"}
       /\ CoworkerSetting(config, risk) = "auto"
       /\ FloorSetting(config, risk) = "auto"
    THEN "auto"
    ELSE "approval"

\* The organization floor forbids a standing policy for this risk class.
FloorForces(config, risk) == FloorSetting(config, risk) # "auto"

(***************************************************************************)
(* The callers' composition: org is the organization's answer, standing    *)
(* says whether some enabled approval policy matches the call, and asked   *)
(* whether the call already has an approval request.                       *)
(***************************************************************************)
StandingConsent(config, risk, org, standing, asked) ==
    /\ org # "require_approval"
    /\ ResolveToolPermission(config, risk) = "approval"
    /\ ~asked
    /\ ~FloorForces(config, risk)
    /\ standing

PermissionDecision(config, risk, org, standing, asked) ==
    IF org = "require_approval" THEN "approval"
    ELSE IF StandingConsent(config, risk, org, standing, asked) THEN "auto"
    ELSE ResolveToolPermission(config, risk)
=============================================================================
