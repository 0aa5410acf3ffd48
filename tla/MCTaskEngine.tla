---------------------------- MODULE MCTaskEngine ----------------------------
(***************************************************************************)
(* Small instances of TaskEngine: one question, one call to a tool that is *)
(* not attached, one sensitive and one dangerous tool call.                *)
(***************************************************************************)
EXTENDS TaskEngine

CONSTANTS sensitive, dangerous  \* the members of ToolCalls, or one of them

MCRisk == [c \in ToolCalls |-> IF c = sensitive THEN "sensitive" ELSE "dangerous"]

Setting(s, d) == [r \in Risks |->
    CASE r = "safe" -> "auto" [] r = "sensitive" -> s
      [] r = "dangerous" -> d [] OTHER -> "absent"]

\* A coworker that runs sensitive tools alone, and one that asks, under a
\* floor that forces approval for dangerous tools, or adds nothing.
MCConfigs ==
    { [profile |-> Setting("auto", "approval"), floor |-> Setting("absent", "approval")],
      [profile |-> Setting("absent", "approval"), floor |-> Setting("auto", "approval")] }

=============================================================================
