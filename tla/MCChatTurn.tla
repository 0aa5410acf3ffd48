----------------------------- MODULE MCChatTurn -----------------------------
(***************************************************************************)
(* Small instances of ChatTurn: one call to a sensitive tool and one to a  *)
(* dangerous one.                                                          *)
(***************************************************************************)
EXTENDS ChatTurn

CONSTANTS sensitive, dangerous

MCRisk == [c \in ToolCalls |-> IF c = sensitive THEN "sensitive" ELSE "dangerous"]

Setting(s, d) == [r \in Risks |->
    CASE r = "safe" -> "auto" [] r = "sensitive" -> s
      [] r = "dangerous" -> d [] OTHER -> "absent"]

\* A coworker that runs sensitive tools alone under a floor for dangerous ones.
MCConfigs ==
    { [profile |-> Setting("auto", "approval"), floor |-> Setting("absent", "approval")] }
=============================================================================
