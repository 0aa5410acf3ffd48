---------------------------- MODULE Capabilities ----------------------------
(***************************************************************************)
(* The tools and skills of one coworker: who may put them there, switch    *)
(* them off and take them away (core.views, core.v2_services,              *)
(* core.v4_services, and the chat tool of core.interface).  A proposal is  *)
(* only a request; an admin's review grants it, once.  An attachment is    *)
(* "none" when there is no row.                                            *)
(***************************************************************************)
EXTENDS Integers, FiniteSets

CONSTANTS
    Tools, Skills,  \* the catalog, and the skills installed in the workspace
    DeclaredTools,  \* the tools each skill declares
    Writers, Reviewers,     \* the requests of members and of admins
    Proposals,
    MaxChanges      \* bound: requests that change an attachment directly

CapabilitiesAssumption ==
    /\ DeclaredTools \in [Skills -> SUBSET Tools]
    /\ Tools \cap Skills = {} /\ Reviewers \cap Writers = {}
    /\ MaxChanges \in Nat

VARIABLES
    tool, skill,    \* the attachments
    target,         \* target[p]: what proposal p asks for
    proposal,       \* proposal[p]: its status, "none" before it is made
    (* Requests. *)
    asking,         \* asking[w]: the capability whose open proposals w looked for
    turningOff,     \* turningOff[w]: the skill w attached and is to switch off
    opened,         \* opened[r]: the proposal reviewer r has before them
    changesLeft,
    (* History. *)
    revoked,        \* tools a member switched off since they were last granted
    answers         \* answers[p]: the reviews that were accepted

attachments == <<tool, skill>>
proposals == <<target, proposal>>
capabilityvars == <<attachments, proposals, asking, turningOff, opened, changesLeft, revoked,
                    answers>>

Nothing == "nothing"
Attachment == {"none", "enabled", "disabled"}
Capability == Tools \cup Skills

\* Django's get_or_create and update_or_create on attachments.
Created(was) == IF was = "none" THEN "enabled" ELSE was
Granted(was) == "enabled"

Init ==
    /\ tool = [t \in Tools |-> "none"] /\ skill = [s \in Skills |-> "none"]
    /\ target = [p \in Proposals |-> Nothing] /\ proposal = [p \in Proposals |-> "none"]
    /\ asking = [w \in Writers |-> Nothing] /\ turningOff = [w \in Writers |-> Nothing]
    /\ opened = [r \in Reviewers |-> Nothing]
    /\ changesLeft = MaxChanges
    /\ revoked = {} /\ answers = [p \in Proposals |-> 0]

Change ==
    /\ changesLeft > 0 /\ changesLeft' = changesLeft - 1
    /\ UNCHANGED <<proposals, opened, answers>>
-----------------------------------------------------------------------------
(* CoworkerToolAttachView.post: a member sets a tool on or off.            *)
AttachTool ==
    /\ Change
    /\ \E t \in Tools, on \in BOOLEAN :
          /\ tool' = [tool EXCEPT ![t] = IF on THEN "enabled" ELSE "disabled"]
          /\ revoked' = IF on THEN revoked \ {t} ELSE revoked \cup {t}
    /\ UNCHANGED <<skill, asking, turningOff>>

(* CoworkerToolDetachView.delete, and remove_tools of                      *)
(* orchestrate_update_coworker: the row goes, and with it its refusal.     *)
DetachTool ==
    /\ Change
    /\ \E t \in Tools :
          /\ tool[t] # "none"
          /\ tool' = [tool EXCEPT ![t] = "none"]
          /\ revoked' = revoked \ {t}
    /\ UNCHANGED <<skill, asking, turningOff>>

(* add_tools of orchestrate_update_coworker: a tool that is switched off   *)
(* is reported as added and stays off.                                     *)
ChatAddsTools ==
    /\ Change
    /\ \E added \in SUBSET Tools :
          tool' = [t \in Tools |-> IF t \in added THEN Created(tool[t]) ELSE tool[t]]
    /\ UNCHANGED <<skill, asking, turningOff, revoked>>

\* Mutant of DeclaredFor: a skill switches its tools on.
DeclaredForAlways(s) == [t \in Tools |-> IF t \in DeclaredTools[s] THEN Granted(tool[t]) ELSE tool[t]]

DeclaredFor(s) == [t \in Tools |-> IF t \in DeclaredTools[s] THEN Created(tool[t]) ELSE tool[t]]

(* attach_installed_skill: the skill and the tools it declares, in one     *)
(* transaction; the view may then have to switch the skill off.            *)
AttachSkill(w) ==
    /\ Change
    /\ turningOff[w] = Nothing /\ asking[w] = Nothing
    /\ \E s \in Skills :
          /\ skill' = [skill EXCEPT ![s] = Granted(skill[s])]
          /\ tool' = DeclaredFor(s)
          /\ turningOff' \in {turningOff, [turningOff EXCEPT ![w] = s]}
    /\ UNCHANGED <<asking, revoked>>

(* CoworkerSkillAttachView.post: the row it holds, if it is still there.   *)
SwitchSkillOff(w) ==
    /\ turningOff[w] # Nothing
    /\ skill' = [skill EXCEPT ![turningOff[w]] = IF @ = "none" THEN @ ELSE "disabled"]
    /\ turningOff' = [turningOff EXCEPT ![w] = Nothing]
    /\ UNCHANGED <<tool, proposals, asking, opened, changesLeft, revoked, answers>>

(* CoworkerSkillAttachView.delete.  The declared tools stay.               *)
DetachSkill ==
    /\ Change
    /\ \E s \in Skills : skill[s] # "none" /\ skill' = [skill EXCEPT ![s] = "none"]
    /\ UNCHANGED <<tool, asking, turningOff, revoked>>
-----------------------------------------------------------------------------
(* create_capability_proposal: no proposal for the same capability is      *)
(* open; two requests may both see none and both go on.                    *)
LookForOpenProposal(w) ==
    /\ asking[w] = Nothing /\ turningOff[w] = Nothing
    /\ \E c \in Capability :
          /\ \A p \in Proposals : target[p] = c => proposal[p] # "pending"
          /\ asking' = [asking EXCEPT ![w] = c]
    /\ UNCHANGED <<attachments, proposals, turningOff, opened, changesLeft, revoked, answers>>

CreateProposal(w) ==
    /\ asking[w] # Nothing
    /\ \E p \in Proposals :
          /\ proposal[p] = "none"
          /\ proposal' = [proposal EXCEPT ![p] = "pending"]
          /\ target' = [target EXCEPT ![p] = asking[w]]
    /\ asking' = [asking EXCEPT ![w] = Nothing]
    /\ UNCHANGED <<attachments, turningOff, opened, changesLeft, revoked, answers>>

(* CapabilityProposalDecisionView.post reads the proposal ...              *)
OpenReview(r) ==
    /\ opened[r] = Nothing
    /\ \E p \in Proposals : proposal[p] # "none" /\ opened' = [opened EXCEPT ![r] = p]
    /\ UNCHANGED <<attachments, proposals, asking, turningOff, changesLeft, revoked, answers>>

Reviewable(p) == proposal[p] = "pending"

(* ... and review_capability_proposal reads it again under its lock.  A    *)
(* tool is switched on, even one that was switched off meanwhile; a skill  *)
(* is attached without the tools it declares.                              *)
Review(r) ==
    /\ opened[r] # Nothing
    /\ opened' = [opened EXCEPT ![r] = Nothing]
    /\ LET p == opened[r] IN
       \/ /\ Reviewable(p)
          /\ proposal' = [proposal EXCEPT ![p] = "approved"]
          /\ IF target[p] \in Tools
             THEN /\ tool' = [tool EXCEPT ![target[p]] = Granted(@)]
                  /\ revoked' = revoked \ {target[p]} /\ UNCHANGED skill
             ELSE skill' = [skill EXCEPT ![target[p]] = Granted(@)] /\ UNCHANGED <<tool, revoked>>
          /\ answers' = [answers EXCEPT ![p] = @ + 1]
       \/ /\ Reviewable(p)
          /\ proposal' = [proposal EXCEPT ![p] = "denied"]
          /\ answers' = [answers EXCEPT ![p] = @ + 1]
          /\ UNCHANGED <<attachments, revoked>>
       \/ /\ ~Reviewable(p)
          /\ UNCHANGED <<attachments, proposal, revoked, answers>>
    /\ UNCHANGED <<target, asking, turningOff, changesLeft>>

Next ==
    \/ AttachTool \/ DetachTool \/ ChatAddsTools \/ DetachSkill
    \/ \E w \in Writers : \/ AttachSkill(w) \/ SwitchSkillOff(w)
                          \/ LookForOpenProposal(w) \/ CreateProposal(w)
    \/ \E r \in Reviewers : OpenReview(r) \/ Review(r)

Spec == Init /\ [][Next]_capabilityvars
-----------------------------------------------------------------------------
TypeOK ==
    /\ tool \in [Tools -> Attachment] /\ skill \in [Skills -> Attachment]
    /\ target \in [Proposals -> Capability \cup {Nothing}]
    /\ proposal \in [Proposals -> {"none", "pending", "approved", "denied"}]
    /\ asking \in [Writers -> Capability \cup {Nothing}]
    /\ turningOff \in [Writers -> Skills \cup {Nothing}]
    /\ opened \in [Reviewers -> Proposals \cup {Nothing}]
    /\ changesLeft \in 0..MaxChanges /\ revoked \subseteq Tools
    /\ answers \in [Proposals -> Nat]

\* A tool that a member switched off stays off until a member or a reviewer names
\* it (attach_installed_skill): no skill, no chat, no other proposal turns it on.
RevocationStays == \A t \in revoked : tool[t] = "disabled"

\* However many reviewers have a proposal open, one answer counts
\* (review_capability_proposal): a denied proposal was never granted.
ReviewedOnce ==
    \A p \in Proposals : answers[p] = IF proposal[p] \in {"approved", "denied"} THEN 1 ELSE 0
=============================================================================
