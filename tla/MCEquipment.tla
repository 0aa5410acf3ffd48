---------------------------- MODULE MCEquipment ----------------------------
(***************************************************************************)
(* A small instance of what coworkers are equipped with: Marketplace       *)
(* listings, tools and skills, memories, and documents.  The four share no *)
(* variable; `focus` says which a behaviour is about.                      *)
(***************************************************************************)
EXTENDS Marketplace

CONSTANTS
    Tools, Skills, DeclaredTools, Writers, Reviewers, Proposals, MaxChanges,
    Coworkers, Subjects, Values, Scans, Resolvers, MaxTold, MaxMemories, MaxEdits,
    Deliverers, MaxRetries, MaxDuplicates, MaxDeaths,
    l1, l2, l3, v1, v2, v3, v4

VARIABLES
    focus,
    tool, skill, target, proposal, asking, turningOff, opened, changesLeft, revoked, answers,
    entry, written, conflict, found, resolving, edits,
    document, chunked, jobs, stage, attempt, duplicates, deaths, together

\* A first and a second version of one listing, a paid pack, and one to fork to.
MCListingOf == (v1 :> l1) @@ (v2 :> l1) @@ (v3 :> l2) @@ (v4 :> l3)
Declares(needs, risky) == [dependencies |-> needs, risky |-> risky]

\* l3 needs the other two, of which one needs the other; a cycle and a risky version.
MCCatalogs ==
    { (v1 :> Declares(<<>>, FALSE)) @@ (v2 :> Declares(<<>>, TRUE))
        @@ (v3 :> Declares(<<l1>>, FALSE)) @@ (v4 :> Declares(<<l2, l1>>, FALSE)),
      (v1 :> Declares(<<>>, FALSE)) @@ (v2 :> Declares(<<l2>>, FALSE))
        @@ (v3 :> Declares(<<l1>>, FALSE)) @@ (v4 :> Declares(<<l1>>, TRUE)) }

MCDeclaredTools == [s \in Skills |-> Tools]

C == INSTANCE Capabilities
M == INSTANCE MemoryConflict
D == INSTANCE Ingestion

ASSUME EquipmentAssumption ==
    C!CapabilitiesAssumption /\ M!MemoryAssumption /\ D!IngestionAssumption

capabilityvars == <<tool, skill, target, proposal, asking, turningOff, opened, changesLeft,
                    revoked, answers>>
memoryvars == <<entry, written, conflict, found, resolving, edits>>
documentvars == <<document, chunked, jobs, stage, attempt, duplicates, deaths, together>>
mcvars == <<focus, marketvars, capabilityvars, memoryvars, documentvars>>

Focuses == {"market", "capabilities", "memory", "document"}

\* The modules that are not in focus begin in one of their initial states.
MCInit ==
    /\ focus \in Focuses
    /\ Init /\ C!Init /\ M!Init /\ D!Init
    /\ focus # "market" => manifest = CHOOSE c \in MCCatalogs : TRUE

OnMarket == focus = "market" /\ UNCHANGED <<focus, capabilityvars, memoryvars, documentvars>>
OnCapabilities ==
    focus = "capabilities" /\ UNCHANGED <<focus, marketvars, memoryvars, documentvars>>
OnMemory == focus = "memory" /\ UNCHANGED <<focus, marketvars, capabilityvars, documentvars>>
OnDocument == focus = "document" /\ UNCHANGED <<focus, marketvars, capabilityvars, memoryvars>>

MCNext ==
    \/ (OnMarket /\ Next) \/ (OnCapabilities /\ C!Next)
    \/ (OnMemory /\ M!Next) \/ (OnDocument /\ D!Next)

MCSpec ==
    /\ MCInit /\ [][MCNext]_mcvars
    /\ \A q \in Requests : WF_mcvars(RequestStep(q) /\ OnMarket)
    /\ \A w \in Deliverers : WF_mcvars(D!IngestStep(w) /\ OnDocument)

\* The type invariants of the four modules.
MCTypeOK == TypeOK /\ C!TypeOK /\ M!TypeOK /\ D!TypeOK

\* A tool that a member switched off stays off until a member or a reviewer names
\* it: no skill and no chat turns it on (attach_installed_skill).
RevocationStays == C!RevocationStays

\* However many reviewers have a proposal open, and however many scans, reports and
\* members meet on one pair of memories, one answer counts
\* (review_capability_proposal, resolve_memory_conflict).
SettledOnce == C!ReviewedOnce /\ M!SettledOnce

\* What search_coworker_knowledge finds is whole: a document that is ready has its
\* chunks, unless two deliveries of it overlapped.
ReadyIsWhole == D!ReadyIsWhole

\* Every installation ends, whatever the dependencies are, and every document that
\* no lost worker had in hand ends ready, failed or deleted.
WorkEnds ==
    <>[]( /\ \A q \in Requests : todo[q] = <<>>
          /\ focus = "document" => document \in {"ready", "failed", "deleted"} \/ deaths > 0 )
=============================================================================
