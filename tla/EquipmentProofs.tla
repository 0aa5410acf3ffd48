-------------------------- MODULE EquipmentProofs --------------------------
(***************************************************************************)
(* What coworkers are equipped with, for any catalog, requests, reviewers, *)
(* writers, deliverers and bounds: what the Marketplace installs is whole  *)
(* and paid for, a tool that was switched off stays off, one answer        *)
(* settles a proposal or a pair of memories, and a document that can be    *)
(* searched has its chunks.                                                *)
(*                                                                         *)
(* The four modules share no variable, so each has an invariant of its     *)
(* own, and the steps of the others leave it alone. The hard one is that   *)
(* of the Marketplace: an installation is worked off as a sequence of      *)
(* steps, and what a step may rely on is what is installed already or what *)
(* an earlier step of the sequence will have installed. StepOK says so of  *)
(* every step, and Replaces of what a step may put in its own place.       *)
(***************************************************************************)
EXTENDS MCEquipment, FiniteSetTheorems, SequenceTheorems, TLAPS

-----------------------------------------------------------------------------
\* What holds of the document: while deliveries have not overlapped, at most one
\* worker is at it, and the status is the one that worker wrote last.
Alone == \A v, w \in Deliverers : stage[v] # "idle" /\ stage[w] # "idle" => v = w

StatusIsLast(w) ==
    /\ stage[w] = "parse" => document \in {"chunking", "deleted"}
    /\ stage[w] \in {"clear", "fill", "finish"} => document \in {"embedding", "deleted"}
    /\ stage[w] = "finish" => chunked \/ document = "deleted"

DocumentInv ==
    /\ stage \in [Deliverers -> D!Stages]
    /\ ~together => Alone /\ \A w \in Deliverers : StatusIsLast(w)
    /\ D!ReadyIsWhole

LEMMA DocumentInit == MCInit => DocumentInv
BY DEF MCInit, D!Init, DocumentInv, D!Stages, Alone, StatusIsLast, D!ReadyIsWhole

LEMMA DocumentStep == DocumentInv /\ [D!Next]_documentvars => DocumentInv'
<1> SUFFICES ASSUME DocumentInv, [D!Next]_documentvars PROVE DocumentInv'
  OBVIOUS
<1> USE DEF DocumentInv, D!Stages, Alone, StatusIsLast, D!ReadyIsWhole, D!GoTo
<1>1. CASE UNCHANGED documentvars
  BY <1>1 DEF documentvars
<1>2. ASSUME NEW w \in Deliverers, D!Take(w) PROVE DocumentInv'
  BY <1>2 DEF D!Take, D!Busy
<1>3. ASSUME NEW w \in Deliverers, D!Start(w) PROVE DocumentInv'
  BY <1>3 DEF D!Start, D!RaiseIn
<1>4. ASSUME NEW w \in Deliverers, D!Parse(w) PROVE DocumentInv'
  BY <1>4 DEF D!Parse, D!Save
<1>5. ASSUME NEW w \in Deliverers, D!Clear(w) PROVE DocumentInv'
  BY <1>5 DEF D!Clear
<1>6. ASSUME NEW w \in Deliverers, D!Fill(w) PROVE DocumentInv'
  BY <1>6 DEF D!Fill
<1>7. ASSUME NEW w \in Deliverers, D!Finish(w) PROVE DocumentInv'
  BY <1>7 DEF D!Finish, D!Save
<1>8. ASSUME NEW w \in Deliverers, D!Fail(w) PROVE DocumentInv'
  BY <1>8 DEF D!Fail, D!RaiseIn
<1>9. ASSUME NEW w \in Deliverers, D!Die(w) PROVE DocumentInv'
  BY <1>9 DEF D!Die
<1>10. CASE D!Delete
  BY <1>10 DEF D!Delete
<1>11. CASE D!Duplicate
  BY <1>11 DEF D!Duplicate
<1> QED
  BY <1>1, <1>2, <1>3, <1>4, <1>5, <1>6, <1>7, <1>8, <1>9, <1>10, <1>11
  DEF D!Next, D!IngestStep

-----------------------------------------------------------------------------
\* What holds of tools, skills and proposals: a proposal has been answered at most
\* once, and the tools that were switched off are off.
CapabilityInv ==
    /\ tool \in [Tools -> C!Attachment] /\ skill \in [Skills -> C!Attachment]
    /\ turningOff \in [Writers -> Skills \cup {C!Nothing}]
    /\ asking \in [Writers -> C!Capability \cup {C!Nothing}]
    /\ target \in [Proposals -> C!Capability \cup {C!Nothing}]
    /\ proposal \in [Proposals -> {"none", "pending", "approved", "denied"}]
    /\ opened \in [Reviewers -> Proposals \cup {C!Nothing}]
    /\ answers \in [Proposals -> {0, 1}] /\ revoked \subseteq Tools
    /\ C!RevocationStays /\ C!ReviewedOnce

LEMMA CapabilityInit == MCInit => CapabilityInv
BY EquipmentAssumption
DEF MCInit, C!Init, CapabilityInv, C!RevocationStays, C!ReviewedOnce, C!Attachment,
    C!CapabilitiesAssumption, C!Nothing

LEMMA CapabilityStep == CapabilityInv /\ [C!Next]_capabilityvars => CapabilityInv'
<1> SUFFICES ASSUME CapabilityInv, [C!Next]_capabilityvars PROVE CapabilityInv'
  OBVIOUS
<1>0. C!CapabilitiesAssumption
  BY EquipmentAssumption
<1> USE DEF CapabilityInv, C!RevocationStays, C!ReviewedOnce, C!Attachment
<1>1. CASE UNCHANGED capabilityvars
  BY <1>1 DEF capabilityvars
<1>2. CASE C!AttachTool
  BY <1>2 DEF C!AttachTool, C!Change, C!proposals
<1>3. CASE C!DetachTool
  BY <1>3 DEF C!DetachTool, C!Change, C!proposals
<1>4. CASE C!ChatAddsTools
  BY <1>4 DEF C!ChatAddsTools, C!Change, C!proposals, C!Created
<1>5. CASE C!DetachSkill
  BY <1>5 DEF C!DetachSkill, C!Change, C!proposals
<1>6. ASSUME NEW w \in Writers, C!AttachSkill(w) PROVE CapabilityInv'
  BY <1>0, <1>6 DEF C!AttachSkill, C!Change, C!proposals, C!Created, C!Granted, C!DeclaredFor
<1>7. ASSUME NEW w \in Writers, C!SwitchSkillOff(w) PROVE CapabilityInv'
  BY <1>7 DEF C!SwitchSkillOff, C!proposals
<1>8. ASSUME NEW w \in Writers, C!LookForOpenProposal(w) PROVE CapabilityInv'
  BY <1>8 DEF C!LookForOpenProposal, C!attachments, C!proposals
<1>9. ASSUME NEW w \in Writers, C!CreateProposal(w) PROVE CapabilityInv'
  BY <1>9 DEF C!CreateProposal, C!attachments
<1>10. ASSUME NEW r \in Reviewers, C!OpenReview(r) PROVE CapabilityInv'
  BY <1>10 DEF C!OpenReview, C!attachments, C!proposals
<1>11. ASSUME NEW r \in Reviewers, C!Review(r) PROVE CapabilityInv'
  BY <1>11 DEF C!Review, C!attachments, C!Reviewable, C!Granted
<1> QED
  BY <1>1, <1>2, <1>3, <1>4, <1>5, <1>6, <1>7, <1>8, <1>9, <1>10, <1>11 DEF C!Next
-----------------------------------------------------------------------------
IsEntry(e) == e = [owner |-> e.owner, subject |-> e.subject, value |-> e.value, ref |-> e.ref]
IsRow(row) == row = [status |-> row.status, subject |-> row.subject, contents |-> row.contents]

\* The answers that were written for pair p: none before it is resolved, and one
\* for each coworker.
GivenOnce(p) ==
    /\ \A m \in M!Live : entry[m].ref = p => conflict[p].status = "resolved"
    /\ \A m, n \in M!Live :
          (entry[m].ref = p /\ entry[n].ref = p /\ entry[m].owner = entry[n].owner) => m = n

\* What holds of memories and of the conflicts found between them.
MemoryInv ==
    /\ DOMAIN entry = M!Memories /\ entry = [m \in M!Memories |-> entry[m]]
    /\ \A m \in M!Memories : IsEntry(entry[m])
    /\ conflict = [p \in M!Pairs |-> conflict[p]] /\ \A p \in M!Pairs : IsRow(conflict[p])
    /\ found = [s \in Scans |-> found[s]]
    /\ \A s \in Scans : \A f \in found[s] : IsRow(f[2])
    /\ \A p \in M!Pairs : GivenOnce(p)

\* A conflict is between two memories.
LEMMA PairsAreNotEmpty == \A p \in M!Pairs : p # {}
<1>1. M!Cardinality({}) = Cardinality({})
  BY DEF M!Cardinality, Cardinality
<1>2. M!Cardinality({}) = 0
  BY <1>1, FS_EmptySet
<1> QED
  BY <1>2 DEF M!Pairs

LEMMA MemoryInit == MCInit => MemoryInv
BY PairsAreNotEmpty
DEF MCInit, M!Init, MemoryInv, GivenOnce, M!Live, IsEntry, IsRow, M!NoEntry, M!NoConflict, M!Nothing

\* Memories that are written in answer to nothing, or once in answer to a pair
\* that was open, leave each pair settled once.
LEMMA Written ==
    ASSUME MemoryInv, NEW owners, NEW subject, NEW value, NEW ref, M!Write(owners, subject, value, ref)
    PROVE  /\ entry' = [m \in M!Memories |-> entry'[m]] /\ DOMAIN entry' = M!Memories
           /\ \A m \in M!Memories : IsEntry(entry'[m])
           /\ \A m \in M!Memories : entry'[m] = entry[m] \/ entry'[m].ref = ref
           /\ \A m, n \in M!Memories :
                (entry'[m] # entry[m] /\ entry'[n] # entry[n] /\ entry'[m].owner = entry'[n].owner) => m = n
<1>1. PICK at \in [owners -> written + 1..written + M!Cardinality(owners)] :
         /\ \A c, d \in owners : at[c] = at[d] => c = d
         /\ entry' = [m \in M!Memories |->
                IF \E c \in owners : at[c] = m
                THEN [owner |-> CHOOSE c \in owners : at[c] = m, subject |-> subject,
                      value |-> value, ref |-> ref]
                ELSE entry[m]]
  BY DEF M!Write
<1>2. \A m \in M!Memories :
         \/ entry'[m] = entry[m]
         \/ /\ entry'[m] = [owner |-> entry'[m].owner, subject |-> subject, value |-> value, ref |-> ref]
            /\ entry'[m].owner \in owners /\ at[entry'[m].owner] = m
  BY <1>1
<1> QED
  BY <1>1, <1>2 DEF MemoryInv, IsEntry

\* A step that leaves memories and conflicts alone leaves each pair given once.
LEMMA SameAnswers ==
    ASSUME MemoryInv, UNCHANGED <<entry, conflict>>
    PROVE  \A p \in M!Pairs : GivenOnce(p)'
BY DEF MemoryInv, GivenOnce, M!Live

LEMMA MemoryStep == MemoryInv /\ [M!Next]_memoryvars => MemoryInv'
<1> SUFFICES ASSUME MemoryInv, [M!Next]_memoryvars PROVE MemoryInv'
  OBVIOUS
<1>1. CASE UNCHANGED memoryvars
  BY <1>1 DEF memoryvars, MemoryInv, GivenOnce, M!Live
<1>2. ASSUME NEW c, NEW subject, NEW value, M!Write({c}, subject, value, M!Nothing),
             UNCHANGED <<conflict, found>>
      PROVE  MemoryInv'
  <2>1. \A p \in M!Pairs : GivenOnce(p)'
    BY <1>2, Written, PairsAreNotEmpty DEF MemoryInv, GivenOnce, M!Live, M!Nothing
  <2> QED
    BY <1>2, <2>1, Written DEF MemoryInv
<1>3. CASE M!Remember
  BY <1>2, <1>3 DEF M!Remember
<1>4. CASE M!RememberTurn
  BY <1>2, <1>4 DEF M!RememberTurn
<1>5. CASE M!Edit
  <2>1. \A m \in M!Memories : \/ entry'[m] = M!NoEntry
                              \/ /\ entry[m] # M!NoEntry \/ entry'[m] = entry[m]
                                 /\ IsEntry(entry'[m]) /\ entry'[m].owner = entry[m].owner
                                 /\ entry'[m].ref = entry[m].ref
    <3>1. PICK m \in M!Live : \/ \E v \in Values : entry' = [entry EXCEPT ![m].value = v]
                             \/ entry' = [entry EXCEPT ![m] = M!NoEntry]
      BY <1>5 DEF M!Edit
    <3>2. \A n \in M!Memories \ {m} : entry'[n] = entry[n]
      BY <3>1 DEF MemoryInv
    <3>3. \/ entry'[m] = M!NoEntry
          \/ \E v \in Values : entry'[m] = [entry[m] EXCEPT !.value = v]
      BY <3>1 DEF MemoryInv, M!Live
    <3>4. \A v : /\ IsEntry([entry[m] EXCEPT !.value = v])
                /\ [entry[m] EXCEPT !.value = v].owner = entry[m].owner
                /\ [entry[m] EXCEPT !.value = v].ref = entry[m].ref
      BY DEF MemoryInv, M!Live, IsEntry
    <3>5. \A n \in M!Memories : IsEntry(entry[n])
      BY DEF MemoryInv
    <3> DEFINE Stands(n) == \/ entry'[n] = M!NoEntry
                            \/ /\ entry[n] # M!NoEntry \/ entry'[n] = entry[n]
                               /\ IsEntry(entry'[n]) /\ entry'[n].owner = entry[n].owner
                               /\ entry'[n].ref = entry[n].ref
    <3>6. ASSUME NEW n \in M!Memories, n # m PROVE Stands(n)
      <4>1. entry'[n] = entry[n] /\ IsEntry(entry[n])
        BY <3>2, <3>5, <3>6
      <4> QED
        BY ONLY <4>1
    <3>7. Stands(m)
      <4>1. entry[m] # M!NoEntry
        BY DEF M!Live
      <4> QED
        BY ONLY <3>3, <3>4, <4>1
    <3> QED
      BY ONLY <3>6, <3>7
  <2>2. entry' = [m \in M!Memories |-> entry'[m]] /\ DOMAIN entry' = M!Memories
    BY <1>5 DEF M!Edit, MemoryInv
  <2>3. UNCHANGED <<conflict, found>>
    BY <1>5 DEF M!Edit
  <2>4. IsEntry(M!NoEntry)
    BY DEF IsEntry, M!NoEntry
  <2>5. \A p \in M!Pairs : GivenOnce(p)'
    BY <2>1, <2>3 DEF MemoryInv, GivenOnce, M!Live
  <2> QED
    BY <2>1, <2>2, <2>3, <2>4, <2>5 DEF MemoryInv
<1>6. ASSUME NEW p, NEW row, IsRow(row), M!GetOrCreate(p, row), UNCHANGED entry
      PROVE  /\ conflict' = [q \in M!Pairs |-> conflict'[q]]
             /\ \A q \in M!Pairs : IsRow(conflict'[q]) /\ GivenOnce(q)'
  <2>1. \A q \in M!Pairs : \/ conflict'[q] = conflict[q]
                           \/ conflict[q].status = "none" /\ conflict'[q] = row
    BY <1>6 DEF M!GetOrCreate, MemoryInv
  <2>2. conflict' = [q \in M!Pairs |-> conflict'[q]]
    BY <1>6 DEF M!GetOrCreate, MemoryInv
  <2> QED
    BY <1>6, <2>1, <2>2 DEF MemoryInv, GivenOnce, M!Live
<1>7. CASE M!ReportConflict
  <2>1. PICK p \in M!Pairs, s \in Subjects : M!GetOrCreate(p, M!Row(p, <<s, 0>>))
    BY <1>7 DEF M!ReportConflict
  <2>2. IsRow(M!Row(p, <<s, 0>>))
    BY DEF IsRow, M!Row
  <2>3. UNCHANGED <<entry, found>>
    BY <1>7 DEF M!ReportConflict
  <2> QED
    BY <1>6, <2>1, <2>2, <2>3 DEF MemoryInv
<1>8. ASSUME NEW s \in Scans, M!Scan(s) PROVE MemoryInv'
  <2>1. \A p \in M!Pairs : IsRow(M!Row(p, entry[CHOOSE m \in p : TRUE].subject))
    BY DEF IsRow, M!Row
  <2>2. found' = [t \in Scans |-> found'[t]]
    BY <1>8 DEF M!Scan, MemoryInv
  <2>3. \A t \in Scans : \A f \in found'[t] : IsRow(f[2])
    <3>1. \A t \in Scans \ {s} : found'[t] = found[t]
      BY <1>8 DEF M!Scan, MemoryInv
    <3>2. found'[s] = {<<p, M!Row(p, entry[CHOOSE m \in p : TRUE].subject)>> :
                         p \in {q \in M!Pairs : M!Disagree(q)}}
      BY <1>8 DEF M!Scan, MemoryInv
    <3>3. \A f \in found'[s] : IsRow(f[2])
      BY <2>1, <3>2
    <3> QED
      BY <3>1, <3>3 DEF MemoryInv
  <2> QED
    BY <1>8, <2>2, <2>3, SameAnswers DEF M!Scan, MemoryInv
<1>9. ASSUME NEW s \in Scans, M!CreateFound(s) PROVE MemoryInv'
  <2>1. PICK f \in found[s] : M!GetOrCreate(f[1], f[2]) /\ found' = [found EXCEPT ![s] = @ \ {f}]
    BY <1>9 DEF M!CreateFound
  <2>2. IsRow(f[2]) /\ UNCHANGED entry
    BY <1>9, <2>1 DEF M!CreateFound, MemoryInv
  <2>3. found' = [t \in Scans |-> found'[t]] /\ \A t \in Scans : found'[t] \subseteq found[t]
    BY <2>1 DEF MemoryInv
  <2> QED
    BY <1>6, <2>1, <2>2, <2>3 DEF MemoryInv
<1>10. ASSUME NEW r \in Resolvers, M!OpenConflict(r) PROVE MemoryInv'
  BY <1>10 DEF M!OpenConflict, MemoryInv, GivenOnce, M!Live
<1>11. ASSUME NEW r \in Resolvers, M!Resolve(r) PROVE MemoryInv'
  <2>1. CASE UNCHANGED <<conflict, entry, found>>
    BY <2>1 DEF MemoryInv, GivenOnce, M!Live
  <2>2. ASSUME NEW p, NEW owners, NEW subject, NEW value,
               M!Resolvable(p), M!Write(owners, subject, value, p), UNCHANGED found,
               conflict' = [conflict EXCEPT ![p].status = "resolved"]
        PROVE  MemoryInv'
    <3>1. conflict' = [q \in M!Pairs |-> conflict'[q]]
      BY <2>2 DEF MemoryInv
    <3>2. \A q \in M!Pairs \ {p} : conflict'[q] = conflict[q]
      BY <2>2 DEF MemoryInv
    <3>3. p \in M!Pairs => IsRow(conflict'[p]) /\ conflict'[p].status = "resolved"
      BY <2>2 DEF MemoryInv, IsRow
    <3>4. p \in M!Pairs => \A m \in M!Live : entry[m].ref # p
      BY <2>2 DEF MemoryInv, GivenOnce, M!Resolvable
    <3>5. \A q \in M!Pairs \ {p} : GivenOnce(q)'
      BY <2>2, <3>2, Written DEF MemoryInv, GivenOnce, M!Live
    <3>6. p \in M!Pairs => GivenOnce(p)'
      <4>1. \A m \in M!Memories : (entry'[m] # M!NoEntry /\ entry'[m].ref = p /\ p \in M!Pairs)
                                   => entry'[m] # entry[m]
        BY <3>4 DEF M!Live
      <4>2. \A m, n \in M!Memories :
               (entry'[m] # entry[m] /\ entry'[n] # entry[n] /\ entry'[m].owner = entry'[n].owner)
                  => m = n
        BY <2>2, Written
      <4> QED
        BY <3>3, <4>1, <4>2 DEF GivenOnce, M!Live
    <3>7. \A q \in M!Pairs : IsRow(conflict'[q]) /\ GivenOnce(q)'
      BY <3>2, <3>3, <3>5, <3>6 DEF MemoryInv
    <3>8. /\ entry' = [m \in M!Memories |-> entry'[m]] /\ DOMAIN entry' = M!Memories
          /\ \A m \in M!Memories : IsEntry(entry'[m])
      BY <2>2, Written
    <3> QED
      BY <2>2, <3>1, <3>7, <3>8 DEF MemoryInv
  <2> QED
    BY <1>11, <2>1, <2>2 DEF M!Resolve
<1> QED
  BY <1>1, <1>3, <1>4, <1>5, <1>7, <1>8, <1>9, <1>10, <1>11 DEF M!Next
-----------------------------------------------------------------------------
Steps == {"pay", "visit", "resolve", "install", "root"}
Items == [do : Steps, arg : Orders \cup Versions \cup Listings]

\* The publisher of version v is owed for it.
PaidFor(v) == \E o \in payouts : order[o].version = v

\* Something of listing l is installed, or what is to be done before i installs it.
Coming(s, i, l) ==
    \/ \E d \in installed : ListingOf[d] = l
    \/ \E j \in 1..i - 1 : s[j] = Item("resolve", l)
    \/ \E j \in 1..i - 1 : s[j].do = "install" /\ ListingOf[s[j].arg] = l

\* What the version of step i needs is coming, or is to be looked for first.
Ready(s, i) ==
    \/ \E j \in 1..i - 1 : s[j] = Item("visit", s[i].arg)
    \/ \A n \in DOMAIN manifest[s[i].arg].dependencies :
           Coming(s, i, manifest[s[i].arg].dependencies[n])

\* What a member asked for by name is free or paid, or its payment comes first.
Funded(s, i) ==
    \/ ListingOf[s[i].arg] \notin Paid
    \/ PaidFor(s[i].arg)
    \/ i > 1 /\ s[1].do = "pay" /\ order[s[1].arg].version = s[i].arg

\* What a request has still to do, the step at i of s.
StepOK(s, i) ==
    /\ s[i].do = "pay" => i = 1 /\ s[i].arg \in Orders /\ order[s[i].arg].status # "none"
    /\ s[i].do = "resolve" => s[i].arg \in Listings
    /\ s[i].do \in {"visit", "install", "root"} => s[i].arg \in Versions /\ review[s[i].arg] # "none"
    /\ s[i].do \in {"install", "root"} => Ready(s, i)
    /\ s[i].do = "root" => Funded(s, i)

StepsOK(s) == s \in Seq(Items) /\ \A i \in DOMAIN s : StepOK(s, i)

\* A payment that was read as made is owed to the publisher.
ReadOK(q) ==
    (todo[q] # <<>> /\ todo[q][1].do = "pay" /\ read[q] = "paid") => todo[q][1].arg \in payouts

IsOrder(o) ==
    /\ order[o] = [status |-> order[o].status, version |-> order[o].version, buyer |-> order[o].buyer]
    /\ order[o].status # "none" => order[o].version \in Versions /\ review[order[o].version] # "none"

CatalogOK ==
    /\ review \in [Versions -> {"none", "pending", "approved"}]
    /\ manifest \in [Versions -> [dependencies : Seq(Listings), risky : BOOLEAN]]
    /\ latest \in [Listings -> Versions \cup {None}]
    /\ \A l \in Listings : latest[l] # None =>
          latest[l] \in Versions /\ ListingOf[latest[l]] = l /\ Approved(latest[l])

SalesOK ==
    /\ order = [o \in Orders |-> order[o]] /\ \A o \in Orders : IsOrder(o)
    /\ payouts \subseteq Orders /\ PaidIsPaidOut

RequestsOK ==
    /\ todo = [q \in Requests |-> todo[q]] /\ read = [q \in Requests |-> read[q]]
    /\ \A q \in Requests : StepsOK(todo[q]) /\ ReadOK(q)

\* What holds of the Marketplace.
MarketInv ==
    /\ CatalogOK /\ SalesOK /\ RequestsOK
    /\ installed \subseteq Versions /\ InstalledIsWhole

LEMMA MarketInit == MCInit => MarketInv
<1> SUFFICES ASSUME MCInit PROVE MarketInv
  OBVIOUS
<1>1. Init
  BY DEF MCInit
<1>2. CatalogOK
  BY <1>1, MarketplaceAssumption DEF Init, CatalogOK
<1>3. SalesOK
  BY <1>1 DEF Init, SalesOK, IsOrder, PaidIsPaidOut, NoOrder
<1>4. RequestsOK
  BY <1>1 DEF Init, RequestsOK, StepsOK, ReadOK
<1> QED
  BY <1>1, <1>2, <1>3, <1>4 DEF Init, MarketInv, InstalledIsWhole

\* What no step takes back.
Lasting ==
    /\ \A v \in Versions : review[v] # "none" => review'[v] = review[v] /\ manifest'[v] = manifest[v]
    /\ installed \subseteq installed' /\ payouts \subseteq payouts'
    /\ \A o \in Orders : order[o].status # "none" =>
          order'[o].status # "none" /\ order'[o].version = order[o].version

\* A step that is in order stays so.
LEMMA StepsLast ==
    ASSUME MarketInv, Lasting, NEW s, StepsOK(s)
    PROVE  StepsOK(s)'
<1>1. \A v \in Versions : PaidFor(v) => PaidFor(v)'
  BY DEF PaidFor, Lasting, MarketInv, SalesOK, PaidIsPaidOut
<1>2. s \in Seq(Items) /\ \A i \in DOMAIN s : i \in Nat /\ (i > 1 => 1 \in DOMAIN s)
  BY DEF StepsOK
<1> SUFFICES ASSUME NEW i \in DOMAIN s PROVE StepOK(s, i)'
  BY <1>2 DEF StepsOK
<1>3. StepOK(s, i)
  BY DEF StepsOK
<1>4. (s[i].do = "pay" => i = 1 /\ s[i].arg \in Orders /\ order[s[i].arg].status # "none")'
  BY <1>3 DEF StepOK, Lasting
<1>5. (s[i].do \in {"visit", "install", "root"} => s[i].arg \in Versions /\ review[s[i].arg] # "none")'
  BY <1>3 DEF StepOK, Lasting
<1>6. (s[i].do \in {"install", "root"} => Ready(s, i))'
  BY <1>3 DEF StepOK, Ready, Coming, Lasting
<1>7. (s[i].do = "root" => Funded(s, i))'
  <2>1. SUFFICES ASSUME s[i].do = "root", i > 1, s[1].do = "pay",
                        order[s[1].arg].version = s[i].arg
                 PROVE  (order[s[1].arg].version = s[i].arg)'
    BY <1>1, <1>3 DEF StepOK, Funded
  <2>2. StepOK(s, 1)
    BY <1>2, <2>1 DEF StepsOK
  <2> QED
    BY <2>1, <2>2 DEF StepOK, Lasting
<1> QED
  BY <1>3, <1>4, <1>5, <1>6, <1>7 DEF StepOK

\* What is done next is replaced by t.
LEMMA ConcatTail ==
    ASSUME NEW S, NEW s \in Seq(S), s # <<>>, NEW t \in Seq(S)
    PROVE  /\ t \o Tail(s) \in Seq(S) /\ DOMAIN (t \o Tail(s)) = 1..Len(t) + Len(s) - 1
           /\ \A i \in 1..Len(t) : (t \o Tail(s))[i] = t[i]
           /\ \A i \in 1..Len(t) + Len(s) - 1 : i > Len(t) =>
                 (t \o Tail(s))[i] = s[i - Len(t) + 1]
<1>1. /\ Tail(s) \in Seq(S) /\ Len(Tail(s)) = Len(s) - 1 /\ Len(s) \in Nat \ {0} /\ Len(t) \in Nat
      /\ \A i \in 1..Len(Tail(s)) : Tail(s)[i] = s[i + 1]
  BY HeadTailProperties, LenProperties
<1>2. /\ t \o Tail(s) \in Seq(S) /\ Len(t \o Tail(s)) = Len(t) + Len(Tail(s))
      /\ \A i \in 1..Len(t) + Len(Tail(s)) :
            (t \o Tail(s))[i] = IF i <= Len(t) THEN t[i] ELSE Tail(s)[i - Len(t)]
  BY <1>1, ConcatProperties
<1> QED
  BY <1>1, <1>2

\* A step that is ready stays so when another sequence does as much before it.
LEMMA SameFront ==
    ASSUME NEW s, NEW i, NEW u, NEW k, u[k] = s[i],
           \A j \in 1..i - 1 : \E n \in 1..k - 1 : u[n] = s[j]
    PROVE  Ready(s, i)' => Ready(u, k)'
<1>1. ASSUME NEW l, Coming(s, i, l)' PROVE Coming(u, k, l)'
  BY <1>1 DEF Coming
<1> QED
  BY <1>1 DEF Ready

\* A request that goes on: t is in order, and what relied on the step that was
\* done can rely on t.
Replaces(s, t) ==
    /\ \A i \in 1..Len(t) : StepOK(t, i)' /\ t[i].do # "root" /\ t[i].do # "pay"
    /\ s[1].do = "pay" => t = <<>> /\ PaidFor(order[s[1].arg].version)'
    /\ s[1].do = "visit" =>
          \A n \in DOMAIN manifest[s[1].arg].dependencies :
             \E j \in 1..Len(t) : t[j] = Item("resolve", manifest[s[1].arg].dependencies[n])
    /\ s[1].do = "resolve" =>
          \E j \in 1..Len(t) : t[j].do = "install" /\ ListingOf[t[j].arg] = s[1].arg
    /\ s[1].do = "install" => \E d \in installed' : ListingOf[d] = ListingOf[s[1].arg]

\* A first step that is replaced by others, or is done, leaves a stack that can go on.
LEMMA GoesOn ==
    ASSUME MarketInv, Lasting, NEW s, StepsOK(s), s # <<>>,
           NEW t \in Seq(Items), NEW u, u = t \o Tail(s), Replaces(s, t)
    PROVE  StepsOK(u)' /\ (u # <<>> => u[1].do # "pay")
<1>1. /\ u \in Seq(Items) /\ DOMAIN u = 1..Len(t) + Len(s) - 1
      /\ \A i \in 1..Len(t) : u[i] = t[i]
      /\ \A i \in 1..Len(t) + Len(s) - 1 : i > Len(t) => u[i] = s[i - Len(t) + 1]
      /\ Len(t) \in Nat /\ Len(s) \in Nat \ {0} /\ DOMAIN s = 1..Len(s)
  BY ConcatTail, LenProperties DEF StepsOK
<1>2. \A i \in 1..Len(s) : StepOK(s, i) /\ StepOK(s, i)'
  BY StepsLast, <1>1 DEF StepsOK
<1>3. \A i \in 2..Len(s) : s[i].do # "pay"
  BY <1>2 DEF StepOK
<1>4. ASSUME NEW i \in 1..Len(t) PROVE StepOK(u, i)'
  <2>1. StepOK(t, i)' /\ t[i].do # "root" /\ u[i] = t[i] /\ \A j \in 1..i - 1 : u[j] = t[j]
    BY <1>1 DEF Replaces
  <2>2. \A j \in 1..i - 1 : \E n \in 1..i - 1 : u[n] = t[j]
    BY <2>1
  <2>3. Ready(t, i)' => Ready(u, i)'
    BY ONLY <2>1, <2>2, SameFront
  <2> QED
    BY <2>1, <2>3 DEF StepOK
<1>5. ASSUME NEW i \in 2..Len(s) PROVE StepOK(u, Len(t) + i - 1)'
  <2> DEFINE k == Len(t) + i - 1
  <2>1. /\ k \in 1..Len(t) + Len(s) - 1 /\ u[k] = s[i]
        /\ \A j \in 2..i - 1 : Len(t) + j - 1 \in 1..k - 1 /\ u[Len(t) + j - 1] = s[j]
        /\ \A j \in 1..Len(t) : j \in 1..k - 1 /\ u[j] = t[j]
    <3>1. k \in 1..Len(t) + Len(s) - 1 /\ k > Len(t) /\ k - Len(t) + 1 = i
      BY ONLY <1>1, i \in 2..Len(s) DEF k
    <3>2. \A j \in 2..i - 1 : /\ Len(t) + j - 1 \in 1..Len(t) + Len(s) - 1 /\ Len(t) + j - 1 > Len(t)
                              /\ (Len(t) + j - 1) - Len(t) + 1 = j /\ Len(t) + j - 1 \in 1..k - 1
      BY ONLY <1>1, i \in 2..Len(s) DEF k
    <3>3. \A j \in 1..Len(t) : j \in 1..k - 1 /\ u[j] = t[j]
      BY ONLY <1>1, <3>1
    <3>4. u[k] = s[i]
      BY ONLY <1>1, <3>1
    <3>5. \A j \in 2..i - 1 : u[Len(t) + j - 1] = s[j]
      BY ONLY <1>1, <3>2
    <3> QED
      BY <3>1, <3>2, <3>3, <3>4, <3>5
  <2>2. StepOK(s, i)' /\ s[i].do # "pay"
    BY <1>2, <1>3
  <2> HIDE DEF k
  <2>3. ASSUME NEW l, Coming(s, i, l)' PROVE Coming(u, k, l)'
    <3>1. CASE \E d \in installed' : ListingOf[d] = l
      BY <3>1 DEF Coming
    <3>2. CASE \E j \in 2..i - 1 : s[j] = Item("resolve", l)
      <4>1. \E j \in 1..k - 1 : u[j] = Item("resolve", l)
        BY <2>1, <3>2
      <4> QED
        BY <4>1 DEF Coming
    <3>3. CASE \E j \in 2..i - 1 : s[j].do = "install" /\ ListingOf[s[j].arg] = l
      <4>1. \E j \in 1..k - 1 : u[j].do = "install" /\ ListingOf[u[j].arg] = l
        <5>1. PICK j \in 2..i - 1 : s[j].do = "install" /\ ListingOf[s[j].arg] = l
          BY ONLY <3>3
        <5>2. PICK n \in 1..k - 1 : u[n] = s[j]
          BY ONLY <2>1, j \in 2..i - 1
        <5> QED
          BY <5>1, <5>2
      <4> QED
        BY <4>1 DEF Coming
    <3>4. CASE s[1] = Item("resolve", l)
      <4>1. s[1].do = "resolve" /\ s[1].arg = l
        BY <3>4 DEF Item
      <4>2. \E j \in 1..k - 1 : u[j].do = "install" /\ ListingOf[u[j].arg] = l
        BY <2>1, <4>1 DEF Replaces
      <4> QED
        BY <4>2 DEF Coming
    <3>5. CASE s[1].do = "install" /\ ListingOf[s[1].arg] = l
      BY <3>5 DEF Coming, Replaces
    <3>6. \A j \in 1..i - 1 : j = 1 \/ j \in 2..i - 1
      BY <1>1
    <3> QED
      BY ONLY <2>3, <3>1, <3>2, <3>3, <3>4, <3>5, <3>6 DEF Coming
  <2>4. ASSUME Ready(s, i)', s[i].arg \in Versions, review[s[i].arg] # "none" PROVE Ready(u, k)'
    <3>1. CASE \E j \in 2..i - 1 : s[j] = Item("visit", s[i].arg)
      BY <2>1, <3>1 DEF Ready
    <3>2. CASE s[1] = Item("visit", s[i].arg)
      <4>1. s[1].do = "visit" /\ s[1].arg = s[i].arg
        BY <3>2 DEF Item
      <4>2. manifest'[s[i].arg] = manifest[s[i].arg]
        BY <2>4 DEF Lasting
      <4>3. ASSUME NEW n \in DOMAIN manifest[s[i].arg].dependencies
            PROVE  \E j \in 1..k - 1 : u[j] = Item("resolve", manifest[s[i].arg].dependencies[n])
        BY <2>1, <4>1 DEF Replaces
      <4> QED
        BY ONLY <2>1, <4>2, <4>3 DEF Ready, Coming
    <3>3. CASE \A n \in DOMAIN manifest'[s[i].arg].dependencies :
                  Coming(s, i, manifest[s[i].arg].dependencies[n])'
      BY <2>1, <2>3, <3>3 DEF Ready
    <3>4. \A j \in 1..i - 1 : j = 1 \/ j \in 2..i - 1
      BY <1>1
    <3> QED
      BY ONLY <2>4, <3>1, <3>2, <3>3, <3>4 DEF Ready
  <2>5. ASSUME Funded(s, i)' PROVE Funded(u, k)'
    BY <1>2, <2>1, <2>5 DEF Funded, Replaces
  <2>6. s[i].do \in {"install", "root"} => s[i].arg \in Versions /\ review[s[i].arg] # "none"
    BY <1>2, <1>1 DEF StepOK
  <2> QED
    BY <2>1, <2>2, <2>4, <2>5, <2>6 DEF StepOK, k
<1>6. \A i \in DOMAIN u : StepOK(u, i)'
  BY <1>1, <1>4, <1>5
<1>7. u # <<>> => u[1].do # "pay"
  BY <1>1, <1>3 DEF Replaces
<1> QED
  BY <1>1, <1>6, <1>7 DEF StepsOK

\* The steps of requests leave the catalog as it is, and the other requests.
LEMMA OneRequestMoves ==
    ASSUME MarketInv, Lasting, NEW q \in Requests, NEW u, StepsOK(u)', ReadOK(q)',
           todo' = [todo EXCEPT ![q] = u],
           \A p \in Requests \ {q} : read'[p] = read[p], read' = [p \in Requests |-> read'[p]]
    PROVE  RequestsOK'
<1>1. todo' = [p \in Requests |-> todo'[p]] /\ todo'[q] = u
      /\ \A p \in Requests \ {q} : todo'[p] = todo[p]
  BY DEF MarketInv, RequestsOK
<1>2. ASSUME NEW p \in Requests \ {q} PROVE StepsOK(todo[p])' /\ ReadOK(p)'
  <2>1. StepsOK(todo[p]) /\ ReadOK(p)
    BY DEF MarketInv, RequestsOK
  <2>2. \A s : StepsOK(s) => StepsOK(s)'
    BY StepsLast
  <2>3. StepsOK(todo[p])'
    BY ONLY <2>1, <2>2, <1>1, p \in Requests \ {q}
  <2>4. ReadOK(p)'
    BY <1>1, <2>1 DEF ReadOK, Lasting
  <2> QED
    BY <2>3, <2>4
<1> QED
  BY <1>1, <1>2 DEF RequestsOK

\* Requests that do nothing stay in order.
LEMMA RequestsLast ==
    ASSUME MarketInv, Lasting, UNCHANGED <<todo, read>>
    PROVE  RequestsOK'
<1>1. ASSUME NEW p \in Requests PROVE StepsOK(todo[p])' /\ ReadOK(p)'
  <2>1. StepsOK(todo[p]) /\ ReadOK(p)
    BY DEF MarketInv, RequestsOK
  <2>2. \A s : StepsOK(s) => StepsOK(s)'
    BY StepsLast
  <2>3. StepsOK(todo[p])'
    BY ONLY <2>1, <2>2, UNCHANGED <<todo, read>>
  <2> QED
    BY <2>1, <2>3 DEF ReadOK, Lasting
<1> QED
  BY <1>1 DEF MarketInv, RequestsOK

\* A version that is published, a fork that is installed at once too.
LEMMA PublishedOK ==
    ASSUME MarketInv, NEW v \in Versions,
           NEW content \in [dependencies : Seq(Listings), risky : BOOLEAN], Published(v, content),
           installed \subseteq installed', installed' \subseteq Versions,
           installed' \ forked' \subseteq installed \ forked,
           UNCHANGED <<order, payouts, asked, todo, read>>
    PROVE  MarketInv'
<1>1. /\ review[v] = "none" /\ manifest' = [manifest EXCEPT ![v] = content]
      /\ \A w \in Versions \ {v} : review'[w] = review[w] /\ manifest'[w] = manifest[w]
      /\ review'[v] \in {"approved", "pending"} /\ ListingOf[v] \in Listings
      /\ review' \in [Versions -> {"none", "pending", "approved"}]
  BY MarketplaceAssumption DEF Published, MarketInv, CatalogOK
<1>2. Lasting
  BY <1>1 DEF Lasting, MarketInv, SalesOK
<1>3. CatalogOK'
  <2>1. manifest' \in [Versions -> [dependencies : Seq(Listings), risky : BOOLEAN]]
    BY <1>1 DEF MarketInv, CatalogOK
  <2>2. \/ latest' = latest
        \/ /\ latest' = [latest EXCEPT ![ListingOf[v]] = v] /\ review'[v] = "approved"
    BY <1>1 DEF Published, MarketInv, CatalogOK
  <2>3. CASE latest' = latest
    BY <1>1, <2>1, <2>3 DEF MarketInv, CatalogOK, Approved
  <2>4. CASE latest' = [latest EXCEPT ![ListingOf[v]] = v] /\ review'[v] = "approved"
    <3>1. \A l \in Listings : \/ latest'[l] = latest[l]
                              \/ latest'[l] = v /\ ListingOf[v] = l
      <4>1. latest \in [Listings -> Versions \cup {None}]
        BY DEF MarketInv, CatalogOK
      <4> QED
        BY ONLY <2>4, <4>1
    <3>2. latest' \in [Listings -> Versions \cup {None}]
      BY <2>4 DEF MarketInv, CatalogOK
    <3> QED
      BY <1>1, <2>1, <2>4, <3>1, <3>2 DEF MarketInv, CatalogOK, Approved
  <2> QED
    BY <2>2, <2>3, <2>4
<1>4. SalesOK'
  BY <1>1 DEF MarketInv, SalesOK, IsOrder, PaidIsPaidOut
<1>5. RequestsOK'
  BY <1>2, RequestsLast
<1>6. InstalledIsWhole'
  BY <1>1 DEF MarketInv, InstalledIsWhole, Approved
<1> QED
  BY <1>3, <1>4, <1>5, <1>6 DEF MarketInv

LEMMA MarketStep == MarketInv /\ [Next]_marketvars => MarketInv'
<1> SUFFICES ASSUME MarketInv, [Next]_marketvars PROVE MarketInv'
  OBVIOUS
<1>1. ASSUME UNCHANGED <<review, manifest, latest, installed, forked>>, Lasting, SalesOK', RequestsOK'
      PROVE  MarketInv'
  BY <1>1 DEF MarketInv, CatalogOK, InstalledIsWhole, Approved
<1>2. ASSUME UNCHANGED <<order, payouts, asked>>, UNCHANGED review PROVE SalesOK'
  BY <1>2 DEF MarketInv, SalesOK, IsOrder, PaidIsPaidOut
<1>3. CASE UNCHANGED marketvars
  <2>1. Lasting
    BY <1>3 DEF Lasting, marketvars, listings, workspace, sales
  <2> QED
    BY <1>1, <1>2, <1>3, <2>1, RequestsLast DEF marketvars, listings, workspace, sales, request
<1>4. CASE Publish
  <2>1. PICK v \in Versions : Published(v, manifest[v])
    BY <1>4 DEF Publish
  <2>2. manifest[v] \in [dependencies : Seq(Listings), risky : BOOLEAN]
    BY DEF MarketInv, CatalogOK
  <2> QED
    BY <1>4, <2>1, <2>2, PublishedOK DEF Publish, MarketInv, workspace, sales, request
<1>5. CASE Fork
  <2>1. PICK source, copy \in Versions :
           /\ Published(copy, manifest[source])
           /\ installed' = installed \cup {copy} /\ forked' = forked \cup {copy}
    BY <1>5 DEF Fork
  <2>2. manifest[source] \in [dependencies : Seq(Listings), risky : BOOLEAN]
    BY DEF MarketInv, CatalogOK
  <2> QED
    BY <1>5, <2>1, <2>2, PublishedOK DEF Fork, MarketInv, sales, request
<1>6. CASE Checkout
  <2>1. PICK o \in Orders, l \in Paid, m \in Members :
           /\ order[o].status = "none" /\ latest[l] # None
           /\ order' = [order EXCEPT ![o] =
                 [status |-> "pending", version |-> latest[l], buyer |-> m]]
    BY <1>6 DEF Checkout
  <2>2. l \in Listings /\ latest[l] \in Versions /\ review[latest[l]] = "approved"
    BY <2>1, MarketplaceAssumption DEF MarketInv, CatalogOK, Approved
  <2>3. /\ order' = [p \in Orders |-> order'[p]] /\ \A p \in Orders \ {o} : order'[p] = order[p]
        /\ order'[o] = [status |-> "pending", version |-> latest[l], buyer |-> m]
    BY <2>1 DEF MarketInv, SalesOK
  <2>4. UNCHANGED <<review, manifest, latest, installed, forked, payouts, asked, todo, read>>
    BY <1>6 DEF Checkout, listings, workspace, request
  <2>5. Lasting
    BY <2>1, <2>3, <2>4 DEF Lasting
  <2>6. o \notin payouts
    BY <2>1 DEF MarketInv, SalesOK, PaidIsPaidOut
  <2>7. SalesOK'
    BY <2>2, <2>3, <2>4, <2>6 DEF MarketInv, SalesOK, IsOrder, PaidIsPaidOut
  <2> QED
    BY <1>1, <2>4, <2>5, <2>7, RequestsLast
<1>7. ASSUME NEW q \in Requests, NEW items, NEW m, Begin(q, m, items), StepsOK(items),
             items[1].do = "pay" => (read'[q] = "paid" => items[1].arg \in payouts),
             \E status : read' = [read EXCEPT ![q] = status],
             UNCHANGED <<review, manifest, latest, installed, forked, order, payouts, asked>>
      PROVE  MarketInv'
  <2>1. Lasting
    BY <1>7 DEF Lasting
  <2>2. /\ todo' = [todo EXCEPT ![q] = items] /\ read' = [p \in Requests |-> read'[p]]
        /\ \A p \in Requests \ {q} : read'[p] = read[p]
    BY <1>7 DEF Begin, MarketInv, RequestsOK
  <2>3. todo'[q] = items
    BY <2>2 DEF MarketInv, RequestsOK
  <2>4. ReadOK(q)'
    BY <1>7, <2>3 DEF ReadOK
  <2>5. StepsOK(items)'
    BY <1>7, <2>1, StepsLast
  <2> QED
    BY <1>1, <1>2, <1>7, <2>1, <2>2, <2>4, <2>5, OneRequestMoves
<1>8. ASSUME NEW v \in Versions, review[v] # "none", ListingOf[v] \in Paid => PaidFor(v)
      PROVE  StepsOK(Whole(v)) /\ Whole(v)[1].do # "pay"
  <2>1. /\ Whole(v) = <<Item("visit", v), Item("root", v)>> /\ Item("visit", v) \in Items
        /\ Item("root", v) \in Items
    BY DEF Whole, Item, Items, Steps
  <2>2. /\ Whole(v) \in Seq(Items) /\ DOMAIN Whole(v) = 1..2
        /\ Whole(v)[1] = Item("visit", v) /\ Whole(v)[2] = Item("root", v)
    BY ONLY <2>1
  <2>3. StepOK(Whole(v), 1)
    BY <1>8, <2>2 DEF StepOK, Item
  <2>4. StepOK(Whole(v), 2)
    BY <1>8, <2>2 DEF StepOK, Item, Ready, Funded
  <2> QED
    BY <2>2, <2>3, <2>4 DEF StepsOK, Item
<1>9. ASSUME NEW q \in Requests, BeginInstall(q) PROVE MarketInv'
  <2>1. PICK v \in Versions, m \in Members :
           /\ review[v] # "none"
           /\ ListingOf[v] \in Paid => \E o \in Orders : order[o].status = "paid" /\ order[o].version = v
           /\ Begin(q, m, Whole(v))
    BY <1>9 DEF BeginInstall
  <2>2. ListingOf[v] \in Paid => PaidFor(v)
    BY <2>1 DEF PaidFor, MarketInv, SalesOK, PaidIsPaidOut
  <2> QED
    BY <1>7, <1>8, <1>9, <2>1, <2>2 DEF BeginInstall, listings, workspace, sales
<1>10. ASSUME NEW q \in Requests, BeginWebhook(q) PROVE MarketInv'
  <2>1. PICK o \in Orders :
           /\ order[o].status # "none" /\ read' = [read EXCEPT ![q] = order[o].status]
           /\ Begin(q, order[o].buyer, <<Item("pay", o)>> \o Whole(order[o].version))
    BY <1>10 DEF BeginWebhook
  <2> DEFINE v == order[o].version
             s == <<Item("pay", o)>> \o Whole(v)
  <2>2. v \in Versions /\ review[v] # "none"
    BY <2>1 DEF MarketInv, SalesOK, IsOrder
  <2>3. /\ Item("pay", o) \in Items /\ Item("visit", v) \in Items /\ Item("root", v) \in Items
        /\ <<Item("pay", o)>> \in Seq(Items) /\ Whole(v) \in Seq(Items) /\ Len(Whole(v)) = 2
        /\ Whole(v)[1] = Item("visit", v) /\ Whole(v)[2] = Item("root", v)
    BY <2>2, <1>8 DEF Whole, Item, Items, Steps
  <2>4. /\ s \in Seq(Items) /\ DOMAIN s = 1..3 /\ s[1] = Item("pay", o)
        /\ s[2] = Item("visit", v) /\ s[3] = Item("root", v)
    BY ONLY <2>3, ConcatProperties
  <2> HIDE DEF v, s
  <2>5. StepOK(s, 1)
    BY <2>1, <2>4 DEF StepOK, Item
  <2>6. StepOK(s, 2)
    BY <2>2, <2>4 DEF StepOK, Item
  <2>7. StepOK(s, 3)
    <3>1. Ready(s, 3)
      BY <2>4 DEF Ready, Item
    <3>2. Funded(s, 3)
      BY <2>4 DEF Funded, Item, v
    <3> QED
      BY <2>2, <2>4, <3>1, <3>2 DEF StepOK, Item
  <2>8. StepsOK(s)
    BY <2>4, <2>5, <2>6, <2>7 DEF StepsOK
  <2>9. read'[q] = "paid" => o \in payouts
    BY <2>1 DEF MarketInv, SalesOK, PaidIsPaidOut, RequestsOK
  <2>10. Begin(q, order[o].buyer, s)
    BY <2>1 DEF s, v
  <2>11. UNCHANGED <<review, manifest, latest, installed, forked, order, payouts, asked>>
    BY <1>10 DEF BeginWebhook, listings, workspace, sales
  <2>12. s[1].do = "pay" => (read'[q] = "paid" => s[1].arg \in payouts)
    BY <2>4, <2>9 DEF Item
  <2> QED
    BY <1>7, <2>1, <2>8, <2>10, <2>11, <2>12
\* A request that stops, and one that goes on with t in place of its next step.
<1>11. ASSUME NEW q \in Requests, Refuse(q), Lasting, UNCHANGED read PROVE RequestsOK'
  <2>1. StepsOK(<<>>)' /\ todo' = [todo EXCEPT ![q] = <<>>]
    BY <1>11 DEF Refuse, StepsOK
  <2>2. ReadOK(q)'
    BY <2>1 DEF ReadOK, MarketInv, RequestsOK
  <2> QED
    BY <1>11, <2>1, <2>2, OneRequestMoves DEF MarketInv, RequestsOK
<1>12. ASSUME NEW q \in Requests, NEW t, NEW u, u = t \o Tail(todo[q]), Continue(q, t), Lasting,
              UNCHANGED read, StepsOK(u)', u # <<>> => u[1].do # "pay"
       PROVE  RequestsOK'
  <2>1. todo' = [todo EXCEPT ![q] = u] /\ todo'[q] = u
    BY <1>12 DEF Continue, MarketInv, RequestsOK
  <2>2. ReadOK(q)'
    BY <1>12, <2>1 DEF ReadOK
  <2> QED
    BY <1>12, <2>1, <2>2, OneRequestMoves DEF MarketInv, RequestsOK
<1>13. ASSUME NEW q \in Requests, todo[q] # <<>>
       PROVE  /\ StepsOK(todo[q]) /\ ReadOK(q) /\ todo[q] \in Seq(Items)
              /\ Head(todo[q]) = todo[q][1] /\ StepOK(todo[q], 1) /\ Len(todo[q]) \in Nat \ {0}
  BY <1>13 DEF MarketInv, RequestsOK, StepsOK
<1>14. ASSUME NEW q \in Requests, Pay(q) PROVE MarketInv'
  <2>0. PICK o, s : s = todo[q] /\ o = todo[q][1].arg
    OBVIOUS
  <2>1. todo[q] # <<>> /\ todo[q][1].do = "pay" /\ Head(todo[q]).arg = o /\ o \in Orders
        /\ order[o].status # "none"
    BY <1>13, <1>14, <2>0 DEF Pay, Doing, StepOK
  <2>2. UNCHANGED <<review, manifest, latest, installed, forked, asked, read>>
    BY <1>14 DEF Pay, listings, workspace
  <2>3. ASSUME Lasting, SalesOK', PaidFor(order[o].version)', Continue(q, <<>>) PROVE MarketInv'
    <3>1. PICK u : u = <<>> \o Tail(todo[q])
      OBVIOUS
    <3>2. StepsOK(u)' /\ (u # <<>> => u[1].do # "pay")
      <4>1. /\ u = <<>> \o Tail(s) /\ StepsOK(s) /\ s # <<>> /\ <<>> \in Seq(Items) /\ Len(<<>>) = 0
            /\ s[1].do = "pay" /\ s[1].arg = o
        BY <1>13, <2>0, <2>1, <3>1
      <4>2. Replaces(s, <<>>)
        BY <2>3, <4>1 DEF Replaces
      <4> QED
        BY <2>3, <4>1, <4>2, GoesOn
    <3>3. RequestsOK'
      BY <1>12, <2>2, <2>3, <3>1, <3>2
    <3> QED
      BY <1>1, <2>2, <2>3, <3>3
  <2>4. CASE UNCHANGED <<order, payouts>> /\ read[q] = "paid" /\ Continue(q, <<>>)
    <3>1. Lasting
      BY <2>2, <2>4 DEF Lasting
    <3>2. o \in payouts'
      BY <1>13, <2>0, <2>1, <2>4 DEF ReadOK
    <3>3. PaidFor(order[o].version)'
      BY <3>2, <2>4 DEF PaidFor
    <3> QED
      BY <1>2, <2>2, <2>3, <2>4, <3>1, <3>3
  <2>5. CASE UNCHANGED <<order, payouts>> /\ Refuse(q)
    <3>1. Lasting
      BY <2>2, <2>5 DEF Lasting
    <3> QED
      BY <1>1, <1>2, <1>11, <2>2, <2>5, <3>1
  <2>6. CASE /\ order' = [order EXCEPT ![o].status = "paid"]
             /\ payouts' = payouts \cup {o} /\ Continue(q, <<>>)
    <3>1. /\ order' = [p \in Orders |-> order'[p]] /\ \A p \in Orders \ {o} : order'[p] = order[p]
          /\ order'[o] = [order[o] EXCEPT !.status = "paid"]
      BY <2>1, <2>6 DEF MarketInv, SalesOK
    <3>2. IsOrder(o)
      BY <2>1 DEF MarketInv, SalesOK
    <3>3. order'[o] = [status |-> "paid", version |-> order[o].version, buyer |-> order[o].buyer]
      BY <3>1, <3>2 DEF IsOrder
    <3>4. Lasting
      BY <2>2, <2>6, <3>1, <3>3 DEF Lasting
    <3>5. SalesOK'
      BY <2>1, <2>2, <2>6, <3>1, <3>2, <3>3 DEF MarketInv, SalesOK, IsOrder, PaidIsPaidOut
    <3>6. PaidFor(order[o].version)'
      BY <2>6, <2>1 DEF PaidFor
    <3> QED
      BY <2>3, <2>6, <3>4, <3>5, <3>6
  <2> QED
    BY <1>14, <2>1, <2>4, <2>5, <2>6 DEF Pay, sales
<1>15. ASSUME NEW q \in Requests, Visit(q) PROVE MarketInv'
  <2>0. PICK v, s : s = todo[q] /\ v = todo[q][1].arg
    OBVIOUS
  <2>a. PICK needs, t : /\ needs = manifest[v].dependencies
                        /\ t = [i \in DOMAIN needs |-> Item("resolve", needs[i])]
    OBVIOUS
  <2>1. /\ todo[q] # <<>> /\ s # <<>> /\ StepsOK(s) /\ s[1].do = "visit" /\ s[1].arg = v
        /\ v \in Versions /\ Head(todo[q]).arg = v
    BY <1>13, <1>15, <2>0 DEF Visit, Doing, StepOK
  <2>2. UNCHANGED <<review, manifest, latest, installed, forked, order, payouts, asked, read>>
    BY <1>15 DEF Visit, listings, workspace, sales
  <2>3. Lasting
    BY <2>2 DEF Lasting
  <2>4. SalesOK'
    BY <1>2, <2>2
  <2>5. CASE Refuse(q)
    BY <1>1, <1>11, <2>2, <2>3, <2>4, <2>5
  <2>6. CASE Continue(q, t)
    <3>1. needs \in Seq(Listings) /\ DOMAIN needs = 1..Len(needs) /\ Len(needs) \in Nat
      BY <2>a, <2>1 DEF MarketInv, CatalogOK
    <3>2. \A i \in DOMAIN needs : Item("resolve", needs[i]) \in Items
      BY <3>1 DEF Items, Item, Steps
    <3>3. t \in Seq(Items) /\ Len(t) = Len(needs) /\ \A i \in 1..Len(t) : t[i] = Item("resolve", needs[i])
      BY <2>a, <3>1, <3>2
    <3>4. Replaces(s, t)
      <4>1. ASSUME NEW i \in 1..Len(t) PROVE StepOK(t, i)' /\ t[i].do # "root" /\ t[i].do # "pay"
        <5>1. i \in 1..Len(needs) /\ needs[i] \in Listings
          BY <3>1, <3>3
        <5>2. t[i].do = "resolve" /\ t[i].arg \in Listings
          <6>1. t[i] = [do |-> "resolve", arg |-> needs[i]]
            BY ONLY <3>3, i \in 1..Len(t) DEF Item
          <6> QED
            BY ONLY <5>1, <6>1
        <5> QED
          BY ONLY <5>2 DEF StepOK
      <4>2. \A n \in DOMAIN manifest[v].dependencies :
               \E j \in 1..Len(t) : t[j] = Item("resolve", manifest[v].dependencies[n])
        BY ONLY <2>a, <3>1, <3>3
      <4> QED
        BY ONLY <2>1, <4>1, <4>2 DEF Replaces
    <3>5. PICK u : u = t \o Tail(s)
      OBVIOUS
    <3>6. StepsOK(u)' /\ (u # <<>> => u[1].do # "pay")
      BY <2>1, <2>3, <3>3, <3>4, <3>5, GoesOn
    <3> QED
      BY <1>1, <1>12, <2>0, <2>2, <2>3, <2>4, <2>6, <3>5, <3>6
  <2> QED
    BY <1>15, <2>a, <2>1, <2>5, <2>6 DEF Visit
<1>16. ASSUME NEW q \in Requests, Resolve(q) PROVE MarketInv'
  <2>0. PICK l, v, s : s = todo[q] /\ l = todo[q][1].arg /\ v = latest[l]
    OBVIOUS
  <2>1. /\ todo[q] # <<>> /\ s # <<>> /\ StepsOK(s) /\ s[1].do = "resolve" /\ s[1].arg = l
        /\ l \in Listings /\ Head(todo[q]).arg = l
    BY <1>13, <1>16, <2>0 DEF Resolve, Doing, StepOK
  <2>2. UNCHANGED <<review, manifest, latest, installed, forked, order, payouts, asked, read>>
    BY <1>16 DEF Resolve, listings, workspace, sales
  <2>3. Lasting
    BY <2>2 DEF Lasting
  <2>4. SalesOK'
    BY <1>2, <2>2
  <2>5. CASE Refuse(q)
    BY <1>1, <1>11, <2>2, <2>3, <2>4, <2>5
  <2>6. ASSUME v # None, NEW t, t = <<Item("visit", v), Item("install", v)>>, Continue(q, t)
        PROVE  MarketInv'
    <3>1. v \in Versions /\ ListingOf[v] = l /\ review[v] = "approved"
      BY <2>0, <2>1, <2>6 DEF MarketInv, CatalogOK, Approved
    <3>2. Item("visit", v) \in Items /\ Item("install", v) \in Items
      BY <3>1 DEF Items, Item, Steps
    <3>3. /\ t \in Seq(Items) /\ Len(t) = 2 /\ t[1] = Item("visit", v) /\ t[2] = Item("install", v)
      BY ONLY <2>6, <3>2
    <3>4. StepOK(t, 1)' /\ StepOK(t, 2)'
      BY <2>2, <3>1, <3>3 DEF StepOK, Item, Ready
    <3>5. Replaces(s, t)
      BY <2>1, <3>1, <3>3, <3>4 DEF Replaces, Item
    <3>6. PICK u : u = t \o Tail(s)
      OBVIOUS
    <3>7. StepsOK(u)' /\ (u # <<>> => u[1].do # "pay")
      BY <2>1, <2>3, <3>3, <3>5, <3>6, GoesOn
    <3> QED
      BY <1>1, <1>12, <2>0, <2>2, <2>3, <2>4, <2>6, <3>6, <3>7
  <2> QED
    BY <1>16, <2>0, <2>1, <2>5, <2>6 DEF Resolve
<1>17. ASSUME NEW q \in Requests, Install(q) PROVE MarketInv'
  <2>0. PICK v, s : s = todo[q] /\ v = todo[q][1].arg
    OBVIOUS
  <2>1. /\ todo[q] # <<>> /\ s # <<>> /\ StepsOK(s) /\ s[1].do \in {"install", "root"} /\ s[1].arg = v
        /\ v \in Versions /\ review[v] # "none" /\ Head(todo[q]) = s[1] /\ StepOK(s, 1)
    BY <1>13, <1>17, <2>0 DEF Install, Doing, StepOK
  <2>2. UNCHANGED <<review, manifest, latest, forked, order, payouts, read>>
    BY <1>17 DEF Install, listings, sales
  <2>3. CASE Refuse(q) /\ UNCHANGED <<installed, asked>>
    <3>1. Lasting
      BY <2>2, <2>3 DEF Lasting
    <3> QED
      BY <1>1, <1>2, <1>11, <2>2, <2>3, <3>1
  <2>4. CASE /\ Approved(v) /\ installed' = installed \cup {v} /\ Continue(q, <<>>)
             /\ asked' = IF s[1].do = "root" THEN asked \cup {v} ELSE asked
    <3>1. Lasting
      BY <2>2, <2>4 DEF Lasting
    <3>2. Replaces(s, <<>>) /\ <<>> \in Seq(Items)
      BY <2>1, <2>4 DEF Replaces
    <3>3. PICK u : u = <<>> \o Tail(s)
      OBVIOUS
    <3>4. StepsOK(u)' /\ (u # <<>> => u[1].do # "pay")
      BY <2>1, <3>1, <3>2, <3>3, GoesOn
    <3>5. RequestsOK'
      BY <1>12, <2>0, <2>2, <2>4, <3>1, <3>3, <3>4
    <3>6. s[1].do = "root" => ListingOf[v] \notin Paid \/ PaidFor(v)
      BY <2>1 DEF StepOK, Funded
    <3>7. SalesOK'
      BY <2>2, <2>4, <3>6 DEF MarketInv, SalesOK, IsOrder, PaidIsPaidOut, PaidFor
    <3>8. \A n \in DOMAIN manifest[v].dependencies :
             \E d \in installed : ListingOf[d] = manifest[v].dependencies[n]
      BY <2>1 DEF StepOK, Ready, Coming
    <3>9. InstalledIsWhole'
      BY <2>2, <2>4, <3>8 DEF MarketInv, InstalledIsWhole, Approved
    <3> QED
      BY <2>1, <2>2, <2>4, <3>5, <3>7, <3>9 DEF MarketInv, CatalogOK, Approved
  <2> QED
    BY <1>17, <2>0, <2>1, <2>3, <2>4 DEF Install, Doing
<1> QED
  BY <1>3, <1>4, <1>5, <1>6, <1>9, <1>10, <1>14, <1>15, <1>16, <1>17 DEF Next, RequestStep
-----------------------------------------------------------------------------
\* A step of the instance is one of one module, and a stutter of the others.
LEMMA OneComponent ==
    [MCNext]_mcvars => /\ [Next]_marketvars /\ [C!Next]_capabilityvars
                       /\ [M!Next]_memoryvars /\ [D!Next]_documentvars
BY DEF MCNext, mcvars, OnMarket, OnCapabilities, OnMemory, OnDocument

\* What search_coworker_knowledge finds is whole: a document that is ready has its
\* chunks, unless two deliveries of it overlapped, for any number of deliveries,
\* retries and lost workers (ingest_document).
THEOREM KnowledgeIsWhole == MCSpec => []ReadyIsWhole
<1>1. DocumentInv => ReadyIsWhole
  BY DEF DocumentInv, ReadyIsWhole
<1> QED
  BY DocumentInit, DocumentStep, OneComponent, <1>1, PTL DEF MCSpec

\* A tool that a member switched off stays off until a member or a reviewer names it,
\* whatever chats, skills, proposals and reviews were under way
\* (attach_installed_skill, review_capability_proposal).
THEOREM SwitchedOffStaysOff == MCSpec => []RevocationStays
<1>1. CapabilityInv => RevocationStays
  BY DEF CapabilityInv, RevocationStays
<1> QED
  BY CapabilityInit, CapabilityStep, OneComponent, <1>1, PTL DEF MCSpec

\* However many reviewers have a proposal open, and however many scans, reports and
\* members meet on one pair of memories, one answer counts
\* (review_capability_proposal, resolve_memory_conflict).
THEOREM OneAnswerCounts == MCSpec => []SettledOnce
<1>1. MemoryInv => M!SettledOnce
  BY DEF MemoryInv, M!SettledOnce, GivenOnce
<1>2. MemoryInv /\ CapabilityInv => SettledOnce
  BY <1>1 DEF CapabilityInv, SettledOnce
<1> QED
  BY CapabilityInit, CapabilityStep, MemoryInit, MemoryStep, OneComponent, <1>2, PTL DEF MCSpec

\* Whatever is asked for together, paid again or published meanwhile, what is installed
\* is approved and has what it depends on, also when a request stopped half way; only a
\* fork is installed without (install_listing).
THEOREM InstalledStandsOnItsOwn == MCSpec => []InstalledIsWhole
<1>1. MarketInv => InstalledIsWhole
  BY DEF MarketInv
<1> QED
  BY MarketInit, MarketStep, OneComponent, <1>1, PTL DEF MCSpec

\* However often a webhook is repeated, a paid listing that was asked for is paid, and
\* owed to its publisher once (fulfill_order).
THEOREM PaidIsOwedOnce == MCSpec => []PaidIsPaidOut
<1>1. MarketInv => PaidIsPaidOut
  BY DEF MarketInv, SalesOK
<1> QED
  BY MarketInit, MarketStep, OneComponent, <1>1, PTL DEF MCSpec
=============================================================================
