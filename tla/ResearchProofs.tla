--------------------------- MODULE ResearchProofs ---------------------------
(***************************************************************************)
(* Research runs and website monitors, for any workers, pages, controls    *)
(* and bounds: a completed report rests on stored evidence within the      *)
(* controls and says when it is weak, a completion is announced once, a    *)
(* period brings one scheduled check, and what was told is what the next   *)
(* check compares with.                                                    *)
(*                                                                         *)
(* GroundedInv holds whatever workers, retries and lost workers do.        *)
(* AloneInv speaks of runs in which no two workers ever were: only there   *)
(* is the evidence numbered without gaps. CountInv counts: a worker that   *)
(* may still announce, a delivery that waits and an announcement are each  *)
(* paid for by the first delivery, a repeated one or a late failure.       *)
(***************************************************************************)
EXTENDS MCResearch, FiniteSetTheorems, NaturalsInduction, TLAPS

-----------------------------------------------------------------------------
\* What holds of the schedule: one scan at a time has a monitor in hand, and every
\* scheduled check has used up a period, or a time an edit put back.
ScheduleInv ==
    /\ now \in Nat /\ nextRun \in Int /\ scanned \in Nat /\ setBack \in Nat
    /\ scan \in [Scans -> Int] /\ edit.nextRun \in Int
    /\ \A s, t \in Scans : scan[s] >= 0 /\ scan[t] >= 0 => s = t
    /\ \A s \in Scans : scan[s] >= 0 => scan[s] <= now /\ scanned + 1 <= scan[s] + setBack
    /\ ~Monitor!Locked => /\ scanned <= now + setBack
                          /\ nextRun <= now => scanned + 1 <= now + setBack

LEMMA ScheduleInit == MCInit => ScheduleInv
BY DEF MCInit, Monitor!Init, ScheduleInv, Monitor!Locked, Monitor!NoEdit

LEMMA ScheduleStep == ScheduleInv /\ [Monitor!Next]_monitorvars => ScheduleInv'
<1> SUFFICES ASSUME ScheduleInv, [Monitor!Next]_monitorvars PROVE ScheduleInv'
  OBVIOUS
<1> USE DEF ScheduleInv, Monitor!Locked
<1>1. CASE UNCHANGED <<now, nextRun, scanned, setBack, scan, edit>>
  BY <1>1
<1>2. CASE Monitor!Tick
  <2>1. now' = now + 1 /\ UNCHANGED <<nextRun, scanned, setBack, scan, edit>>
    BY <1>2 DEF Monitor!Tick, Monitor!monitor, Monitor!past
  <2> QED
    BY ONLY <2>1, ScheduleInv DEF ScheduleInv, Monitor!Locked
<1>3. ASSUME NEW s \in Scans, Monitor!LockDue(s) PROVE ScheduleInv'
  BY <1>3 DEF Monitor!LockDue, Monitor!monitor, Monitor!past
<1>4. ASSUME NEW s \in Scans, Monitor!StartDue(s) PROVE ScheduleInv'
  BY <1>4 DEF Monitor!StartDue
<1>5. CASE Monitor!ReadMonitor
  BY <1>5 DEF Monitor!ReadMonitor, Monitor!monitor
<1>6. CASE Monitor!SaveMonitor
  BY <1>6 DEF Monitor!SaveMonitor, Monitor!NoEdit
<1>7. CASE Monitor!DeleteMonitor
  BY <1>1, <1>7 DEF Monitor!DeleteMonitor
<1>8. CASE Monitor!RunNow \/ Monitor!ChangeSite \/ Monitor!Repeat
  BY <1>1, <1>8 DEF Monitor!RunNow, Monitor!ChangeSite, Monitor!Repeat, Monitor!monitor, Monitor!past
<1>9. ASSUME NEW w \in Workers, Monitor!CheckStep(w) \/ Monitor!Kill(w) PROVE ScheduleInv'
  BY <1>1, <1>9 DEF Monitor!CheckStep, Monitor!Kill, Monitor!Claim, Monitor!TurnAway, Monitor!ReadSite,
    Monitor!ReadPrevious, Monitor!StoreSnapshot, Monitor!Record, Monitor!Announce, Monitor!Break,
    Monitor!monitor, Monitor!past
<1> QED
  BY <1>1, <1>2, <1>3, <1>4, <1>5, <1>6, <1>7, <1>8, <1>9 DEF Monitor!Next, monitorvars

-----------------------------------------------------------------------------
\* What a worker at a check knows, while no other was in one and none was lost: until
\* it stores the snapshot, the user knows what the last one says.
Tells(w) ==
    /\ at[w] \in Monitor!Steps
    /\ at[w] # "idle" => doing[w] \in Checks /\ check[doing[w]] # "none"
    /\ at[w] # "idle" /\ check[doing[w]] = "gone" => known = snapshot
    /\ at[w] \in {"read", "compare", "store"} => known = snapshot
    /\ at[w] = "store" /\ check[doing[w]] # "gone" => previous[w] = snapshot
    /\ at[w] \in {"record", "announce"} /\ check[doing[w]] # "gone" =>
          snapshot = page[w] /\ (Monitor!Differs(w) \/ known = page[w])

Undisturbed == ~together /\ late = 0 /\ killed = 0

\* What holds of the checks.
TellInv ==
    /\ at = [w \in Workers |-> at[w]] /\ doing = [w \in Workers |-> doing[w]]
    /\ page = [w \in Workers |-> page[w]] /\ previous = [w \in Workers |-> previous[w]]
    /\ check = [c \in Checks |-> check[c]] /\ late \in Nat /\ killed \in Nat
    /\ Undisturbed =>
          /\ \A v, w \in Workers : at[v] # "idle" /\ at[w] # "idle" => v = w
          /\ \A w \in Workers : Tells(w)
          /\ (\A w \in Workers : at[w] = "idle") => known = snapshot

LEMMA TellInit == MCInit => TellInv
BY DEF MCInit, Monitor!Init, TellInv, Tells, Undisturbed, Monitor!Steps

LEMMA TellStep == TellInv /\ [Monitor!Next]_monitorvars => TellInv'
<1> SUFFICES ASSUME TellInv, [Monitor!Next]_monitorvars PROVE TellInv'
  OBVIOUS
<1> USE DEF TellInv, Tells, Undisturbed, Monitor!Steps, Monitor!Differs, Monitor!Go, Monitor!Idle
<1>1. CASE UNCHANGED <<at, doing, page, previous, check, late, killed, together, known, snapshot>>
  BY <1>1
<1>2. CASE Monitor!Tick \/ Monitor!ChangeSite \/ Monitor!ReadMonitor \/ Monitor!SaveMonitor \/ Monitor!Repeat
  BY <1>1, <1>2 DEF Monitor!Tick, Monitor!ChangeSite, Monitor!ReadMonitor, Monitor!SaveMonitor,
    Monitor!Repeat, Monitor!monitor, Monitor!checking, Monitor!crew, Monitor!past
<1>3. ASSUME NEW c \in Checks, Monitor!Queue(c),
             UNCHANGED <<at, doing, page, previous, late, killed, together, known, snapshot>>
      PROVE  TellInv'
  BY <1>3 DEF Monitor!Queue
<1>4. CASE Monitor!RunNow
  BY <1>3, <1>4 DEF Monitor!RunNow, Monitor!monitor, Monitor!crew, Monitor!past
<1>5. ASSUME NEW s \in Scans, Monitor!LockDue(s) \/ Monitor!StartDue(s) PROVE TellInv'
  BY <1>1, <1>3, <1>5 DEF Monitor!LockDue, Monitor!StartDue, Monitor!monitor, Monitor!checking,
    Monitor!crew, Monitor!past
<1>6. CASE Monitor!DeleteMonitor
  BY <1>6 DEF Monitor!DeleteMonitor, Monitor!crew
<1>7. ASSUME NEW w \in Workers, Monitor!Claim(w) PROVE TellInv'
  <2>1. PICK c \in Checks :
            /\ check' = [check EXCEPT ![c] = "running"] /\ doing' = [doing EXCEPT ![w] = c]
            /\ at' = [at EXCEPT ![w] = "read"]
            /\ together' = (together \/ \E v \in Workers : at[v] # "idle")
            /\ UNCHANGED <<page, previous, known, snapshot, late, killed>>
    BY ONLY <1>7 DEF Monitor!Claim, Monitor!Go, Monitor!monitor
  <2>2. /\ at' = [v \in Workers |-> at'[v]] /\ doing' = [v \in Workers |-> doing'[v]]
        /\ check' = [d \in Checks |-> check'[d]]
        /\ at'[w] = "read" /\ doing'[w] = c /\ check'[c] = "running"
        /\ \A v \in Workers \ {w} : at'[v] = at[v]
    BY <2>1
  <2>3. ASSUME Undisturbed'
        PROVE  Undisturbed /\ (\A v \in Workers : at[v] = "idle") /\ known = snapshot
    BY <2>1, <2>3
  <2>4. Undisturbed' => \A v \in Workers : Tells(v)'
    BY <2>1, <2>2, <2>3
  <2> QED
    BY <2>1, <2>2, <2>3, <2>4
<1>8. ASSUME NEW w \in Workers, Monitor!TurnAway(w) PROVE TellInv'
  BY <1>1, <1>8 DEF Monitor!TurnAway, Monitor!monitor, Monitor!crew, Monitor!past
<1>9. ASSUME NEW w \in Workers, Monitor!ReadSite(w) PROVE TellInv'
  BY <1>9 DEF Monitor!ReadSite, Monitor!monitor, Monitor!checking, Monitor!past
<1>10. ASSUME NEW w \in Workers, Monitor!ReadPrevious(w) PROVE TellInv'
  BY <1>10 DEF Monitor!ReadPrevious, Monitor!monitor, Monitor!checking, Monitor!past
<1>11. ASSUME NEW w \in Workers, Monitor!StoreSnapshot(w) PROVE TellInv'
  <2>1. /\ at[w] = "store" /\ check[doing[w]] # "gone" /\ snapshot' = page[w]
        /\ UNCHANGED <<doing, page, check, late, killed, together>>
        /\ at' = [v \in Workers |-> at'[v]] /\ at'[w] = "record"
        /\ previous' = [v \in Workers |-> previous'[v]]
        /\ \A v \in Workers \ {w} : at'[v] = at[v] /\ previous'[v] = previous[v]
    BY <1>11 DEF Monitor!StoreSnapshot, Monitor!checking
  <2>2. \/ /\ Monitor!Differs(w) /\ previous'[w] = previous[w]
        \/ previous[w] = page[w] /\ known' = known
        \/ known' = page[w]
    BY <1>11 DEF Monitor!StoreSnapshot
  <2>3. Undisturbed => (Monitor!Differs(w) \/ known = page[w])'
    BY <2>1, <2>2
  <2>4. Undisturbed' => Undisturbed /\ \A v \in Workers \ {w} : at[v] = "idle"
    BY <2>1
  <2> HIDE DEF Monitor!Differs
  <2>5. Undisturbed' => \A v \in Workers : Tells(v)'
    BY <2>1, <2>3, <2>4
  <2> QED
    BY <2>1, <2>4, <2>5
<1>12. ASSUME NEW w \in Workers, Monitor!Record(w) PROVE TellInv'
  BY <1>12 DEF Monitor!Record, Monitor!monitor, Monitor!past
<1>13. ASSUME NEW w \in Workers, Monitor!Announce(w) PROVE TellInv'
  BY <1>13 DEF Monitor!Announce, Monitor!monitor, Monitor!checking
<1>14. ASSUME NEW w \in Workers, Monitor!Break(w) PROVE TellInv'
  <2>1. /\ at[w] # "idle" /\ UNCHANGED <<snapshot, known, together, killed>> /\ late' \in Nat
        /\ late' = 0 => at[w] \in {"read", "compare", "store"} \/ at[w] \notin Monitor!Steps
        /\ late' = 0 => late = 0
        /\ check' = [c \in Checks |-> check'[c]]
    BY <1>14 DEF Monitor!Break, Monitor!monitor
  <2>2. /\ at' = [v \in Workers |-> at'[v]] /\ doing' = [v \in Workers |-> doing'[v]]
        /\ page' = [v \in Workers |-> page'[v]] /\ previous' = [v \in Workers |-> previous'[v]]
        /\ at'[w] = "idle" /\ \A v \in Workers \ {w} : at'[v] = at[v]
    BY <1>14 DEF Monitor!Break
  <2>3. Undisturbed' => /\ Undisturbed /\ \A v \in Workers : at'[v] = "idle"
                        /\ known' = snapshot'
    BY <2>1, <2>2
  <2> QED
    BY <2>1, <2>2, <2>3
<1>15. ASSUME NEW w \in Workers, Monitor!Kill(w) PROVE TellInv'
  <2>1. killed' \in Nat \ {0} /\ UNCHANGED <<check, late>>
    BY <1>15 DEF Monitor!Kill, Monitor!monitor, Monitor!checking
  <2>2. /\ at' = [v \in Workers |-> at'[v]] /\ doing' = [v \in Workers |-> doing'[v]]
        /\ page' = [v \in Workers |-> page'[v]] /\ previous' = [v \in Workers |-> previous'[v]]
    BY <1>15 DEF Monitor!Kill
  <2> QED
    BY <2>1, <2>2
<1> QED
  BY <1>1, <1>2, <1>4, <1>5, <1>6, <1>7, <1>8, <1>9, <1>10, <1>11, <1>12, <1>13, <1>14, <1>15
  DEF Monitor!Next, Monitor!CheckStep, monitorvars
-----------------------------------------------------------------------------
\* The least of some numbers, which is where evidence is taken next.
LEMMA LeastExists ==
    ASSUME NEW S \in SUBSET Nat, S # {}
    PROVE  Min(S) \in S /\ \A n \in S : Min(S) <= n
<1> DEFINE Less == {pair \in Nat \X Nat : pair[1] < pair[2]}
<1>1. IsWellFoundedOn(Less, Nat)
  BY NatLessThanWellFounded DEF OpToRel
<1> HIDE DEF Less
<1>2. PICK m \in S : \A n \in S : <<n, m>> \notin Less
  BY <1>1, WFMin
<1>3. \A n \in S : m <= n
  <2>1. \A n \in S : <<n, m>> \in Nat \X Nat /\ <<n, m>>[1] = n /\ <<n, m>>[2] = m
    BY <1>2
  <2>2. \A n \in S : ~(<<n, m>>[1] < <<n, m>>[2])
    BY <1>2, <2>1, Zenon DEF Less
  <2> QED
    BY <2>1, <2>2
<1> QED
  BY <1>3 DEF Min
-----------------------------------------------------------------------------
\* What holds whatever workers do: the sources are within the controls, and evidence
\* is stored before it is used.
Row == [domain : Domains, usable : BOOLEAN]

SourcesOK ==
    /\ controls = MergedControls /\ sources \in Seq(Row)
    /\ \A i \in 1..Len(sources) : sources[i].domain \notin controls.blocked

\* Evidence is stored before it is used, and is of sources that are stored.
EvidenceOK ==
    /\ IsFiniteSet(evidence) /\ report \subseteq evidence
    /\ \A e \in evidence : e \in (1..Len(sources)) \X Nat /\ sources[e[1]].usable
    /\ \A w \in Workers : mine[w] \subseteq evidence
    /\ \A w \in Workers : pc[w] = "gather" => left[w] \in 0..Len(sources)

WorkersOK ==
    /\ pc \in [Workers -> Stages] /\ left = [w \in Workers |-> left[w]]
    /\ mine = [w \in Workers |-> mine[w]]

GroundedInv == WorkersOK /\ SourcesOK /\ EvidenceOK

LEMMA GroundedInit == MCInit => GroundedInv
<1> SUFFICES ASSUME MCInit PROVE GroundedInv
  OBVIOUS
<1>1. Init
  BY DEF MCInit
<1> QED
  BY <1>1, FS_EmptySet DEF Init, GroundedInv, WorkersOK, SourcesOK, EvidenceOK, Stages, Row

LEMMA GroundedStep == GroundedInv /\ [Next]_vars => GroundedInv'
<1> SUFFICES ASSUME GroundedInv, [Next]_vars PROVE GroundedInv'
  OBVIOUS
<1>1. ASSUME NEW w \in Workers, UNCHANGED <<controls, sources, evidence>>,
             report' = report \/ report' = mine[w],
             pc' = [pc EXCEPT ![w] = pc'[w]], pc'[w] \in Stages,
             mine' = [mine EXCEPT ![w] = mine'[w]], mine'[w] \in {mine[w], evidence, {}},
             left' = [left EXCEPT ![w] = left'[w]],
             pc'[w] = "gather" => left'[w] \in 0..Len(sources)
      PROVE  GroundedInv'
  <2>1. SourcesOK'
    BY <1>1 DEF GroundedInv, SourcesOK, MergedControls
  <2>2. EvidenceOK'
    BY <1>1 DEF GroundedInv, WorkersOK, EvidenceOK
  <2>3. WorkersOK'
    BY <1>1 DEF GroundedInv, WorkersOK
  <2> QED
    BY <2>1, <2>2, <2>3 DEF GroundedInv
<1>2. CASE UNCHANGED <<controls, sources, evidence, report, pc, mine, left>>
  BY <1>2 DEF GroundedInv, WorkersOK, SourcesOK, EvidenceOK, MergedControls
<1>3. ASSUME NEW w \in Workers, Leave(w), UNCHANGED <<controls, sources, evidence, report>>
      PROVE  GroundedInv'
  BY <1>1, <1>3 DEF Leave, Goto, GroundedInv, WorkersOK, Stages
<1>4. CASE RequestCancel \/ Duplicate \/ UNCHANGED vars
  BY <1>2, <1>4 DEF RequestCancel, Duplicate, vars, stored, worker
<1>5. ASSUME NEW w \in Workers, Begin(w) PROVE GroundedInv'
  <2>1. \/ UNCHANGED pc
        \/ pc' = [pc EXCEPT ![w] = pc'[w]] /\ pc'[w] \in {"search", "plan"}
    BY <1>5 DEF Begin, Goto, GroundedInv, WorkersOK
  <2>2. mine' = [mine EXCEPT ![w] = mine'[w]] /\ left' = [left EXCEPT ![w] = left'[w]]
        /\ mine' = mine
    BY <1>5 DEF Begin, GroundedInv, WorkersOK
  <2> QED
    BY <1>1, <1>2, <1>5, <2>1, <2>2 DEF Begin, stored, Stages
<1>6. ASSUME NEW w \in Workers, Cancelled(w) \/ Audit(w) \/ Fail(w) \/ Die(w) PROVE GroundedInv'
  BY <1>3, <1>6 DEF Cancelled, Audit, Fail, Die, stored
<1>7. ASSUME NEW w \in Workers, Plan(w) \/ Search(w) \/ EndReading(w) \/ Compare(w) \/ Write(w) \/ Notify(w)
      PROVE  GroundedInv'
  <2>1. /\ UNCHANGED <<controls, sources, evidence, report, mine>>
        /\ pc' = [pc EXCEPT ![w] = pc'[w]] /\ pc'[w] \in Stages \ {"gather"}
        /\ left' = [left EXCEPT ![w] = left'[w]]
    BY <1>7 DEF Plan, Search, EndReading, Compare, Write, Notify, Goto, stored, GroundedInv, WorkersOK, Stages
  <2>2. mine' = [mine EXCEPT ![w] = mine'[w]]
    BY <2>1 DEF GroundedInv, WorkersOK
  <2> QED
    BY <1>1, <2>1, <2>2
<1>8. ASSUME NEW w \in Workers, TakeEvidence(w) PROVE GroundedInv'
  <2>1. Len(sources) \in Nat
    BY DEF GroundedInv, SourcesOK
  <2>2. /\ UNCHANGED <<controls, sources, evidence, report>>
        /\ pc' = [pc EXCEPT ![w] = pc'[w]] /\ pc'[w] \in {"gather", "compare"}
        /\ mine' = [mine EXCEPT ![w] = mine'[w]] /\ mine'[w] = evidence
        /\ left' = [left EXCEPT ![w] = left'[w]] /\ left'[w] \in 0..Len(sources)
    BY <1>8, <2>1 DEF TakeEvidence, Goto, stored, GroundedInv, WorkersOK
  <2> QED
    BY <1>1, <2>2 DEF Stages
<1>9. ASSUME NEW w \in Workers, Complete(w) PROVE GroundedInv'
  <2>1. /\ UNCHANGED <<controls, sources, evidence, mine, left>> /\ report' = mine[w]
        /\ pc' = [pc EXCEPT ![w] = pc'[w]] /\ pc'[w] = "notify"
    BY <1>9 DEF Complete, Goto, GroundedInv, WorkersOK
  <2>2. mine' = [mine EXCEPT ![w] = mine'[w]] /\ left' = [left EXCEPT ![w] = left'[w]]
    BY <2>1 DEF GroundedInv, WorkersOK
  <2> QED
    BY <1>1, <2>1, <2>2 DEF Stages
<1>10. ASSUME NEW w \in Workers, ReadPage(w) PROVE GroundedInv'
  <2>1. /\ UNCHANGED <<controls, evidence, report, pc, mine>> /\ left' = [left EXCEPT ![w] = left'[w]]
        /\ pc[w] = "read"
    BY <1>10 DEF ReadPage, GroundedInv, WorkersOK
  <2>2. WorkersOK'
    BY <2>1 DEF GroundedInv, WorkersOK
  <2>3. PICK p \in Pages : sources' = IF Accepted(p) THEN Stored(p) ELSE sources
    BY <1>10 DEF ReadPage
  <2>4. PICK new : new = [domain |-> p.domain, usable |-> p.text = "usable"]
    OBVIOUS
  <2>5. new \in Row /\ new.domain = p.domain
    BY <2>4 DEF Pages, Row
  <2>6. sources' = sources \/ (sources' = Append(sources, new) /\ new.domain \notin controls.blocked)
    BY <2>3, <2>4, <2>5 DEF Stored, Accepted
  <2>7. SourcesOK'
    <3>1. sources \in Seq(Row) /\ \A i \in 1..Len(sources) : sources[i].domain \notin controls.blocked
      BY DEF GroundedInv, SourcesOK
    <3>2. sources' \in Seq(Row) /\ \A i \in 1..Len(sources') : sources'[i].domain \notin controls.blocked
      BY ONLY <2>5, <2>6, <3>1
    <3> QED
      BY <2>1, <3>2 DEF GroundedInv, SourcesOK, MergedControls
  <2>8. /\ \A i \in 1..Len(sources) : sources'[i] = sources[i] /\ i \in 1..Len(sources')
        /\ \A i \in 0..Len(sources) : i \in 0..Len(sources')
    BY <2>5, <2>6 DEF GroundedInv, SourcesOK
  <2>9. EvidenceOK'
    <3>1. \A e \in evidence : e \in (1..Len(sources')) \X Nat /\ sources'[e[1]].usable
      BY <2>8 DEF GroundedInv, EvidenceOK
    <3> QED
      BY <2>1, <2>8, <3>1 DEF GroundedInv, EvidenceOK, WorkersOK
  <2> QED
    BY <2>2, <2>7, <2>9 DEF GroundedInv
<1>11. ASSUME NEW w \in Workers, Gather(w) PROVE GroundedInv'
  <2>1. UNCHANGED <<controls, sources, report>>
    BY <1>11 DEF Gather
  <2>2. SourcesOK'
    BY <2>1 DEF GroundedInv, SourcesOK, MergedControls
  <2>3. CASE NextSources(left[w], mine[w]) = {}
    <3>1. /\ UNCHANGED <<evidence, mine>> /\ left' = [left EXCEPT ![w] = left'[w]]
          /\ pc' = [pc EXCEPT ![w] = pc'[w]] /\ pc'[w] = "compare"
      BY <1>11, <2>3 DEF Gather, Goto, GroundedInv, WorkersOK
    <3>2. mine' = [mine EXCEPT ![w] = mine'[w]]
      BY <3>1 DEF GroundedInv, WorkersOK
    <3> QED
      BY <1>1, <2>1, <3>1, <3>2 DEF Stages
  <2>4. CASE NextSources(left[w], mine[w]) # {}
    <3>1. PICK e : /\ e = <<Min(NextSources(left[w], mine[w])), Cardinality(mine[w]) + 1>>
                   /\ evidence' = evidence \cup {e} /\ mine' = [mine EXCEPT ![w] = @ \cup {e}]
                   /\ UNCHANGED <<pc, left>>
      BY <1>11, <2>4 DEF Gather
    <3>2. Min(NextSources(left[w], mine[w])) \in NextSources(left[w], mine[w])
      BY <2>4, LeastExists DEF NextSources
    <3>3. left[w] \in 0..Len(sources) /\ Len(sources) \in Nat
      BY <1>11 DEF Gather, GroundedInv, EvidenceOK, SourcesOK
    <3>4. IsFiniteSet(mine[w]) /\ Cardinality(mine[w]) \in Nat
      BY FS_Subset, FS_CardinalityType DEF GroundedInv, EvidenceOK
    <3>5. e \in (1..Len(sources)) \X Nat /\ sources[e[1]].usable
      BY <3>1, <3>2, <3>3, <3>4 DEF NextSources
    <3>6. IsFiniteSet(evidence')
      BY <3>1, FS_AddElement DEF GroundedInv, EvidenceOK
    <3>7. \A v \in Workers : mine'[v] \subseteq evidence'
      BY <3>1 DEF GroundedInv, EvidenceOK, WorkersOK
    <3>8. EvidenceOK'
      BY <2>1, <3>1, <3>5, <3>6, <3>7 DEF GroundedInv, EvidenceOK
    <3>9. WorkersOK'
      BY <3>1 DEF GroundedInv, WorkersOK
    <3> QED
      BY <2>2, <3>8, <3>9 DEF GroundedInv
  <2> QED
    BY <2>3, <2>4
<1> QED
  BY <1>4, <1>5, <1>6, <1>7, <1>8, <1>9, <1>10, <1>11 DEF Next, WorkerStep
-----------------------------------------------------------------------------
\* A report that rests on too few domains says so.
Honest(rows) == Cardinality(DomainsOf(rows)) < MinimumSources => weak

\* One worker at most is in the run.
Alone == \A v, w \in Workers : pc[v] # "idle" /\ pc[w] # "idle" => v = w

\* Citation numbers are given once, and leave no gap.
Numbered ==
    /\ \A e \in evidence : e[2] \in 1..Cardinality(evidence)
    /\ \A e, f \in evidence : e[2] = f[2] => e = f

\* The worker of a run that has no other.
OneAtWork(w) ==
    /\ pc[w] = "gather" => mine[w] = evidence
    /\ pc[w] \in {"write", "stamp", "notify", "audit"} => Honest(mine[w])
    /\ pc[w] \in {"notify", "audit"} <=> (pc[w] # "idle" /\ status = "completed")
    /\ pc[w] = "notify" => notified <= lateFailures

\* What holds of a run in which no two workers ever were at once.
AloneInv ==
    /\ notified \in Nat /\ lateFailures \in Nat
    /\ ~overlapped =>
          /\ Alone /\ Numbered /\ \A w \in Workers : OneAtWork(w)
          /\ status = "completed" => Honest(report) /\ notified <= 1 + lateFailures
          /\ status # "completed" => notified <= lateFailures

LEMMA AloneInit == MCInit => AloneInv
BY DEF MCInit, Init, AloneInv, Alone, Numbered, OneAtWork

\* The domains of stored evidence stay the same.
LEMMA DomainsLast ==
    ASSUME GroundedInv, [Next]_vars, NEW rows, rows \subseteq evidence
    PROVE  DomainsOf(rows)' = DomainsOf(rows)
<1>1. \A i \in 1..Len(sources) : sources'[i] = sources[i]
  <2>1. sources \in Seq(Row)
    BY DEF GroundedInv, SourcesOK
  <2>2. sources' = sources \/ \E p \in Pages : sources' = Stored(p)
    BY DEF Next, vars, stored, worker, WorkerStep, Begin, Cancelled, Plan, Search, ReadPage, EndReading,
       TakeEvidence, Gather, Compare, Write, Complete, Notify, Audit, Fail, Die, RequestCancel, Duplicate
  <2>3. ASSUME NEW p \in Pages, sources' = Stored(p) PROVE \A i \in 1..Len(sources) : sources'[i] = sources[i]
    <3>1. [domain |-> p.domain, usable |-> p.text = "usable"] \in Row
      BY DEF Pages, Row
    <3> QED
      BY <2>1, <2>3, <3>1 DEF Stored
  <2> QED
    BY <2>2, <2>3
<1>2. \A e \in rows : sources'[e[1]] = sources[e[1]]
  BY <1>1 DEF GroundedInv, EvidenceOK
<1> QED
  BY <1>2 DEF DomainsOf

\* What was said of some evidence stays true of it.
LEMMA HonestLast ==
    ASSUME GroundedInv, [Next]_vars, NEW rows, rows \subseteq evidence, UNCHANGED weak
    PROVE  Honest(rows) => Honest(rows)'
BY DomainsLast DEF Honest

LEMMA AloneStep == GroundedInv /\ AloneInv /\ [Next]_vars => AloneInv'
<1> SUFFICES ASSUME GroundedInv, AloneInv, [Next]_vars PROVE AloneInv'
  OBVIOUS
<1>1. ASSUME UNCHANGED <<pc, mine, status, report, weak, evidence, notified, lateFailures, overlapped>>
      PROVE  AloneInv'
  <2>1. ASSUME NEW w \in Workers, ~overlapped PROVE OneAtWork(w)'
    <3>1. PICK rows : rows = mine[w]
      OBVIOUS
    <3>2. Honest(rows) => Honest(rows)'
      BY <1>1, <3>1, HonestLast DEF GroundedInv, EvidenceOK
    <3>3. OneAtWork(w)
      BY <2>1 DEF AloneInv
    <3>4. Honest(mine[w]) => Honest(mine[w])'
      BY <1>1, <3>1, <3>2
    <3> QED
      BY <1>1, <3>3, <3>4 DEF OneAtWork
  <2>2. Honest(report) => Honest(report)'
    <3>1. PICK rows : rows = report
      OBVIOUS
    <3>2. Honest(rows) => Honest(rows)'
      BY <1>1, <3>1, HonestLast DEF GroundedInv, EvidenceOK
    <3> QED
      BY <1>1, <3>1, <3>2
  <2> QED
    BY <1>1, <2>1, <2>2 DEF AloneInv, Alone, Numbered
\* A worker that leaves, or goes on before it has compared.
<1>2. ASSUME NEW w \in Workers, pc' = [pc EXCEPT ![w] = pc'[w]], pc[w] # "idle",
             UNCHANGED <<report, evidence, notified, overlapped>>,
             lateFailures' \in Nat, lateFailures' >= lateFailures,
             mine' = [mine EXCEPT ![w] = mine'[w]],
             \/ pc'[w] = "idle"
             \/ status' # "completed" /\ pc'[w] \notin {"write", "stamp", "notify", "audit", "gather"}
                /\ pc[w] \notin {"notify", "audit"},
             \/ status' # "completed" /\ (pc[w] \in {"notify", "audit"} => lateFailures' > lateFailures)
             \/ pc'[w] = "idle" /\ UNCHANGED <<status, weak, lateFailures>>
      PROVE  AloneInv'
  <2>1. ASSUME ~overlapped
        PROVE  /\ Alone /\ Numbered /\ OneAtWork(w) /\ \A v \in Workers \ {w} : pc[v] = "idle"
               /\ status = "completed" => Honest(report) /\ notified <= 1 + lateFailures
               /\ status # "completed" => notified <= lateFailures
    BY <1>2, <2>1 DEF AloneInv, Alone
  <2>2. /\ pc'[w] \notin {"write", "stamp", "notify", "audit", "gather"} /\ notified \in Nat /\ lateFailures \in Nat
        /\ \A v \in Workers \ {w} : pc'[v] = pc[v]
    BY <1>2 DEF AloneInv, GroundedInv, WorkersOK
  <2>3. UNCHANGED weak => (Honest(report) => Honest(report)')
    <3>1. PICK rows : rows = report
      OBVIOUS
    <3>2. UNCHANGED weak => (Honest(rows) => Honest(rows)')
      BY <1>2, <3>1, HonestLast DEF GroundedInv, EvidenceOK
    <3> QED
      BY <1>2, <3>1, <3>2
  <2>4. ASSUME ~overlapped PROVE Alone' /\ Numbered' /\ \A v \in Workers : OneAtWork(v)'
    <3>1. Alone' /\ Numbered'
      BY <1>2, <2>1, <2>2, <2>4 DEF Alone, Numbered
    <3>2. \A v \in Workers \ {w} : OneAtWork(v)'
      BY <2>1, <2>2, <2>4 DEF OneAtWork
    <3>3. OneAtWork(w)'
      BY <1>2, <2>2 DEF OneAtWork
    <3> QED
      BY <3>1, <3>2, <3>3
  <2>5. ASSUME ~overlapped PROVE /\ status' = "completed" => Honest(report)' /\ notified' <= 1 + lateFailures'
                                 /\ status' # "completed" => notified' <= lateFailures'
    <3>1. pc[w] \notin {"notify", "audit"} => status # "completed"
      BY <1>2, <2>1, <2>5 DEF OneAtWork
    <3>2. status = "completed" => Honest(report) /\ notified <= 1 + lateFailures
      BY <2>1, <2>5
    <3>3. status # "completed" => notified <= lateFailures
      BY <2>1, <2>5
    <3>4. status' # "completed" => notified' <= lateFailures'
      BY ONLY <1>2, <2>2, <3>1, <3>2, <3>3
    <3>5. ASSUME status' = "completed" PROVE Honest(report)' /\ notified' <= 1 + lateFailures'
      <4>1. UNCHANGED <<status, weak, lateFailures, notified>>
        BY <1>2, <3>5
      <4>2. Honest(report)'
        BY ONLY <2>3, <3>2, <3>5, <4>1
      <4> QED
        BY ONLY <3>2, <3>5, <4>1, <4>2
    <3> QED
      BY <3>4, <3>5
  <2> QED
    BY <1>2, <2>2, <2>4, <2>5 DEF AloneInv
<1>3. CASE UNCHANGED vars \/ RequestCancel \/ Duplicate
  BY <1>1, <1>3 DEF vars, stored, row, worker, history, RequestCancel, Duplicate
<1>4. ASSUME NEW w \in Workers, Cancelled(w) \/ Audit(w) \/ Fail(w) \/ Die(w) PROVE AloneInv'
  <2>1. Leave(w) /\ UNCHANGED <<report, evidence, weak, notified, overlapped>> /\ pc[w] # "idle"
    BY <1>4 DEF Cancelled, Audit, Fail, Die, stored, history, Checkpoints
  <2>2. /\ pc' = [pc EXCEPT ![w] = pc'[w]] /\ pc'[w] = "idle" /\ mine' = [mine EXCEPT ![w] = mine'[w]]
    BY <2>1 DEF Leave, Goto, GroundedInv, WorkersOK
  <2>3. \/ /\ status' # "completed" /\ lateFailures' \in Nat /\ lateFailures' >= lateFailures
           /\ pc[w] \in {"notify", "audit"} => lateFailures' > lateFailures
        \/ UNCHANGED <<status, lateFailures>>
    BY <1>4 DEF Cancelled, Audit, Fail, Die, row, history, Checkpoints, AloneInv
  <2> QED
    BY <1>2, <2>1, <2>2, <2>3 DEF AloneInv
<1>5. ASSUME NEW w \in Workers, Plan(w) \/ Search(w) \/ EndReading(w) PROVE AloneInv'
  <2>1. /\ UNCHANGED <<report, evidence, weak, notified, overlapped, lateFailures, mine>>
        /\ pc' = [pc EXCEPT ![w] = pc'[w]] /\ pc'[w] \in {"search", "read", "evidence"}
        /\ pc[w] \in {"plan", "search", "read"} /\ status' \in {"planning", "searching", "reading", status}
    BY <1>5 DEF Plan, Search, EndReading, Goto, stored, history, GroundedInv, WorkersOK
  <2>2. mine' = [mine EXCEPT ![w] = mine'[w]]
    BY <2>1 DEF GroundedInv, WorkersOK
  <2>3. CASE status' # "completed"
    BY <1>2, <2>1, <2>2, <2>3 DEF AloneInv
  <2>4. CASE status' = "completed"
    <3>1. status = "completed"
      BY <2>1, <2>4
    <3>2. overlapped
      BY <2>1, <3>1 DEF AloneInv, OneAtWork
    <3> QED
      BY <2>1, <3>2 DEF AloneInv
  <2> QED
    BY <2>3, <2>4
<1>6. ASSUME NEW w \in Workers, Begin(w) PROVE AloneInv'
  <2>1. CASE UNCHANGED <<pc, overlapped>>
    BY <1>1, <1>6, <2>1 DEF Begin, stored, row
  <2>2. CASE /\ pc' = [pc EXCEPT ![w] = pc'[w]] /\ pc'[w] \in {"search", "plan"}
             /\ status \notin {"completed", "cancelled"}
             /\ overlapped' = (overlapped \/ \E v \in Workers : pc[v] # "idle")
    <3>1. UNCHANGED <<status, report, evidence, mine, notified, lateFailures, weak>>
      BY <1>6 DEF Begin, stored, row
    <3>2. ASSUME ~overlapped' PROVE ~overlapped /\ \A v \in Workers : pc[v] = "idle"
      BY <2>2, <3>2
    <3>3. pc'[w] \in {"search", "plan"} /\ \A v \in Workers \ {w} : pc'[v] = pc[v]
      BY <2>2 DEF GroundedInv, WorkersOK
    <3> QED
      BY <2>2, <3>1, <3>2, <3>3 DEF AloneInv, Alone, Numbered, OneAtWork
  <2>3. \/ UNCHANGED <<pc, overlapped>>
        \/ /\ pc' = [pc EXCEPT ![w] = pc'[w]] /\ pc'[w] \in {"search", "plan"}
           /\ status \notin {"completed", "cancelled"}
           /\ overlapped' = (overlapped \/ \E v \in Workers : pc[v] # "idle")
    BY <1>6 DEF Begin, Goto, GroundedInv, WorkersOK
  <2> QED
    BY <2>1, <2>2, <2>3
\* The other workers of a run that has only one.
<1>7. ASSUME NEW w \in Workers, pc[w] # "idle", pc' = [pc EXCEPT ![w] = pc'[w]],
             mine' = [mine EXCEPT ![w] = mine'[w]], ~overlapped
      PROVE  /\ OneAtWork(w) /\ Numbered /\ \A v \in Workers \ {w} : OneAtWork(v)' /\ pc'[v] = "idle"
             /\ Alone' /\ (status # "completed" => notified <= lateFailures)
             /\ (status = "completed" => Honest(report) /\ notified <= 1 + lateFailures)
  <2>1. \A v \in Workers \ {w} : pc[v] = "idle" /\ pc'[v] = "idle"
    BY <1>7 DEF AloneInv, Alone, GroundedInv, WorkersOK
  <2> QED
    BY <1>7, <2>1 DEF AloneInv, Alone, OneAtWork
<1>8. ASSUME NEW w \in Workers, ReadPage(w) PROVE AloneInv'
  BY <1>1, <1>8 DEF ReadPage, row, history
<1>9. ASSUME NEW w \in Workers, TakeEvidence(w) PROVE AloneInv'
  <2>1. /\ UNCHANGED <<status, report, evidence, notified, lateFailures, weak, overlapped>>
        /\ pc' = [pc EXCEPT ![w] = pc'[w]] /\ mine' = [mine EXCEPT ![w] = mine'[w]]
        /\ pc[w] = "evidence" /\ pc'[w] \in {"gather", "compare"} /\ mine'[w] = evidence
    BY <1>9 DEF TakeEvidence, Goto, stored, row, history, GroundedInv, WorkersOK
  <2>2. ASSUME ~overlapped PROVE OneAtWork(w)' /\ status # "completed"
    BY <1>7, <2>1, <2>2 DEF OneAtWork
  <2> QED
    BY <1>7, <2>1, <2>2 DEF AloneInv, Numbered
<1>10. ASSUME NEW w \in Workers, Write(w) PROVE AloneInv'
  <2>1. /\ UNCHANGED <<status, report, evidence, notified, lateFailures, weak, overlapped, mine>>
        /\ pc' = [pc EXCEPT ![w] = pc'[w]] /\ pc[w] = "write" /\ pc'[w] = "stamp"
    BY <1>10 DEF Write, Goto, stored, row, history, GroundedInv, WorkersOK
  <2>2. mine' = [mine EXCEPT ![w] = mine'[w]]
    BY <2>1 DEF GroundedInv, WorkersOK
  <2>3. Honest(mine[w]) => Honest(mine[w])'
    <3>1. PICK rows : rows = mine[w]
      OBVIOUS
    <3>2. Honest(rows) => Honest(rows)'
      BY <2>1, <3>1, HonestLast DEF GroundedInv, EvidenceOK
    <3> QED
      BY <2>1, <3>1, <3>2
  <2>4. ASSUME ~overlapped PROVE OneAtWork(w)' /\ status # "completed"
    BY <1>7, <2>1, <2>2, <2>3, <2>4 DEF OneAtWork
  <2> QED
    BY <1>7, <2>1, <2>2, <2>4 DEF AloneInv, Numbered
<1>11. ASSUME NEW w \in Workers, Compare(w) PROVE AloneInv'
  <2>1. /\ UNCHANGED <<report, evidence, notified, lateFailures, overlapped, mine, sources>>
        /\ pc' = [pc EXCEPT ![w] = pc'[w]] /\ pc[w] = "compare" /\ pc'[w] = "write"
        /\ status' = "comparing"
    BY <1>11 DEF Compare, Goto, history, GroundedInv, WorkersOK
  <2>2. mine' = [mine EXCEPT ![w] = mine'[w]]
    BY <2>1 DEF GroundedInv, WorkersOK
  <2>3. Honest(mine[w])'
    <3>1. Cardinality(DomainsOf(mine[w])) < MinimumSources => weak'
      BY <1>11 DEF Compare
    <3>2. mine'[w] = mine[w] /\ sources' = sources
      BY <2>1
    <3> QED
      BY <3>1, <3>2 DEF Honest, DomainsOf
  <2>4. ASSUME ~overlapped PROVE OneAtWork(w)' /\ status # "completed"
    BY <1>7, <2>1, <2>2, <2>3, <2>4 DEF OneAtWork
  <2> QED
    BY <1>7, <2>1, <2>2, <2>4 DEF AloneInv, Numbered
<1>12. ASSUME NEW w \in Workers, Complete(w) PROVE AloneInv'
  <2>1. /\ UNCHANGED <<evidence, notified, lateFailures, overlapped, mine, sources, weak>>
        /\ pc' = [pc EXCEPT ![w] = pc'[w]] /\ pc[w] = "stamp" /\ pc'[w] = "notify"
        /\ status' = "completed" /\ report' = mine[w]
    BY <1>12 DEF Complete, Goto, history, GroundedInv, WorkersOK
  <2>2. mine' = [mine EXCEPT ![w] = mine'[w]]
    BY <2>1 DEF GroundedInv, WorkersOK
  <2>3. Honest(mine[w]) => Honest(mine[w])' /\ Honest(report)'
    BY <2>1 DEF Honest, DomainsOf
  <2>4. ASSUME ~overlapped PROVE OneAtWork(w)' /\ status # "completed" /\ Honest(report)'
    <3>1. OneAtWork(w) /\ (status # "completed" => notified <= lateFailures)
      BY <1>7, <2>1, <2>2, <2>4
    <3> QED
      BY <2>1, <2>3, <3>1 DEF OneAtWork
  <2> QED
    BY <1>7, <2>1, <2>2, <2>4 DEF AloneInv, Numbered
<1>13. ASSUME NEW w \in Workers, Notify(w) PROVE AloneInv'
  <2>1. /\ UNCHANGED <<evidence, lateFailures, overlapped, mine, sources, weak, report>>
        /\ pc' = [pc EXCEPT ![w] = pc'[w]] /\ pc[w] = "notify" /\ pc'[w] = "audit"
        /\ status' = "completed" /\ notified' = notified + 1
    BY <1>13 DEF Notify, Goto, stored, GroundedInv, WorkersOK
  <2>2. mine' = [mine EXCEPT ![w] = mine'[w]]
    BY <2>1 DEF GroundedInv, WorkersOK
  <2>3. (Honest(mine[w]) => Honest(mine[w])') /\ (Honest(report) => Honest(report)')
    BY <2>1 DEF Honest, DomainsOf
  <2>4. ASSUME ~overlapped PROVE OneAtWork(w)' /\ Honest(report)' /\ notified <= lateFailures
    <3>1. OneAtWork(w) /\ (status = "completed" => Honest(report))
      BY <1>7, <2>1, <2>2, <2>4
    <3> QED
      BY <2>1, <2>3, <3>1 DEF OneAtWork
  <2>5. ASSUME ~overlapped PROVE Alone' /\ Numbered /\ \A v \in Workers \ {w} : OneAtWork(v)'
    BY <1>7, <2>1, <2>2, <2>5
  <2> QED
    BY <2>1, <2>4, <2>5 DEF AloneInv, Numbered
<1>14. ASSUME NEW w \in Workers, Gather(w) PROVE AloneInv'
  <2>1. /\ UNCHANGED <<status, report, notified, lateFailures, overlapped, sources, weak>> /\ pc[w] = "gather"
    BY <1>14 DEF Gather, row, history
  <2>2. CASE NextSources(left[w], mine[w]) = {}
    <3>1. /\ UNCHANGED <<evidence, mine>> /\ pc' = [pc EXCEPT ![w] = pc'[w]] /\ pc'[w] = "compare"
      BY <1>14, <2>2 DEF Gather, Goto, GroundedInv, WorkersOK
    <3>2. mine' = [mine EXCEPT ![w] = mine'[w]]
      BY <3>1 DEF GroundedInv, WorkersOK
    <3>3. ASSUME ~overlapped PROVE OneAtWork(w)' /\ status # "completed"
      BY <1>7, <2>1, <3>1, <3>2, <3>3 DEF OneAtWork
    <3> QED
      BY <1>7, <2>1, <3>1, <3>2, <3>3 DEF AloneInv, Numbered
  <2>3. CASE NextSources(left[w], mine[w]) # {}
    <3>1. PICK e : /\ e = <<Min(NextSources(left[w], mine[w])), Cardinality(mine[w]) + 1>>
                   /\ e \notin evidence /\ evidence' = evidence \cup {e}
                   /\ mine' = [mine EXCEPT ![w] = @ \cup {e}] /\ UNCHANGED pc
      BY <1>14, <2>3 DEF Gather
    <3>2. /\ mine' = [mine EXCEPT ![w] = mine'[w]] /\ pc' = [pc EXCEPT ![w] = pc'[w]]
          /\ mine'[w] = mine[w] \cup {e}
      BY <3>1 DEF GroundedInv, WorkersOK
    <3>3. ASSUME ~overlapped PROVE OneAtWork(w)' /\ status # "completed" /\ mine[w] = evidence
      BY <1>7, <2>1, <3>1, <3>2, <3>3 DEF OneAtWork
    <3>4. ASSUME ~overlapped PROVE Numbered'
      <4>1. IsFiniteSet(evidence) /\ Cardinality(evidence) \in Nat
        BY FS_CardinalityType DEF GroundedInv, EvidenceOK
      <4>2. Cardinality(evidence') = Cardinality(evidence) + 1
        BY <3>1, <4>1, FS_AddElement
      <4>3. e[2] = Cardinality(evidence) + 1
        BY <3>1, <3>3, <3>4
      <4>4. Numbered
        BY <3>4 DEF AloneInv
      <4> QED
        BY ONLY <3>1, <4>1, <4>2, <4>3, <4>4 DEF Numbered
    <3> QED
      BY <1>7, <2>1, <3>1, <3>2, <3>3, <3>4 DEF AloneInv
  <2> QED
    BY <2>2, <2>3
<1> QED
  BY <1>3, <1>4, <1>5, <1>6, <1>8, <1>9, <1>10, <1>11, <1>12, <1>13, <1>14 DEF Next, WorkerStep
-----------------------------------------------------------------------------
\* Every delivery that waits, and every worker that may still announce, is paid
\* for by the first delivery, by a repeated one or by a late failure.
Waiting == {d \in Tries \X Nat : d[2] \in 1..queue[d[1]]}
Working == {w \in Workers : pc[w] \notin {"idle", "audit"}}

CountInv ==
    /\ bound.retries \in Nat /\ queue \in [Tries -> Nat] /\ retry \in [Workers -> Tries]
    /\ notified \in Nat /\ lateFailures \in Nat /\ duplicates \in Nat
    /\ IsFiniteSet(Waiting) /\ IsFiniteSet(Working)
    /\ notified + Cardinality(Waiting) + Cardinality(Working) <= 1 + lateFailures + duplicates

LEMMA CountInit == MCInit => CountInv
<1> SUFFICES ASSUME MCInit PROVE CountInv
  OBVIOUS
<1>1. /\ bound \in Bounds /\ queue = [r \in Tries |-> IF r = 0 THEN 1 ELSE 0]
      /\ pc = [w \in Workers |-> "idle"] /\ retry = [w \in Workers |-> 0]
      /\ notified = 0 /\ lateFailures = 0 /\ duplicates = 0
  BY DEF MCInit, Init
<1>2. bound.retries \in Nat
  BY <1>1, ResearchAssumption
<1>3. Working = {}
  BY <1>1 DEF Working
<1>4. Waiting = {<<0, 1>>}
  BY <1>1, <1>2 DEF Waiting, Tries
<1>5. /\ IsFiniteSet(Working) /\ Cardinality(Working) = 0
      /\ IsFiniteSet(Waiting) /\ Cardinality(Waiting) = 1
  BY <1>3, <1>4, FS_EmptySet, FS_Singleton
<1>6. queue \in [Tries -> Nat] /\ retry \in [Workers -> Tries]
  BY <1>1, <1>2 DEF Tries
<1> QED
  BY <1>1, <1>2, <1>5, <1>6 DEF CountInv

\* One delivery more in the queue is one more that waits, and one less is one less.
LEMMA Queued ==
    ASSUME CountInv, NEW r \in Tries, UNCHANGED bound
    PROVE  /\ queue' = [queue EXCEPT ![r] = @ + 1] =>
                 /\ queue' \in [Tries' -> Nat] /\ IsFiniteSet(Waiting')
                 /\ Cardinality(Waiting') = Cardinality(Waiting) + 1
           /\ queue[r] > 0 /\ queue' = [queue EXCEPT ![r] = @ - 1] =>
                 /\ queue' \in [Tries' -> Nat] /\ IsFiniteSet(Waiting')
                 /\ Cardinality(Waiting') = Cardinality(Waiting) - 1
<1>1. queue \in [Tries -> Nat] /\ IsFiniteSet(Waiting) /\ Tries' = Tries
  BY DEF CountInv, Tries
<1>2. ASSUME queue' = [queue EXCEPT ![r] = @ + 1]
      PROVE  /\ queue' \in [Tries' -> Nat] /\ IsFiniteSet(Waiting')
             /\ Cardinality(Waiting') = Cardinality(Waiting) + 1
  <2>1. queue' \in [Tries' -> Nat]
    BY <1>1, <1>2
  <2>2. Waiting' = Waiting \cup {<<r, queue[r] + 1>>} /\ <<r, queue[r] + 1>> \notin Waiting
    BY <1>1, <1>2, <2>1 DEF Waiting
  <2> QED
    BY <1>1, <2>1, <2>2, FS_AddElement
<1>3. ASSUME queue[r] > 0, queue' = [queue EXCEPT ![r] = @ - 1]
      PROVE  /\ queue' \in [Tries' -> Nat] /\ IsFiniteSet(Waiting')
             /\ Cardinality(Waiting') = Cardinality(Waiting) - 1
  <2>1. queue' \in [Tries' -> Nat]
    BY <1>1, <1>3
  <2>2. Waiting' = Waiting \ {<<r, queue[r]>>} /\ <<r, queue[r]>> \in Waiting
    BY <1>1, <1>3, <2>1 DEF Waiting
  <2> QED
    BY <1>1, <2>1, <2>2, FS_RemoveElement
<1> QED
  BY <1>2, <1>3

\* What a step of one worker does to the set of those that may still announce.
LEMMA AtWork ==
    ASSUME CountInv, GroundedInv, NEW w \in Workers, pc' = [pc EXCEPT ![w] = pc'[w]]
    PROVE  /\ IsFiniteSet(Working')
           /\ w \in Working /\ w \in Working' => Cardinality(Working') = Cardinality(Working)
           /\ w \notin Working /\ w \notin Working' => Cardinality(Working') = Cardinality(Working)
           /\ w \notin Working /\ w \in Working' => Cardinality(Working') = Cardinality(Working) + 1
           /\ w \in Working /\ w \notin Working' => Cardinality(Working') = Cardinality(Working) - 1
<1>1. IsFiniteSet(Working) /\ \A v \in Workers \ {w} : v \in Working' <=> v \in Working
  BY DEF CountInv, GroundedInv, WorkersOK, Working
<1>2. CASE w \in Working /\ w \notin Working'
  <2>1. Working' = Working \ {w}
    BY <1>1, <1>2 DEF Working
  <2> QED
    BY <1>1, <1>2, <2>1, FS_RemoveElement
<1>3. CASE w \notin Working /\ w \in Working'
  <2>1. Working' = Working \cup {w}
    BY <1>1, <1>3 DEF Working
  <2> QED
    BY <1>1, <1>3, <2>1, FS_AddElement
<1>4. CASE w \in Working <=> w \in Working'
  <2>1. Working' = Working
    BY <1>1, <1>4 DEF Working
  <2> QED
    BY <1>1, <1>4, <2>1
<1> QED
  BY <1>2, <1>3, <1>4

LEMMA CountStep == CountInv /\ GroundedInv /\ [Next]_vars => CountInv'
<1> SUFFICES ASSUME CountInv, GroundedInv, [Next]_vars PROVE CountInv'
  OBVIOUS
<1>0. /\ bound.retries \in Nat /\ queue \in [Tries -> Nat] /\ retry \in [Workers -> Tries]
      /\ notified \in Nat /\ lateFailures \in Nat /\ duplicates \in Nat
      /\ IsFiniteSet(Waiting) /\ IsFiniteSet(Working)
      /\ Cardinality(Waiting) \in Nat /\ Cardinality(Working) \in Nat
      /\ notified + Cardinality(Waiting) + Cardinality(Working) <= 1 + lateFailures + duplicates
  BY FS_CardinalityType DEF CountInv
<1>1. ASSUME UNCHANGED <<bound, queue>>
      PROVE  Waiting' = Waiting /\ Tries' = Tries
  BY <1>1 DEF Waiting, Tries
<1>2. ASSUME UNCHANGED <<bound, queue, retry, pc, notified, lateFailures, duplicates>>
      PROVE  CountInv'
  BY <1>0, <1>1, <1>2 DEF CountInv, Working
<1>3. CASE UNCHANGED vars \/ RequestCancel \/ \E w \in Workers : ReadPage(w)
  BY <1>2, <1>3 DEF vars, worker, history, RequestCancel, ReadPage, row
<1>4. CASE Duplicate
  <2>1. PICK r \in Tries : queue' = [queue EXCEPT ![r] = @ + 1]
    BY <1>4 DEF Duplicate
  <2>2. UNCHANGED <<bound, retry, pc, notified, lateFailures>> /\ duplicates' = duplicates + 1
    BY <1>4 DEF Duplicate, worker
  <2>3. /\ queue' \in [Tries' -> Nat] /\ IsFiniteSet(Waiting')
        /\ Cardinality(Waiting') = Cardinality(Waiting) + 1
    BY <2>1, <2>2, Queued
  <2>4. Working' = Working /\ Tries' = Tries
    BY <2>2 DEF Working, Tries
  <2> QED
    BY <1>0, <2>2, <2>3, <2>4 DEF CountInv
<1>5. ASSUME NEW w \in Workers, Begin(w) PROVE CountInv'
  <2>1. PICK r \in Tries : /\ queue[r] > 0 /\ queue' = [queue EXCEPT ![r] = @ - 1]
                           /\ UNCHANGED retry \/ retry' = [retry EXCEPT ![w] = r]
    BY <1>5 DEF Begin
  <2>2. UNCHANGED <<bound, notified, lateFailures, duplicates>>
    BY <1>5 DEF Begin
  <2>3. /\ queue' \in [Tries' -> Nat] /\ IsFiniteSet(Waiting')
        /\ Cardinality(Waiting') = Cardinality(Waiting) - 1
    BY <2>1, <2>2, Queued
  <2>4. pc' = [pc EXCEPT ![w] = pc'[w]] /\ w \notin Working
    BY <1>5 DEF Begin, Goto, Working, GroundedInv, WorkersOK
  <2>5. IsFiniteSet(Working') /\ Cardinality(Working') \in Nat
        /\ Cardinality(Working') <= Cardinality(Working) + 1
    BY <1>0, <2>4, AtWork
  <2>6. retry' \in [Workers -> Tries'] /\ Tries' = Tries
    BY <1>0, <2>1, <2>2 DEF Tries
  <2> QED
    BY <1>0, <2>2, <2>3, <2>5, <2>6 DEF CountInv
<1>6. ASSUME NEW w \in Workers, Cancelled(w) \/ Audit(w) \/ Die(w) PROVE CountInv'
  <2>1. Leave(w) /\ UNCHANGED <<bound, queue, notified, lateFailures, duplicates>>
    BY <1>6 DEF Cancelled, Audit, Die, history
  <2>2. /\ pc' = [pc EXCEPT ![w] = pc'[w]] /\ pc'[w] = "idle" /\ retry' \in [Workers -> Tries]
    BY <1>0, <2>1 DEF Leave, Goto, Tries, GroundedInv, WorkersOK
  <2>3. IsFiniteSet(Working') /\ Cardinality(Working') <= Cardinality(Working)
        /\ Cardinality(Working') \in Nat
    <3>1. w \notin Working'
      BY <2>2 DEF Working
    <3>2. /\ IsFiniteSet(Working')
          /\ \/ Cardinality(Working') = Cardinality(Working)
             \/ Cardinality(Working') = Cardinality(Working) - 1
      BY <2>2, <3>1, AtWork
    <3>3. Cardinality(Working') \in Nat
      BY <3>2, FS_CardinalityType
    <3> QED
      BY <1>0, <3>2, <3>3
  <2> QED
    BY <1>0, <1>1, <2>1, <2>2, <2>3 DEF CountInv
<1>7. ASSUME NEW w \in Workers, \/ Plan(w) \/ Search(w) \/ EndReading(w) \/ TakeEvidence(w)
                                \/ Gather(w) \/ Compare(w) \/ Write(w) \/ Complete(w)
      PROVE  CountInv'
  <2>1. UNCHANGED <<bound, queue, retry, notified, lateFailures, duplicates>>
    BY <1>7 DEF Plan, Search, EndReading, TakeEvidence, Gather, Compare, Write, Complete, history
  <2>2. /\ pc' = [pc EXCEPT ![w] = pc'[w]] /\ pc[w] \notin {"idle", "audit"}
        /\ pc'[w] \notin {"idle", "audit"}
    BY <1>7 DEF Plan, Search, EndReading, TakeEvidence, Gather, Compare, Write, Complete, Goto,
      GroundedInv, WorkersOK
  <2>3. IsFiniteSet(Working') /\ Cardinality(Working') = Cardinality(Working)
    BY <2>2, AtWork DEF Working
  <2> QED
    BY <1>0, <1>1, <2>1, <2>3 DEF CountInv
<1>8. ASSUME NEW w \in Workers, Notify(w) PROVE CountInv'
  <2>1. UNCHANGED <<bound, queue, retry, lateFailures, duplicates>> /\ notified' = notified + 1
    BY <1>8 DEF Notify
  <2>2. pc' = [pc EXCEPT ![w] = pc'[w]] /\ w \in Working /\ w \notin Working'
    BY <1>8 DEF Notify, Goto, GroundedInv, WorkersOK, Working
  <2>3. IsFiniteSet(Working') /\ Cardinality(Working') = Cardinality(Working) - 1
    BY <2>2, AtWork
  <2> QED
    BY <1>0, <1>1, <2>1, <2>3 DEF CountInv
\* A failure pays for the next try with the one that ends, or, late, with itself.
<1>9. ASSUME NEW w \in Workers, Fail(w) PROVE CountInv'
  <2>1. /\ UNCHANGED <<bound, notified, duplicates>> /\ Leave(w) /\ pc[w] # "idle"
        /\ lateFailures' = IF pc[w] \in {"notify", "audit"} THEN lateFailures + 1 ELSE lateFailures
    BY <1>9 DEF Fail
  <2>2. /\ pc' = [pc EXCEPT ![w] = pc'[w]] /\ w \notin Working' /\ retry' \in [Workers -> Tries]
    BY <1>0, <2>1 DEF Leave, Goto, Tries, Working, GroundedInv, WorkersOK
  <2>3. /\ IsFiniteSet(Working') /\ Cardinality(Working') \in Nat
        /\ Cardinality(Working') <= Cardinality(Working)
        /\ pc[w] # "audit" => Cardinality(Working') = Cardinality(Working) - 1
    <3>1. pc[w] # "audit" => w \in Working
      BY <2>1 DEF Working
    <3> QED
      BY <1>0, <2>2, <3>1, AtWork, FS_CardinalityType
  <2>4. /\ queue' \in [Tries' -> Nat] /\ IsFiniteSet(Waiting') /\ Cardinality(Waiting') \in Nat
        /\ Cardinality(Waiting') <= Cardinality(Waiting) + 1
    <3>1. CASE queue' = queue
      BY <1>0, <1>1, <2>1, <3>1
    <3>2. CASE queue' # queue
      <4>1. retry[w] \in 0..bound.retries
        BY <1>0 DEF Tries
      <4>2. PICK r \in Tries : r = retry[w] + 1 /\ queue' = [queue EXCEPT ![r] = @ + 1]
        BY <1>0, <1>9, <3>2, <4>1 DEF Fail, Tries
      <4>3. /\ queue' \in [Tries' -> Nat] /\ IsFiniteSet(Waiting')
            /\ Cardinality(Waiting') = Cardinality(Waiting) + 1
        BY <2>1, <4>2, Queued
      <4> QED
        BY <1>0, <4>3
    <3> QED
      BY <3>1, <3>2
  <2>5. Tries' = Tries /\ lateFailures' \in Nat
    BY <1>0, <2>1 DEF Tries
  <2> QED
    BY <1>0, <2>1, <2>2, <2>3, <2>4, <2>5 DEF CountInv
<1> QED
  BY <1>3, <1>4, <1>5, <1>6, <1>7, <1>8, <1>9 DEF Next, WorkerStep
-----------------------------------------------------------------------------
\* A step of the instance is one of one module, and a stutter of the other.
LEMMA OneComponent == [MCNext]_mcvars => [Next]_vars /\ [Monitor!Next]_monitorvars
BY DEF MCNext, mcvars, OnResearch, OnMonitor

\* Whatever failed, was tried again, repeated or lost, a completed report rests on
\* stored evidence of usable sources within the controls, says so when it rests on too
\* few domains, and gives each citation number once unless two workers met
\* (execute_research_run).
THEOREM ReportsAreGrounded == MCSpec => []ReportIsGrounded
<1>1. GroundedInv /\ AloneInv => ReportIsGrounded
  BY DEF GroundedInv, SourcesOK, EvidenceOK, AloneInv, Honest, Numbered, MergedControls,
    ReportIsGrounded
<1> QED
  BY GroundedInit, GroundedStep, AloneInit, AloneStep, OneComponent, <1>1, PTL DEF MCSpec

\* A completed report is announced once, but for what a late failure or a repeated
\* delivery explains (execute_research_run).
THEOREM CompletionToldOnce == MCSpec => []AnnouncedOnce
<1>1. AloneInv /\ CountInv => AnnouncedOnce
  <2> SUFFICES ASSUME AloneInv, CountInv PROVE AnnouncedOnce
    OBVIOUS
  <2>1. Cardinality(Waiting) \in Nat /\ Cardinality(Working) \in Nat
    BY FS_CardinalityType DEF CountInv
  <2>2. notified <= 1 + lateFailures + duplicates
    BY <2>1 DEF CountInv
  <2>3. ~overlapped => notified <= 1 + lateFailures
    BY DEF AloneInv
  <2> QED
    BY <2>2, <2>3 DEF AnnouncedOnce, CountInv
<1> QED
  BY GroundedInit, GroundedStep, AloneInit, AloneStep, CountInit, CountStep, OneComponent,
    <1>1, PTL DEF MCSpec

\* However scans overlap or come late, a period brings at most one scheduled check but
\* for an edit that put an older time back; and with its workers at rest the user has
\* been told of the content the next check compares with, unless checks overlapped, or
\* one failed late or was lost (evaluate_due_monitors, execute_monitor_run).
THEOREM ChangeIsToldOnce == MCSpec => []ChangeToldOnce
<1>1. ScheduleInv /\ TellInv => ChangeToldOnce
  BY DEF ScheduleInv, TellInv, ChangeToldOnce, Monitor!OncePerPeriod, Monitor!ChangeTold, Undisturbed,
    Monitor!Locked
<1> QED
  BY ScheduleInit, ScheduleStep, TellInit, TellStep, OneComponent, <1>1, PTL DEF MCSpec
=============================================================================
