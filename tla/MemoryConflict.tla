--------------------------- MODULE MemoryConflict ---------------------------
(***************************************************************************)
(* The long-term memories of a workspace's coworkers and the conflicts     *)
(* between them (ai.memory, core.memory_views, core.v4_services).  A       *)
(* memory "subject: value" disagrees with one of another coworker that has *)
(* the same subject and another content.  A conversation turn is stored as *)
(* "User: ...", so that it has the subject "user"; what a resolution       *)
(* writes has the subject "resolved" and the old one.                      *)
(*                                                                         *)
(* Memories are numbered in the order they are written.  A conflict is a   *)
(* pair of them, and the database keeps one row for each pair.             *)
(***************************************************************************)
EXTENDS Integers, FiniteSets

CONSTANTS
    Coworkers, Subjects, Values,
    Scans, Resolvers,   \* requests
    MaxTold, MaxMemories,   \* bounds: memories written first, and with resolutions
    MaxEdits        \* bound: memories edited or deleted, conflicts reported

MemoryAssumption == {MaxTold, MaxMemories, MaxEdits} \subseteq Nat

VARIABLES
    entry,          \* entry[m]: a memory row
    written,        \* memories written so far
    conflict,       \* conflict[p]: the row of pair p
    found,          \* found[s]: the conflicts scan s has still to create
    resolving,      \* resolving[r]: the conflict resolver r has before them
    edits

memoryvars == <<entry, written, conflict, found, resolving, edits>>

Memories == 1..MaxMemories
Pairs == {p \in SUBSET Memories : Cardinality(p) = 2}
Nothing == {}

NoEntry == [owner |-> "none", subject |-> <<"none", 0>>, value |-> 0, ref |-> Nothing]
Live == {m \in Memories : entry[m] # NoEntry}

NoConflict == [status |-> "none", subject |-> <<"none", 0>>, contents |-> {}]

Init ==
    /\ entry = [m \in Memories |-> NoEntry] /\ written = 0
    /\ conflict = [p \in Pairs |-> NoConflict]
    /\ found = [s \in Scans |-> Nothing] /\ resolving = [r \in Resolvers |-> Nothing]
    /\ edits = 0
-----------------------------------------------------------------------------
\* write_memory, once for each owner.
Write(owners, subject, value, ref) ==
    /\ written + Cardinality(owners) <= MaxMemories
    /\ \E at \in [owners -> written + 1..written + Cardinality(owners)] :
          /\ \A c, d \in owners : at[c] = at[d] => c = d
          /\ entry' = [m \in Memories |->
                IF \E c \in owners : at[c] = m
                THEN [owner |-> CHOOSE c \in owners : at[c] = m, subject |-> subject,
                      value |-> value, ref |-> ref]
                ELSE entry[m]]
    /\ written' = written + Cardinality(owners)

(* MemoryListCreateView.post.                                              *)
Remember ==
    /\ written < MaxTold
    /\ \E c \in Coworkers, s \in Subjects, v \in Values : Write({c}, <<s, 0>>, v, Nothing)
    /\ UNCHANGED <<conflict, found, resolving, edits>>

(* remember_conversation_turn: no two turns have the same content.         *)
RememberTurn ==
    /\ written < MaxTold
    /\ \E c \in Coworkers : Write({c}, <<"user", 0>>, written + 1, Nothing)
    /\ UNCHANGED <<conflict, found, resolving, edits>>

(* MemoryDetailView.patch and delete.                                      *)
Edit ==
    /\ edits < MaxEdits /\ edits' = edits + 1
    /\ \E m \in Live :
          \/ \E v \in Values : entry' = [entry EXCEPT ![m].value = v]
          \/ entry' = [entry EXCEPT ![m] = NoEntry]
    /\ UNCHANGED <<written, conflict, found, resolving>>
-----------------------------------------------------------------------------
\* The row a conflict gets: both contents as they are read.
Row(p, subject) == [status |-> "open", subject |-> subject, contents |-> {entry[m].value : m \in p}]

Disagree(p) ==
    /\ p \subseteq Live
    /\ Cardinality({entry[m].owner : m \in p}) = 2
    /\ Cardinality({entry[m].subject : m \in p}) = 1
    /\ Cardinality({entry[m].value : m \in p}) = 2

(* detect_memory_conflicts reads every memory at once ...                  *)
Scan(s) ==
    /\ found[s] = Nothing
    /\ found' = [found EXCEPT ![s] =
          {<<p, Row(p, entry[CHOOSE m \in p : TRUE].subject)>> : p \in {q \in Pairs : Disagree(q)}}]
    /\ UNCHANGED <<entry, written, conflict, resolving, edits>>

\* A pair has one row: the first stays.
GetOrCreate(p, row) ==
    conflict' = [conflict EXCEPT ![p] = IF @.status = "none" THEN row ELSE @]

(* ... and creates the conflicts one by one.                               *)
CreateFound(s) ==
    /\ \E f \in found[s] :
          /\ GetOrCreate(f[1], f[2])
          /\ found' = [found EXCEPT ![s] = @ \ {f}]
    /\ UNCHANGED <<entry, written, resolving, edits>>

(* report_memory_conflict: any two memories, under any subject.            *)
ReportConflict ==
    /\ edits < MaxEdits /\ edits' = edits + 1
    /\ \E p \in Pairs, s \in Subjects : p \subseteq Live /\ GetOrCreate(p, Row(p, <<s, 0>>))
    /\ UNCHANGED <<entry, written, found, resolving>>

(* MemoryConflictResolveView.post reads the conflict ...                   *)
OpenConflict(r) ==
    /\ resolving[r] = Nothing
    /\ \E p \in Pairs : conflict[p].status # "none" /\ resolving' = [resolving EXCEPT ![r] = p]
    /\ UNCHANGED <<entry, written, conflict, found, edits>>

\* Mutant of Resolvable: what the view read is good enough.
ResolvableAlways(p) == TRUE

Resolvable(p) == conflict[p].status = "open"

(* ... and resolve_memory_conflict reads it again under its lock: the      *)
(* coworkers of the memories that are left all get the chosen content, or  *)
(* a merged one.                                                           *)
Resolve(r) ==
    /\ resolving[r] # Nothing
    /\ resolving' = [resolving EXCEPT ![r] = Nothing]
    /\ LET p == resolving[r] IN
       \/ /\ Resolvable(p)
          /\ conflict' = [conflict EXCEPT ![p].status = "resolved"]
          /\ \E value \in conflict[p].contents \cup Values :
                Write({entry[m].owner : m \in p \cap Live},
                      <<conflict[p].subject[1], conflict[p].subject[2] + 1>>, value, p)
       \/ ~Resolvable(p) /\ UNCHANGED <<conflict, entry, written>>
    /\ UNCHANGED <<found, edits>>

Next ==
    \/ Remember \/ RememberTurn \/ Edit \/ ReportConflict
    \/ \E s \in Scans : Scan(s) \/ CreateFound(s)
    \/ \E r \in Resolvers : OpenConflict(r) \/ Resolve(r)

Spec == Init /\ [][Next]_memoryvars
-----------------------------------------------------------------------------
TypeOK ==
    /\ written \in 0..MaxMemories /\ edits \in 0..MaxEdits
    /\ \A m \in Memories : m > written => entry[m] = NoEntry
    /\ \A p \in Pairs :
          /\ conflict[p].status \in {"none", "open", "resolved"}
          /\ conflict[p].status # "none" => \A m \in p : m <= written
    /\ \A s \in Scans : \A f \in found[s] : f[1] \in Pairs
    /\ resolving \in [Resolvers -> Pairs \cup {Nothing}]

\* However many scans, reports and members meet on one pair of memories
\* (resolve_memory_conflict), it is settled once: each coworker is given one
\* content for it, and the conflict is not opened again.
SettledOnce ==
    \A p \in Pairs :
        LET given == {m \in Live : entry[m].ref = p} IN
        /\ given # {} => conflict[p].status = "resolved"
        /\ \A m, n \in given : entry[m].owner = entry[n].owner => m = n
=============================================================================
