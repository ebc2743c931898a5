----------------------------- MODULE CompanyGraph -----------------------------
(***************************************************************************)
(* Layer 0 of the relationship graph (src/forge/graph): builders, that is  *)
(* processes running `forge graph-cordis`, take CORDIS projects one by one *)
(* and record a tie from every industrial participant to the project.  A   *)
(* project is one transaction of several statements at READ COMMITTED:     *)
(* what it writes is seen by others only when it commits, and until then   *)
(* others that write the same row, or insert the same key, wait.           *)
(*                                                                         *)
(* A company is identified by its key: normalized_name is unique and is    *)
(* never updated.  Of the attributes that are filled in when they are      *)
(* missing, registry_id is modelled: it is the one resolution reads.       *)
(***************************************************************************)
EXTENDS Naturals, FiniteSets, SequencesExt, Relation

CONSTANTS
    Builders,
    Projects,       \* CORDIS references
    Organisations,  \* per project: its participants, in order
    Topic,          \* per project: acronym or title, None when it has neither
    SourceRef,      \* per project: its pointer, None when it has no id
    LegalSuffixes,  \* name tokens that are legal forms
    Foreign,        \* name tokens without a letter of a-z or a digit
    MaxRuns,        \* bound: number of projects begun
    Absent,         \* no such company; not written
    None            \* no registry id, no pointer, no company

ASSUME GraphAssumption ==
    /\ Absent # None /\ None \notin Projects
    /\ \A p \in Projects :
         /\ Organisations[p] \in Seq(Range(Organisations[p]))
         /\ \A o \in Range(Organisations[p]) : o.registry # Absent

Industrial(p) == {o \in Range(Organisations[p]) : o.industrial}
Participants  == UNION {Industrial(p) : p \in Projects}
Registries    == {o.registry : o \in Participants} \ {None}

---------------------------------------------------------------------------
(***************************************************************************)
(* normalize_company_name.  A name is the sequence of its tokens.          *)
(***************************************************************************)
Key(name) ==
    LET flattened == SelectSeq(name, LAMBDA t : t \notin Foreign)
        kept      == SelectSeq(flattened, LAMBDA t : t \notin LegalSuffixes)
    IN  IF kept # <<>> THEN kept ELSE flattened

Keys == {Key(o.name) : o \in Participants}

---------------------------------------------------------------------------
VARIABLES
    companies,   \* company: per key its registry_id, or None, or Absent
    ties,        \* relationship
    builder,     \* per builder: the project under way and where it stands
    written,     \* per builder: its uncommitted rows
    runs,        \* number of projects begun
    populated,   \* history: the projects committed so far
    last,        \* history: the project committed last
    overlap,     \* history, per builder: another one committed since it began
    raced        \* history: a builder with an overlap has committed

graph   == <<companies, ties>>
history == <<populated, last, overlap, raced>>
graphVars == <<graph, builder, written, runs, history>>

\* A tie; run tells apart the rows that different runs have added.
Tie == [company : Keys, topic : {Topic[p] : p \in Projects},
        ref : {SourceRef[p] : p \in Projects}, run : Nat]
Idle == [pc |-> "idle", project |-> None, run |-> 0, at |-> 0, company |-> None]
Unwritten == [companies |-> [k \in Keys |-> Absent], ties |-> {}]

GraphInit ==
    /\ companies = [k \in Keys |-> Absent]
    /\ ties = {}
    /\ builder = [b \in Builders |-> Idle]
    /\ written = [b \in Builders |-> Unwritten]
    /\ runs = 0
    /\ populated = {}
    /\ last = None
    /\ overlap = [b \in Builders |-> FALSE]
    /\ raced = FALSE

\* What b's queries see: the committed rows under its own.
Seen(b) ==
    [k \in Keys |-> IF written[b].companies[k] # Absent THEN written[b].companies[k]
                    ELSE companies[k]]

Orgs(b) == Organisations[builder[b].project]
Org(b)  == Orgs(b)[builder[b].at]

GoTo(b, pc, k) == builder' = [builder EXCEPT ![b].pc = pc, ![b].company = k]

\* The next participant, or the commit.
GoOn(b) ==
    builder' = [builder EXCEPT ![b].pc = IF builder[b].at = Len(Orgs(b)) THEN "commit" ELSE "registry",
                               ![b].at = @ + 1, ![b].company = None]

\* populate_from_cordis_project: the project is fetched and parsed before the
\* first statement.
StartProject(b, p) ==
    /\ builder[b].pc = "idle"
    /\ runs < MaxRuns
    /\ runs' = runs + 1
    /\ builder' = [builder EXCEPT ![b] =
         [pc |-> IF Organisations[p] = <<>> THEN "commit" ELSE "registry",
          project |-> p, run |-> runs + 1, at |-> 1, company |-> None]]
    /\ overlap' = [overlap EXCEPT ![b] = FALSE]
    /\ UNCHANGED <<graph, written, populated, last, raced>>

\* Universities and research organisations are skipped.
SkipOrganisation(b) ==
    /\ builder[b].pc = "registry"
    /\ ~ Org(b).industrial
    /\ GoOn(b)
    /\ UNCHANGED <<graph, written, runs, history>>

---------------------------------------------------------------------------
(***************************************************************************)
(* resolve_company, statement by statement.                                *)
(***************************************************************************)
Matches(b) == {k \in Keys : Org(b).registry # None /\ Seen(b)[k] = Org(b).registry}

\* Mutant of ByRegistry: resolution by name only.
ByRegistryNever(b) ==
    /\ builder[b].pc = "registry"
    /\ Org(b).industrial
    /\ GoTo(b, "name", None)
    /\ UNCHANGED <<graph, written, runs, history>>

\* .first() of an unordered query: any of the companies with this registry id.
ByRegistry(b) ==
    /\ builder[b].pc = "registry"
    /\ Org(b).industrial
    /\ \/ Matches(b) = {} /\ GoTo(b, "name", None)
       \/ \E k \in Matches(b) : GoTo(b, "select", k)
    /\ UNCHANGED <<graph, written, runs, history>>

\* Mutant of FillsRegistry: the last record's registry id is kept.
FillsRegistryAlways(b, k) == Org(b).registry # None /\ Seen(b)[k] # Absent

\* _fill_missing: an empty attribute is filled in, a known one stays.
FillsRegistry(b, k) == Org(b).registry # None /\ Seen(b)[k] = None

ByName(b) ==
    LET k == Key(Org(b).name) IN
    /\ builder[b].pc = "name"
    /\ GoTo(b, CASE Seen(b)[k] = Absent  -> "insert"
                 [] FillsRegistry(b, k)  -> "fill"
                 [] OTHER                -> "select", k)
    /\ UNCHANGED <<graph, written, runs, history>>

HoldsRow(c, k) == written[c].companies[k] # Absent

\* The INSERT or the UPDATE of a company, flushed: an UPDATE writes over
\* whatever was committed since the row was read.
WriteCompany(b) ==
    LET k == builder[b].company IN
    /\ \/ builder[b].pc = "insert" /\ companies[k] = Absent
       \/ builder[b].pc = "fill"
    /\ \A c \in Builders \ {b} : ~ HoldsRow(c, k)
    /\ written' = [written EXCEPT ![b].companies[k] = Org(b).registry]
    /\ GoTo(b, "select", k)
    /\ UNCHANGED <<graph, runs, history>>

---------------------------------------------------------------------------
(***************************************************************************)
(* add_relationship: a SELECT and an INSERT.                               *)
(***************************************************************************)
NewTie(b) ==
    [company |-> builder[b].company, topic |-> Topic[builder[b].project],
     ref |-> SourceRef[builder[b].project], run |-> builder[b].run]

Same(t, u) == t.company = u.company /\ t.topic = u.topic /\ t.ref = u.ref

\* The dedup key compares NULL with NULL (_eq_or_null) ...
Recorded(b, rows) == \E t \in rows : Same(t, NewTie(b))

\* ... and uq_relationship_dedup does not hold for a NULL topic or source_ref.
Duplicates(b, rows) ==
    NewTie(b).topic # None /\ NewTie(b).ref # None /\ Recorded(b, rows)

\* Mutant of SelectTie: `topic = NULL` and `source_ref = NULL` match no row.
SelectTieByEquality(b) ==
    /\ builder[b].pc = "select"
    /\ IF Duplicates(b, ties \cup written[b].ties) THEN GoOn(b)
       ELSE GoTo(b, "tie", builder[b].company)
    /\ UNCHANGED <<graph, written, runs, history>>

SelectTie(b) ==
    /\ builder[b].pc = "select"
    /\ IF Recorded(b, ties \cup written[b].ties) THEN GoOn(b)
       ELSE GoTo(b, "tie", builder[b].company)
    /\ UNCHANGED <<graph, written, runs, history>>

\* Mutant of InsertTie: each participant is committed when it has its tie.
InsertTieAndCommit(b) ==
    /\ builder[b].pc = "tie"
    /\ ~ Duplicates(b, ties)
    /\ \A c \in Builders \ {b} : ~ Duplicates(b, written[c].ties)
    /\ companies' = Seen(b)
    /\ ties' = ties \cup {NewTie(b)}
    /\ written' = [written EXCEPT ![b] = Unwritten]
    /\ GoOn(b)
    /\ UNCHANGED <<runs, history>>

InsertTie(b) ==
    /\ builder[b].pc = "tie"
    /\ ~ Duplicates(b, ties)
    /\ \A c \in Builders \ {b} : ~ Duplicates(b, written[c].ties)
    /\ written' = [written EXCEPT ![b].ties = @ \cup {NewTie(b)}]
    /\ GoOn(b)
    /\ UNCHANGED <<graph, runs, history>>

---------------------------------------------------------------------------
(***************************************************************************)
(* The end of a project.                                                   *)
(***************************************************************************)
Commit(b) ==
    /\ builder[b].pc = "commit"
    /\ companies' = Seen(b)
    /\ ties' = ties \cup written[b].ties
    /\ written' = [written EXCEPT ![b] = Unwritten]
    /\ builder' = [builder EXCEPT ![b] = Idle]
    /\ populated' = populated \cup {builder[b].project}
    /\ last' = builder[b].project
    /\ overlap' = [c \in Builders |-> IF c = b THEN overlap[c] ELSE TRUE]
    /\ raced' = (raced \/ overlap[b])
    /\ UNCHANGED runs

\* Mutant of Abort: cmd_graph_cordis goes on without a rollback.
AbortWithoutRollback(b) ==
    /\ builder' = [builder EXCEPT ![b] = Idle]
    /\ UNCHANGED <<graph, written, runs, history>>

\* cmd_graph_cordis rolls back and goes on with the next project.
Abort(b) ==
    /\ written' = [written EXCEPT ![b] = Unwritten]
    /\ builder' = [builder EXCEPT ![b] = Idle]
    /\ UNCHANGED <<graph, runs, history>>

\* Another builder has committed the key or the tie: unique violation.
UniqueViolation(b) ==
    /\ \/ builder[b].pc = "insert" /\ companies[builder[b].company] # Absent
       \/ builder[b].pc = "tie" /\ Duplicates(b, ties)
    /\ Abort(b)

\* The process or its connection dies, and the server rolls back.
Crash(b) ==
    /\ builder[b].pc # "idle"
    /\ Abort(b)

WaitsFor(b, c) ==
    /\ b # c
    /\ \/ builder[b].pc \in {"insert", "fill"} /\ HoldsRow(c, builder[b].company)
       \/ builder[b].pc = "tie" /\ Duplicates(b, written[c].ties)

CircularWait(b) == TransitiveClosure([c, d \in Builders |-> WaitsFor(c, d)], Builders)[b, b]

\* PostgreSQL ends a circular wait by aborting one of the transactions.
DeadlockDetected(b) ==
    /\ CircularWait(b)
    /\ Abort(b)

\* One statement, or the commit, of a project under way.
Statement(b) ==
    \/ SkipOrganisation(b)
    \/ ByRegistry(b)
    \/ ByName(b)
    \/ WriteCompany(b)
    \/ SelectTie(b)
    \/ InsertTie(b)
    \/ Commit(b)
    \/ UniqueViolation(b)
    \/ DeadlockDetected(b)

GraphNext ==
    \E b \in Builders :
      \/ \E p \in Projects : StartProject(b, p)
      \/ Statement(b)
      \/ Crash(b)

\* A process that has begun a project executes its statements, and the server
\* answers or aborts them.
Fairness == \A b \in Builders : WF_graphVars(Statement(b))

GraphSpec == GraphInit /\ [][GraphNext]_graphVars /\ Fairness

---------------------------------------------------------------------------
(***************************************************************************)
(* The graph as others see it implements the ledger of whole projects.     *)
(***************************************************************************)
Present == {k \in Keys : companies[k] # Absent}
Entered == {[company |-> t.company, topic |-> t.topic, ref |-> t.ref] : t \in ties}
NamedIn == [p \in Projects |-> {Key(o.name) : o \in {x \in Industrial(p) : x.registry = None}}]

Ledger == INSTANCE ProjectLedger WITH present <- Present, entered <- Entered, Named <- NamedIn

\* Layer 0 implements the ledger: for everyone else, populate_from_cordis_project
\* enters its project in one step or not at all (cordis_layer0.py:80), with every
\* participant that only its name identifies, and no company or tie is lost.
LedgerSpec == Ledger!Spec

---------------------------------------------------------------------------
(***************************************************************************)
(* Properties.                                                             *)
(***************************************************************************)
\* The variables have their types.
GraphTypeOK ==
    /\ companies \in [Keys -> Registries \cup {None, Absent}]
    /\ ties \subseteq Tie
    /\ \A b \in Builders :
         /\ builder[b].pc \in {"idle", "registry", "name", "insert", "fill", "select", "tie", "commit"}
         /\ builder[b].pc \in {"insert", "fill", "select", "tie"} => builder[b].company \in Keys
         /\ builder[b].pc # "idle" => builder[b].project \in Projects
         /\ written[b].companies \in [Keys -> Registries \cup {None, Absent}]
         /\ written[b].ties \subseteq Tie
    /\ runs \in Nat

\* A company is in the graph only with a tie, and a tie only with its company
\* and with all the others of its project (cordis_layer0.py:80): whatever fails
\* half-way, an importer that dies, a unique violation or a deadlock, leaves
\* nothing of the project behind.
ProjectIsWhole ==
    /\ \A k \in Keys : companies[k] # Absent <=> \E t \in ties : t.company = k
    /\ \A p \in populated : \A o \in Industrial(p) :
         \E t \in ties : /\ t.topic = Topic[p] /\ t.ref = SourceRef[p]
                         /\ o.registry = None => t.company = Key(o.name)
    /\ \A t \in ties : \E p \in populated : t.topic = Topic[p] /\ t.ref = SourceRef[p]

\* A registry id names one company (graph/repository.py:51-58), unless two
\* projects that name it were committed side by side.
RegistryNamesOneCompany ==
    ~ raced => \A k, l \in Keys :
                 companies[k] = companies[l] /\ companies[k] \in Registries => k = l

\* A company never loses its registry id, whatever builders do, and as long as none have
\* overlapped it keeps the one it has ("without overwriting known values",
\* graph/repository.py:22). One that overlaps another may put its own id instead.
RegistryKept ==
    [][ \A k \in Keys : companies[k] \in Registries
          => /\ companies'[k] \in Registries
             /\ ~ raced' => companies'[k] = companies[k] ]_graphVars

\* A project repeated before anything else was committed adds nothing, whatever
\* its participants are and however their names and ids collide, as long as no
\* builders have overlapped.
RepeatAddsNothing ==
    [][ \A b \in Builders :
          (/\ builder[b].pc = "commit" /\ builder'[b] # builder[b]
           /\ builder[b].project = last /\ ~ raced')
          => UNCHANGED graph ]_graphVars

\* Every project that is begun ends: no builder waits for ever on another one.
ProjectsEnd == \A b \in Builders : builder[b].pc # "idle" ~> builder[b].pc = "idle"

\* What the code does not keep: "Layer-0 re-runs converge" (graph/repository.py:95).
RerunsConverge ==
    [][ \A b \in Builders :
          (/\ builder[b].pc = "commit" /\ builder'[b] # builder[b]
           /\ builder[b].project \in populated /\ ~ raced')
          => UNCHANGED ties ]_graphVars

==========================================================================
