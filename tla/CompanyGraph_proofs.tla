------------------------- MODULE CompanyGraph_proofs -------------------------
(***************************************************************************)
(* Proofs about CompanyGraph and Matching, for any builders, matchers,     *)
(* projects, profiles, names and ids: Layer 0 implements the ledger of     *)
(* whole projects; builders that do not overlap keep registry ids apart    *)
(* and repeat a project without effect; and hypotheses are of one matching,*)
(* rest on ties of the graph and survive a second matching.                *)
(***************************************************************************)
EXTENDS Matching, FiniteSetTheorems, TLAPS

Pcs == {"idle", "registry", "name", "insert", "fill", "select", "tie", "commit"}

Attributes == Registries \cup {None, Absent}

Rows == [companies : [Keys -> Attributes], ties : SUBSET Tie]

Place == [pc : Pcs, project : Projects \cup {None}, run : Nat, at : Nat,
          company : Keys \cup {None}]

TypeInv ==
    /\ companies \in [Keys -> Attributes]
    /\ ties \subseteq Tie
    /\ builder \in [Builders -> Place]
    /\ written \in [Builders -> Rows]
    /\ runs \in Nat

\* t belongs to the project that b works on.
Ours(b, t) == t.topic = Topic[builder[b].project] /\ t.ref = SourceRef[builder[b].project]

Visible(b) == ties \cup written[b].ties

\* Where the code stands agrees with what it works on.
PlaceInv(b) ==
    /\ builder[b].pc # "idle" => builder[b].project \in Projects
    /\ builder[b].pc \notin {"idle", "commit"} => builder[b].at \in 1 .. Len(Orgs(b))
    /\ builder[b].pc = "commit" => builder[b].at = Len(Orgs(b)) + 1
    /\ builder[b].pc \in {"name", "insert", "fill", "select", "tie"} => Org(b).industrial
    /\ builder[b].pc \in {"insert", "fill", "select", "tie"} => builder[b].company \in Keys
    /\ builder[b].pc \in {"insert", "fill"} => builder[b].company = Key(Org(b).name)
    /\ builder[b].pc \in {"select", "tie"} /\ Org(b).registry = None
         => builder[b].company = Key(Org(b).name)
    /\ builder[b].pc \in {"select", "tie"} => Seen(b)[builder[b].company] # Absent

\* The participants that b has done with have their tie, and a company is written
\* with its tie, but for the one b works on.
RowsInv(b) ==
    /\ builder[b].pc = "idle" => written[b] = Unwritten
    /\ \A t \in written[b].ties : Ours(b, t) /\ Seen(b)[t.company] # Absent
    /\ \A k \in Keys : written[b].companies[k] # Absent
         => \/ \E t \in Visible(b) : t.company = k /\ Ours(b, t)
            \/ builder[b].company = k /\ builder[b].pc \in {"select", "tie"}
    /\ builder[b].pc # "idle" => \A i \in 1 .. (builder[b].at - 1) : Orgs(b)[i].industrial
         => \E t \in Visible(b) : /\ Ours(b, t)
                                  /\ Orgs(b)[i].registry = None => t.company = Key(Orgs(b)[i].name)

CommittedInv ==
    /\ \A k \in Keys : companies[k] # Absent => \E t \in ties : t.company = k
    /\ \A t \in ties : companies[t.company] # Absent
    /\ populated \subseteq Projects
    /\ \A p \in populated : \A o \in Industrial(p) :
         \E t \in ties : /\ t.topic = Topic[p] /\ t.ref = SourceRef[p]
                         /\ o.registry = None => t.company = Key(o.name)
    /\ \A t \in ties : \E p \in populated : t.topic = Topic[p] /\ t.ref = SourceRef[p]

LocalInv(b) == PlaceInv(b) /\ RowsInv(b)

GraphInv == TypeInv /\ CommittedInv /\ \A b \in Builders : LocalInv(b)

---------------------------------------------------------------------------
\* A participant has a key of Keys and, if any, a registry id of Registries.
LEMMA ParticipantFacts ==
    ASSUME NEW p \in Projects, NEW i \in 1 .. Len(Organisations[p]),
           Organisations[p][i].industrial
    PROVE  /\ Organisations[p][i] \in Industrial(p)
           /\ Key(Organisations[p][i].name) \in Keys
           /\ Organisations[p][i].registry \in Registries \cup {None}
           /\ Organisations[p][i].registry # Absent
PROOF
<1> DEFINE o == Organisations[p][i]
<1>1. Organisations[p] \in Seq(Range(Organisations[p]))
  BY GraphAssumption
<1>2. i \in DOMAIN Organisations[p]
  BY <1>1
<1>3. o \in Range(Organisations[p])
  BY <1>2 DEF Range
<1>4. o \in Industrial(p)
  BY <1>3 DEF Industrial
<1>5. o \in Participants
  BY <1>4 DEF Participants
<1>6. Key(o.name) \in Keys
  BY <1>5 DEF Keys
<1>7. o.registry \in Registries \cup {None}
  BY <1>5 DEF Registries
<1>8. o.registry # Absent
  BY <1>3, GraphAssumption
<1> QED BY <1>4, <1>6, <1>7, <1>8

\* What a project's participants are: the industrial ones among its positions.
LEMMA IndustrialPositions ==
    ASSUME NEW p \in Projects, NEW o \in Industrial(p)
    PROVE  \E i \in 1 .. Len(Organisations[p]) : Organisations[p][i] = o
PROOF
<1>1. Organisations[p] \in Seq(Range(Organisations[p]))
  BY GraphAssumption
<1>2. PICK i \in DOMAIN Organisations[p] : Organisations[p][i] = o
  BY DEF Industrial, Range
<1> QED BY <1>1, <1>2

\* No builder disturbs what holds of another one: it adds rows and deletes none.
LEMMA OthersKeep ==
    ASSUME TypeInv, NEW c \in Builders, LocalInv(c),
           builder'[c] = builder[c], written'[c] = written[c],
           ties \subseteq ties',
           \A k \in Keys : companies[k] # Absent => companies'[k] # Absent
    PROVE  LocalInv(c)'
PROOF
<1>1. /\ Orgs(c)' = Orgs(c)
      /\ Org(c)' = Org(c)
  BY DEF Orgs, Org
<1>2. \A k \in Keys : Seen(c)[k] # Absent => Seen(c)'[k] # Absent
  BY DEF Seen
<1>3. /\ Visible(c) \subseteq Visible(c)'
      /\ \A t : Ours(c, t)' <=> Ours(c, t)
  BY DEF Visible, Ours
<1>4. PlaceInv(c)'
  BY <1>1, <1>2 DEF LocalInv, PlaceInv
<1>5. \A t \in written[c].ties : t.company \in Keys
  BY DEF TypeInv, Rows, Tie
<1>6. RowsInv(c)'
  <2>1. builder'[c].pc = "idle" => written'[c] = Unwritten
    BY DEF LocalInv, RowsInv
  <2>2. \A t \in written'[c].ties : Ours(c, t)' /\ Seen(c)'[t.company] # Absent
    BY <1>2, <1>3, <1>5 DEF LocalInv, RowsInv
  <2>3. \A k \in Keys : written'[c].companies[k] # Absent
          => \/ \E t \in Visible(c)' : t.company = k /\ Ours(c, t)'
             \/ builder'[c].company = k /\ builder'[c].pc \in {"select", "tie"}
    BY <1>3 DEF LocalInv, RowsInv
  <2>4. builder'[c].pc # "idle" => \A i \in 1 .. (builder'[c].at - 1) : Orgs(c)'[i].industrial
         => \E t \in Visible(c)' :
              /\ Ours(c, t)'
              /\ Orgs(c)'[i].registry = None => t.company = Key(Orgs(c)'[i].name)
    BY <1>1, <1>3 DEF LocalInv, RowsInv
  <2> QED BY <2>1, <2>2, <2>3, <2>4 DEF RowsInv
<1> QED BY <1>4, <1>6 DEF LocalInv

---------------------------------------------------------------------------
\* The graph and the builders begin as GraphInv says.
LEMMA InitInv == GraphInit => GraphInv
PROOF
<1> SUFFICES ASSUME GraphInit PROVE GraphInv
  OBVIOUS
<1>1. Idle \in Place
  BY DEF Idle, Place, Pcs
<1>2. Unwritten \in Rows
  BY DEF Unwritten, Rows, Attributes
<1>3. TypeInv
  BY <1>1, <1>2 DEF GraphInit, TypeInv, Attributes
<1>4. CommittedInv
  BY DEF GraphInit, CommittedInv
<1>5. ASSUME NEW b \in Builders PROVE LocalInv(b)
  <2>1. builder[b].pc = "idle"
    BY DEF GraphInit, Idle
  <2>2. written[b] = Unwritten
    BY DEF GraphInit
  <2>3. written[b].ties = {} /\ \A k \in Keys : written[b].companies[k] = Absent
    BY <2>2 DEF Unwritten
  <2> QED BY <2>1, <2>2, <2>3 DEF LocalInv, PlaceInv, RowsInv
<1> QED BY <1>3, <1>4, <1>5 DEF GraphInv

\* What the participant under way is.
LEMMA CurrentFacts ==
    ASSUME NEW b \in Builders, PlaceInv(b),
           builder[b].pc \notin {"idle", "commit"}, Org(b).industrial
    PROVE  /\ Key(Org(b).name) \in Keys
           /\ Org(b).registry \in Registries \cup {None}
           /\ Org(b).registry # Absent
PROOF
<1>1. builder[b].project \in Projects /\ builder[b].at \in 1 .. Len(Orgs(b))
  BY DEF PlaceInv
<1> QED BY <1>1, ParticipantFacts DEF Org, Orgs

\* A step of b that writes nothing keeps what is committed, and what holds of the
\* other builders.
LEMMA ReadStep ==
    ASSUME GraphInv, NEW b \in Builders, UNCHANGED <<graph, written, runs, populated>>,
           NEW place \in Place, builder' = [builder EXCEPT ![b] = place], LocalInv(b)'
    PROVE  GraphInv'
PROOF
<1>1. TypeInv'
  BY DEF GraphInv, TypeInv, graph
<1>2. CommittedInv'
  BY DEF GraphInv, CommittedInv, graph
<1>3. ASSUME NEW c \in Builders PROVE LocalInv(c)'
  <2>1. CASE c = b
    BY <2>1
  <2>2. CASE c # b
    <3>1. builder'[c] = builder[c] /\ written'[c] = written[c]
      BY <2>2 DEF GraphInv, TypeInv
    <3>2. ties \subseteq ties' /\ companies' = companies
      BY DEF graph
    <3> QED BY <3>1, <3>2, OthersKeep DEF GraphInv
  <2> QED BY <2>1, <2>2
<1> QED BY <1>1, <1>2, <1>3 DEF GraphInv

\* Going on to the next participant, with the tie of this one visible if it is
\* industrial.
LEMMA GoOnKeepsLocalInv ==
    ASSUME TypeInv, TypeInv', NEW b \in Builders, LocalInv(b),
           builder[b].pc \notin {"idle", "commit"}, GoOn(b),
           ties \subseteq ties', written[b].ties \subseteq written'[b].ties,
           companies' = companies, written'[b].companies = written[b].companies,
           \A t \in written'[b].ties : Ours(b, t) /\ Seen(b)[t.company] # Absent,
           Org(b).industrial => \E t \in Visible(b)' :
              /\ Ours(b, t) /\ t.company = builder[b].company
              /\ Org(b).registry = None => t.company = Key(Org(b).name),
           ~ Org(b).industrial => builder[b].pc = "registry"
    PROVE  LocalInv(b)'
PROOF
<1> DEFINE n == Len(Orgs(b))  at == builder[b].at
<1>1. /\ builder[b].project \in Projects
      /\ at \in 1 .. n
  BY DEF LocalInv, PlaceInv
<1>2. n \in Nat
  BY <1>1, GraphAssumption DEF Orgs
<1>3. /\ builder'[b].project = builder[b].project
      /\ builder'[b].at = at + 1
      /\ builder'[b].pc = IF at = n THEN "commit" ELSE "registry"
  BY DEF GoOn, TypeInv, Place
<1>4. /\ Orgs(b)' = Orgs(b)
      /\ \A t : Ours(b, t)' <=> Ours(b, t)
      /\ Seen(b)' = Seen(b)
      /\ Visible(b) \subseteq Visible(b)'
  BY <1>3 DEF Orgs, Ours, Seen, Visible
<1>5. PlaceInv(b)'
  BY <1>1, <1>2, <1>3, <1>4 DEF PlaceInv
<1>6. \A t \in written'[b].ties : Ours(b, t)' /\ Seen(b)'[t.company] # Absent
  BY <1>4
<1>7. ASSUME NEW k \in Keys, written'[b].companies[k] # Absent
      PROVE  \E t \in Visible(b)' : t.company = k /\ Ours(b, t)'
  <2>1. \/ \E t \in Visible(b) : t.company = k /\ Ours(b, t)
        \/ builder[b].company = k /\ builder[b].pc \in {"select", "tie"}
    BY <1>7 DEF LocalInv, RowsInv
  <2>2. CASE \E t \in Visible(b) : t.company = k /\ Ours(b, t)
    BY <2>2, <1>4
  <2>3. CASE builder[b].company = k /\ builder[b].pc \in {"select", "tie"}
    BY <2>3, <1>4
  <2> QED BY <2>1, <2>2, <2>3
<1>8. ASSUME NEW i \in 1 .. (builder'[b].at - 1), Orgs(b)'[i].industrial
      PROVE  \E t \in Visible(b)' :
               /\ Ours(b, t)'
               /\ Orgs(b)'[i].registry = None => t.company = Key(Orgs(b)'[i].name)
  <2>1. i \in 1 .. (at - 1) \/ i = at
    BY <1>1, <1>2, <1>3
  <2>2. CASE i = at
    BY <2>2, <1>8, <1>4 DEF Org
  <2>3. CASE i \in 1 .. (at - 1)
    BY <2>3, <1>8, <1>4 DEF LocalInv, RowsInv
  <2> QED BY <2>1, <2>2, <2>3
<1> QED BY <1>3, <1>5, <1>6, <1>7, <1>8 DEF LocalInv, RowsInv

---------------------------------------------------------------------------
(***************************************************************************)
(* The statements that only read.                                          *)
(***************************************************************************)
\* A step that leaves the rows and the position of b alone keeps RowsInv, as long
\* as the company under way stays under way.
LEMMA SamePositionKeepsRows ==
    ASSUME NEW b \in Builders, RowsInv(b), UNCHANGED <<graph, written>>,
           builder[b].pc # "idle", builder'[b].pc # "idle",
           builder'[b].project = builder[b].project, builder'[b].at = builder[b].at,
           builder[b].pc \in {"select", "tie"}
             => builder'[b].company = builder[b].company /\ builder'[b].pc \in {"select", "tie"}
    PROVE  RowsInv(b)'
PROOF
<1>1. /\ Orgs(b)' = Orgs(b) /\ Seen(b)' = Seen(b) /\ Visible(b)' = Visible(b)
      /\ \A t : Ours(b, t)' <=> Ours(b, t)
  BY DEF Orgs, Seen, Visible, Ours, graph
<1>2. \A t \in written'[b].ties : Ours(b, t)' /\ Seen(b)'[t.company] # Absent
  BY <1>1 DEF RowsInv
<1>3. \A k \in Keys : written'[b].companies[k] # Absent
        => \/ \E t \in Visible(b)' : t.company = k /\ Ours(b, t)'
           \/ builder'[b].company = k /\ builder'[b].pc \in {"select", "tie"}
  BY <1>1 DEF RowsInv
<1>4. \A i \in 1 .. (builder'[b].at - 1) : Orgs(b)'[i].industrial
        => \E t \in Visible(b)' :
             /\ Ours(b, t)'
             /\ Orgs(b)'[i].registry = None => t.company = Key(Orgs(b)'[i].name)
  BY <1>1 DEF RowsInv
<1> QED BY <1>2, <1>3, <1>4 DEF RowsInv

\* A statement that moves b to another point of the same participant.
LEMMA MoveStep ==
    ASSUME GraphInv, NEW b \in Builders, UNCHANGED <<graph, written, runs, history>>,
           builder[b].pc \in {"registry", "name", "select"}, Org(b).industrial,
           NEW pc \in {"name", "insert", "fill", "select", "tie"}, NEW k \in Keys \cup {None},
           GoTo(b, pc, k),
           pc # "name" => k \in Keys,
           pc \in {"insert", "fill"} => k = Key(Org(b).name),
           pc \in {"select", "tie"} /\ Org(b).registry = None => k = Key(Org(b).name),
           pc \in {"select", "tie"} => Seen(b)[k] # Absent,
           builder[b].pc = "select" => k = builder[b].company /\ pc = "tie"
    PROVE  GraphInv'
PROOF
<1> DEFINE place == [builder[b] EXCEPT !.pc = pc, !.company = k]
<1>1. builder[b] \in Place /\ builder \in [Builders -> Place]
  BY DEF GraphInv, TypeInv
<1>2. place \in Place
  BY <1>1 DEF Place, Pcs
<1>3. builder' = [builder EXCEPT ![b] = place]
  BY <1>1 DEF GoTo
<1>4. builder'[b] = place
  BY <1>1, <1>3
<1>5. /\ builder'[b].pc = pc /\ builder'[b].company = k
      /\ builder'[b].project = builder[b].project /\ builder'[b].at = builder[b].at
  BY <1>1, <1>4 DEF Place
<1>6. Orgs(b)' = Orgs(b) /\ Org(b)' = Org(b) /\ Seen(b)' = Seen(b)
  BY <1>5 DEF Orgs, Org, Seen, graph
<1>7. PlaceInv(b)'
  BY <1>5, <1>6 DEF GraphInv, LocalInv, PlaceInv
<1>8. RowsInv(b)'
  BY <1>5, SamePositionKeepsRows DEF GraphInv, LocalInv
<1> HIDE DEF place
<1> QED BY <1>2, <1>3, <1>7, <1>8, ReadStep DEF LocalInv, history

\* Going on to the next organisation leads to a place in the project.
LEMMA GoOnPlace ==
    ASSUME TypeInv, NEW b \in Builders, GoOn(b)
    PROVE  \E place \in Place : builder' = [builder EXCEPT ![b] = place]
PROOF
<1> DEFINE pc == IF builder[b].at = Len(Orgs(b)) THEN "commit" ELSE "registry"
           place == [builder[b] EXCEPT !.pc = pc, !.at = builder[b].at + 1, !.company = None]
<1>1. builder[b] \in Place /\ builder \in [Builders -> Place]
  BY DEF TypeInv
<1>2. builder[b].at + 1 \in Nat
  BY <1>1 DEF Place
<1>3. pc \in Pcs
  BY DEF Pcs
<1>4. builder' = [builder EXCEPT ![b] = place]
  BY <1>1 DEF GoOn
<1> HIDE DEF pc
<1>5. place \in Place
  BY <1>1, <1>2, <1>3 DEF Place
<1> QED BY <1>4, <1>5

\* A statement after which b goes on to the next participant, nothing written.
LEMMA SkipStep ==
    ASSUME GraphInv, NEW b \in Builders, UNCHANGED <<graph, written, runs, history>>,
           builder[b].pc \notin {"idle", "commit"}, GoOn(b),
           Org(b).industrial => \E t \in Visible(b) :
              /\ Ours(b, t) /\ t.company = builder[b].company
              /\ Org(b).registry = None => t.company = Key(Org(b).name),
           ~ Org(b).industrial => builder[b].pc = "registry"
    PROVE  GraphInv'
PROOF
<1>1. PICK place \in Place : builder' = [builder EXCEPT ![b] = place]
  BY GoOnPlace DEF GraphInv
<1>2. TypeInv'
  BY <1>1 DEF GraphInv, TypeInv, graph
<1>3. Visible(b)' = Visible(b) /\ ties' = ties /\ companies' = companies
  BY DEF Visible, graph
<1>4. \A t \in written'[b].ties : Ours(b, t) /\ Seen(b)[t.company] # Absent
  BY DEF GraphInv, LocalInv, RowsInv
<1>5. TypeInv /\ LocalInv(b)
  BY DEF GraphInv
<1>6. LocalInv(b)'
  BY <1>2, <1>3, <1>4, <1>5, GoOnKeepsLocalInv
<1> QED BY <1>1, <1>6, ReadStep DEF history

\* Skipping an organisation keeps the invariant.
LEMMA SkipOrganisationStep ==
    ASSUME GraphInv, NEW b \in Builders, SkipOrganisation(b)
    PROVE  GraphInv'
BY SkipStep DEF SkipOrganisation

\* So does the lookup by registry id,
LEMMA ByRegistryStep ==
    ASSUME GraphInv, NEW b \in Builders, ByRegistry(b)
    PROVE  GraphInv'
PROOF
<1>1. Org(b).industrial /\ builder[b].pc = "registry"
  BY DEF ByRegistry
<1>2. CASE GoTo(b, "name", None)
  BY <1>1, <1>2, MoveStep DEF ByRegistry
<1>3. ASSUME NEW k \in Matches(b), GoTo(b, "select", k) PROVE GraphInv'
  <2>1. k \in Keys /\ Org(b).registry # None /\ Seen(b)[k] = Org(b).registry
    BY DEF Matches
  <2>2. Org(b).registry # Absent
    BY <1>1, CurrentFacts DEF GraphInv, LocalInv
  <2> QED BY <1>1, <1>3, <2>1, <2>2, MoveStep DEF ByRegistry
<1> QED BY <1>2, <1>3 DEF ByRegistry

\* the lookup by name,
LEMMA ByNameStep ==
    ASSUME GraphInv, NEW b \in Builders, ByName(b)
    PROVE  GraphInv'
PROOF
<1> DEFINE k == Key(Org(b).name)
<1>1. builder[b].pc = "name" /\ UNCHANGED <<graph, written, runs, history>>
  BY DEF ByName
<1>2. Org(b).industrial
  BY <1>1 DEF GraphInv, LocalInv, PlaceInv
<1>3. k \in Keys
  BY <1>1, <1>2, CurrentFacts DEF GraphInv, LocalInv
<1>4. \/ GoTo(b, "insert", k)
      \/ GoTo(b, "fill", k)
      \/ Seen(b)[k] # Absent /\ GoTo(b, "select", k)
  <2>1. CASE Seen(b)[k] = Absent
    BY <2>1 DEF ByName, FillsRegistry
  <2>2. CASE Seen(b)[k] # Absent
    BY <2>2 DEF ByName, FillsRegistry
  <2> QED BY <2>1, <2>2
<1> HIDE DEF k
<1>5. CASE GoTo(b, "insert", k)
  BY <1>1, <1>2, <1>3, <1>5, MoveStep DEF k
<1>6. CASE GoTo(b, "fill", k)
  BY <1>1, <1>2, <1>3, <1>6, MoveStep DEF k
<1>7. CASE Seen(b)[k] # Absent /\ GoTo(b, "select", k)
  BY <1>1, <1>2, <1>3, <1>7, MoveStep DEF k
<1> QED BY <1>4, <1>5, <1>6, <1>7

\* the lookup of the tie,
LEMMA SelectTieStep ==
    ASSUME GraphInv, NEW b \in Builders, SelectTie(b)
    PROVE  GraphInv'
PROOF
<1>1. builder[b].pc = "select" /\ UNCHANGED <<graph, written, runs, history>>
  BY DEF SelectTie
<1>2. /\ Org(b).industrial /\ builder[b].company \in Keys
      /\ Org(b).registry = None => builder[b].company = Key(Org(b).name)
      /\ Seen(b)[builder[b].company] # Absent
  BY <1>1 DEF GraphInv, LocalInv, PlaceInv
<1>3. CASE Recorded(b, ties \cup written[b].ties) /\ GoOn(b)
  <2>1. \E t \in Visible(b) : Ours(b, t) /\ t.company = builder[b].company
    BY <1>3 DEF Recorded, Same, NewTie, Ours, Visible
  <2> QED BY <1>1, <1>2, <1>3, <2>1, SkipStep
<1>4. CASE GoTo(b, "tie", builder[b].company)
  BY <1>1, <1>2, <1>4, MoveStep
<1> QED BY <1>3, <1>4 DEF SelectTie

---------------------------------------------------------------------------
(***************************************************************************)
(* The statements that write.                                              *)
(***************************************************************************)
\* What b writes or forgets is seen by no one else.
LEMMA UncommittedStep ==
    ASSUME GraphInv, NEW b \in Builders, UNCHANGED <<graph, runs, populated>>,
           NEW rows \in Rows, written' = [written EXCEPT ![b] = rows],
           NEW place \in Place, builder' = [builder EXCEPT ![b] = place], LocalInv(b)'
    PROVE  GraphInv'
PROOF
<1>1. TypeInv'
  BY DEF GraphInv, TypeInv, graph
<1>2. CommittedInv'
  BY DEF GraphInv, CommittedInv, graph
<1>3. ASSUME NEW c \in Builders PROVE LocalInv(c)'
  <2>1. CASE c = b
    BY <2>1
  <2>2. CASE c # b
    <3>1. builder'[c] = builder[c] /\ written'[c] = written[c]
      BY <2>2 DEF GraphInv, TypeInv
    <3>2. ties \subseteq ties' /\ companies' = companies
      BY DEF graph
    <3> QED BY <3>1, <3>2, OthersKeep DEF GraphInv
  <2> QED BY <2>1, <2>2
<1> QED BY <1>1, <1>2, <1>3 DEF GraphInv

\* the insert or update of a company,
LEMMA WriteCompanyStep ==
    ASSUME GraphInv, NEW b \in Builders, WriteCompany(b)
    PROVE  GraphInv'
PROOF
<1> DEFINE k == builder[b].company
           registry == Org(b).registry
           place == [builder[b] EXCEPT !.pc = "select", !.company = k]
           rows == [written[b] EXCEPT !.companies[k] = registry]
<1>1. builder[b].pc \in {"insert", "fill"}
  BY DEF WriteCompany
<1>2. Org(b).industrial /\ k \in Keys /\ k = Key(Org(b).name)
  BY <1>1 DEF GraphInv, LocalInv, PlaceInv
<1>3. registry \in Registries \cup {None} /\ registry # Absent
  BY <1>1, <1>2, CurrentFacts DEF GraphInv, LocalInv
<1>4. /\ builder \in [Builders -> Place] /\ builder[b] \in Place
      /\ written \in [Builders -> Rows] /\ written[b] \in Rows
  BY DEF GraphInv, TypeInv
<1>5. place \in Place
  BY <1>2, <1>4 DEF Place, Pcs
<1>6. builder' = [builder EXCEPT ![b] = place]
  BY <1>4 DEF WriteCompany, GoTo
<1>7. /\ builder'[b].pc = "select" /\ builder'[b].company = k
      /\ builder'[b].project = builder[b].project /\ builder'[b].at = builder[b].at
  BY <1>4, <1>6 DEF Place
<1>8. [written[b].companies EXCEPT ![k] = registry] \in [Keys -> Attributes]
  BY <1>3, <1>4 DEF Rows, Attributes
<1>9. rows \in Rows
  BY <1>4, <1>8 DEF Rows
<1>10. written' = [written EXCEPT ![b] = rows]
  BY <1>4 DEF WriteCompany
<1>11. written'[b].ties = written[b].ties
  BY <1>4, <1>10 DEF Rows
<1>12. written'[b].companies = [written[b].companies EXCEPT ![k] = registry]
  BY <1>4, <1>10 DEF Rows
<1>13. /\ written'[b].companies[k] = registry
       /\ \A l \in Keys : l # k => written'[b].companies[l] = written[b].companies[l]
  BY <1>2, <1>4, <1>12 DEF Rows
<1>14. companies' = companies /\ ties' = ties
  BY DEF WriteCompany, graph
<1>15. \A l \in Keys : Seen(b)[l] # Absent \/ l = k => Seen(b)'[l] # Absent
  BY <1>3, <1>13, <1>14 DEF Seen
<1>16. /\ Orgs(b)' = Orgs(b) /\ Org(b)' = Org(b) /\ Visible(b)' = Visible(b)
       /\ \A t : Ours(b, t)' <=> Ours(b, t)
  BY <1>7, <1>11, <1>14 DEF Orgs, Org, Visible, Ours
<1> HIDE DEF place, rows
<1>17. PlaceInv(b)'
  BY <1>1, <1>2, <1>7, <1>15, <1>16 DEF GraphInv, LocalInv, PlaceInv
<1>18. RowsInv(b)'
  <2>1. \A t \in written[b].ties : t.company \in Keys
    BY <1>4 DEF Rows, Tie
  <2>2. \A t \in written'[b].ties : Ours(b, t)' /\ Seen(b)'[t.company] # Absent
    BY <2>1, <1>11, <1>15, <1>16 DEF GraphInv, LocalInv, RowsInv
  <2>3. ASSUME NEW l \in Keys, written'[b].companies[l] # Absent
        PROVE  \/ \E t \in Visible(b)' : t.company = l /\ Ours(b, t)'
               \/ builder'[b].company = l /\ builder'[b].pc \in {"select", "tie"}
    BY <2>3, <1>1, <1>7, <1>13, <1>16 DEF GraphInv, LocalInv, RowsInv
  <2>4. \A i \in 1 .. (builder'[b].at - 1) : Orgs(b)'[i].industrial
          => \E t \in Visible(b)' :
               /\ Ours(b, t)'
               /\ Orgs(b)'[i].registry = None => t.company = Key(Orgs(b)'[i].name)
    BY <1>1, <1>7, <1>16 DEF GraphInv, LocalInv, RowsInv
  <2> QED BY <1>7, <2>2, <2>3, <2>4 DEF RowsInv
<1>19. UNCHANGED <<graph, runs, populated>>
  BY DEF WriteCompany, history
<1> QED BY <1>5, <1>6, <1>9, <1>10, <1>17, <1>18, <1>19, UncommittedStep DEF LocalInv

\* the insert of a tie,
LEMMA InsertTieStep ==
    ASSUME GraphInv, NEW b \in Builders, InsertTie(b)
    PROVE  GraphInv'
PROOF
<1> DEFINE new == NewTie(b)
           rows == [written[b] EXCEPT !.ties = @ \cup {new}]
<1>1. builder[b].pc = "tie"
  BY DEF InsertTie
<1>2. /\ Org(b).industrial /\ builder[b].company \in Keys
      /\ Org(b).registry = None => builder[b].company = Key(Org(b).name)
      /\ Seen(b)[builder[b].company] # Absent
      /\ builder[b].project \in Projects
  BY <1>1 DEF GraphInv, LocalInv, PlaceInv
<1>3. /\ TypeInv
      /\ builder \in [Builders -> Place] /\ builder[b] \in Place
      /\ written \in [Builders -> Rows] /\ written[b] \in Rows
  BY DEF GraphInv, TypeInv
<1>4. new \in Tie
  BY <1>2, <1>3 DEF NewTie, Tie, Place
<1>5. Ours(b, new) /\ new.company = builder[b].company
  BY DEF NewTie, Ours
<1> HIDE DEF new
<1>6. rows \in Rows
  BY <1>3, <1>4 DEF Rows
<1>7. written' = [written EXCEPT ![b] = rows]
  BY <1>3 DEF InsertTie, new
<1>8. /\ written'[b].ties = written[b].ties \cup {new}
      /\ written'[b].companies = written[b].companies
  BY <1>3, <1>7 DEF Rows
<1>9. companies' = companies /\ ties' = ties /\ UNCHANGED <<graph, runs, populated>> /\ GoOn(b)
  BY DEF InsertTie, graph, history
<1>10. PICK place \in Place : builder' = [builder EXCEPT ![b] = place]
  BY <1>3, <1>9, GoOnPlace
<1>11. TypeInv'
  BY <1>3, <1>6, <1>7, <1>9, <1>10 DEF TypeInv, graph
<1> HIDE DEF rows
<1>12. \A t \in written'[b].ties : Ours(b, t) /\ Seen(b)[t.company] # Absent
  BY <1>2, <1>5, <1>8 DEF GraphInv, LocalInv, RowsInv
<1>13. new \in Visible(b)'
  BY <1>8 DEF Visible
<1>14. LocalInv(b)
  BY DEF GraphInv
<1>15. LocalInv(b)'
  BY <1>1, <1>2, <1>3, <1>5, <1>8, <1>9, <1>11, <1>12, <1>13, <1>14, GoOnKeepsLocalInv
<1> QED BY <1>6, <1>7, <1>9, <1>10, <1>15, UncommittedStep

\* the end of a project that failed, by whatever cause,
LEMMA AbortStep ==
    ASSUME GraphInv, NEW b \in Builders, Abort(b)
    PROVE  GraphInv'
PROOF
<1>1. Idle \in Place /\ Unwritten \in Rows
  BY DEF Idle, Place, Pcs, Unwritten, Rows, Attributes
<1>2. builder' = [builder EXCEPT ![b] = Idle] /\ written' = [written EXCEPT ![b] = Unwritten]
  BY DEF Abort
<1>3. builder'[b] = Idle /\ written'[b] = Unwritten
  BY <1>2 DEF GraphInv, TypeInv
<1>4. builder'[b].pc = "idle"
  BY <1>3 DEF Idle
<1>5. written'[b].ties = {} /\ \A k \in Keys : written'[b].companies[k] = Absent
  BY <1>3 DEF Unwritten
<1>6. LocalInv(b)'
  BY <1>3, <1>4, <1>5 DEF LocalInv, PlaceInv, RowsInv
<1> QED BY <1>1, <1>2, <1>6, UncommittedStep DEF Abort, history

\* the start of one
LEMMA StartProjectStep ==
    ASSUME GraphInv, NEW b \in Builders, NEW p \in Projects, StartProject(b, p)
    PROVE  GraphInv'
PROOF
<1> DEFINE place == [pc |-> IF Organisations[p] = <<>> THEN "commit" ELSE "registry",
                     project |-> p, run |-> runs + 1, at |-> 1, company |-> None]
<1>1. builder' = [builder EXCEPT ![b] = place]
  BY DEF StartProject
<1>2. runs \in Nat /\ runs' = runs + 1 /\ builder[b].pc = "idle"
  BY DEF GraphInv, TypeInv, StartProject
<1>3. place \in Place
  BY <1>2 DEF Place, Pcs
<1>4. companies' = companies /\ ties' = ties /\ written' = written /\ populated' = populated
  BY DEF StartProject, graph
<1>5. TypeInv'
  BY <1>1, <1>2, <1>3, <1>4 DEF GraphInv, TypeInv
<1>6. CommittedInv'
  BY <1>4 DEF GraphInv, CommittedInv
<1>7. ASSUME NEW c \in Builders, c # b PROVE LocalInv(c)'
  BY <1>1, <1>4, <1>7, OthersKeep DEF GraphInv, TypeInv
<1>8. LocalInv(b)'
  <2>1. builder'[b] = place
    BY <1>1 DEF GraphInv, TypeInv
  <2>2. /\ builder'[b].project = p /\ builder'[b].at = 1
        /\ builder'[b].pc = IF Organisations[p] = <<>> THEN "commit" ELSE "registry"
    BY <2>1
  <2>3. written'[b] = Unwritten
    BY <1>2, <1>4 DEF GraphInv, LocalInv, RowsInv
  <2>4. written'[b].ties = {} /\ \A k \in Keys : written'[b].companies[k] = Absent
    BY <2>3 DEF Unwritten
  <2>5. Orgs(b)' = Organisations[p] /\ Organisations[p] \in Seq(Range(Organisations[p]))
    BY <2>2, GraphAssumption DEF Orgs
  <2>6. /\ Organisations[p] = <<>> => Len(Organisations[p]) = 0
        /\ Organisations[p] # <<>> => Len(Organisations[p]) \in Nat /\ Len(Organisations[p]) >= 1
    BY <2>5
  <2>7. PlaceInv(b)'
    BY <2>2, <2>5, <2>6 DEF PlaceInv
  <2>8. RowsInv(b)'
    BY <2>2, <2>4 DEF RowsInv
  <2> QED BY <2>7, <2>8 DEF LocalInv
<1> QED BY <1>5, <1>6, <1>7, <1>8 DEF GraphInv

\* What a builder about to commit has seen to: every industrial participant.
LEMMA CommitFacts ==
    ASSUME GraphInv, NEW b \in Builders, Commit(b)
    PROVE  /\ builder[b].project \in Projects
           /\ ties' = Visible(b)
           /\ companies' = [k \in Keys |-> IF written[b].companies[k] # Absent
                                           THEN written[b].companies[k] ELSE companies[k]]
           /\ \A t \in written[b].ties : Ours(b, t) /\ companies'[t.company] # Absent
           /\ \A k \in Keys : written[b].companies[k] # Absent
                => \E t \in Visible(b) : t.company = k /\ Ours(b, t)
           /\ \A o \in Industrial(builder[b].project) : \E t \in Visible(b) :
                Ours(b, t) /\ (o.registry = None => t.company = Key(o.name))
PROOF
<1> DEFINE p == builder[b].project
<1>1. builder[b].pc = "commit" /\ PlaceInv(b) /\ RowsInv(b)
  BY DEF Commit, GraphInv, LocalInv
<1>2. p \in Projects /\ builder[b].at = Len(Orgs(b)) + 1
  BY <1>1 DEF PlaceInv
<1>3. Len(Orgs(b)) \in Nat
  BY <1>2, GraphAssumption DEF Orgs
<1>4. ASSUME NEW o \in Industrial(p)
      PROVE  \E t \in Visible(b) : Ours(b, t) /\ (o.registry = None => t.company = Key(o.name))
  <2>1. PICK i \in 1 .. Len(Orgs(b)) : Orgs(b)[i] = o
    BY <1>2, IndustrialPositions DEF Orgs
  <2>2. i \in 1 .. (builder[b].at - 1) /\ o.industrial
    BY <1>2, <1>3 DEF Industrial
  <2> QED BY <1>1, <2>1, <2>2 DEF RowsInv
<1>5. ties' = Visible(b) /\ companies' = Seen(b)
  BY DEF Commit, Visible
<1>6. \A t \in written[b].ties : Ours(b, t) /\ companies'[t.company] # Absent
  BY <1>1, <1>5 DEF RowsInv
<1>7. \A k \in Keys : written[b].companies[k] # Absent
        => \E t \in Visible(b) : t.company = k /\ Ours(b, t)
  BY <1>1 DEF RowsInv
<1> QED BY <1>2, <1>4, <1>5, <1>6, <1>7 DEF Seen

\* and the commit.
LEMMA CommitStep ==
    ASSUME GraphInv, NEW b \in Builders, Commit(b)
    PROVE  GraphInv'
PROOF
<1> DEFINE p == builder[b].project
<1>1. /\ written' = [written EXCEPT ![b] = Unwritten] /\ builder' = [builder EXCEPT ![b] = Idle]
      /\ populated' = populated \cup {p} /\ runs' = runs
  BY DEF Commit
<1>2. Idle \in Place /\ Unwritten \in Rows
  BY DEF Idle, Place, Pcs, Unwritten, Rows, Attributes
<1>3. written[b] \in Rows /\ companies \in [Keys -> Attributes] /\ ties \subseteq Tie
  BY DEF GraphInv, TypeInv
<1>4. written[b].companies \in [Keys -> Attributes] /\ written[b].ties \subseteq Tie
  BY <1>3 DEF Rows
<1>5. ties' = ties \cup written[b].ties /\ ties' = Visible(b)
  BY CommitFacts DEF Visible
<1>6. companies' \in [Keys -> Attributes]
  BY <1>3, <1>4, CommitFacts
<1>7. TypeInv'
  BY <1>1, <1>2, <1>3, <1>4, <1>5, <1>6 DEF GraphInv, TypeInv
<1>8. \A k \in Keys : companies[k] # Absent => companies'[k] # Absent
  BY CommitFacts
<1>9. CommittedInv'
  <2>1. \A k \in Keys : companies'[k] # Absent => \E t \in ties' : t.company = k
    BY <1>5, CommitFacts DEF GraphInv, CommittedInv
  <2>2. \A t \in ties' : companies'[t.company] # Absent
    BY <1>3, <1>5, <1>8, CommitFacts DEF GraphInv, CommittedInv, Tie
  <2>3. populated' \subseteq Projects
    BY <1>1, CommitFacts DEF GraphInv, CommittedInv
  <2>4. ASSUME NEW q \in populated', NEW o \in Industrial(q)
        PROVE  \E t \in ties' : /\ t.topic = Topic[q] /\ t.ref = SourceRef[q]
                                /\ o.registry = None => t.company = Key(o.name)
    <3>1. CASE q \in populated
      BY <3>1, <1>5 DEF GraphInv, CommittedInv
    <3>2. CASE q = p
      BY <3>2, <1>5, CommitFacts DEF Ours
    <3> QED BY <1>1, <3>1, <3>2
  <2>5. \A t \in ties' : \E q \in populated' : t.topic = Topic[q] /\ t.ref = SourceRef[q]
    BY <1>1, <1>5, CommitFacts DEF GraphInv, CommittedInv, Ours
  <2> QED BY <2>1, <2>2, <2>3, <2>4, <2>5 DEF CommittedInv
<1>10. ASSUME NEW c \in Builders PROVE LocalInv(c)'
  <2>1. CASE c = b
    <3>1. builder'[b] = Idle /\ written'[b] = Unwritten
      BY <1>1 DEF GraphInv, TypeInv
    <3>2. builder'[b].pc = "idle"
      BY <3>1 DEF Idle
    <3>3. written'[b].ties = {} /\ \A k \in Keys : written'[b].companies[k] = Absent
      BY <3>1 DEF Unwritten
    <3> QED BY <2>1, <3>1, <3>2, <3>3 DEF LocalInv, PlaceInv, RowsInv
  <2>2. CASE c # b
    <3>1. builder'[c] = builder[c] /\ written'[c] = written[c]
      BY <1>1, <2>2 DEF GraphInv, TypeInv
    <3> QED BY <3>1, <1>5, <1>8, OthersKeep DEF GraphInv
  <2> QED BY <2>1, <2>2
<1> QED BY <1>7, <1>9, <1>10 DEF GraphInv

---------------------------------------------------------------------------
\* The invariant is inductive.
LEMMA NextInv == GraphInv /\ [GraphNext]_graphVars => GraphInv'
PROOF
<1> SUFFICES ASSUME GraphInv, [GraphNext]_graphVars PROVE GraphInv'
  OBVIOUS
<1>1. CASE UNCHANGED graphVars
  <2>1. /\ companies' = companies /\ ties' = ties /\ builder' = builder
        /\ written' = written /\ runs' = runs /\ populated' = populated
    BY <1>1 DEF graphVars, graph, history
  <2>2. TypeInv' /\ CommittedInv'
    BY <2>1 DEF GraphInv, TypeInv, CommittedInv
  <2>3. ASSUME NEW c \in Builders PROVE LocalInv(c)'
    BY <2>1, OthersKeep DEF GraphInv
  <2> QED BY <2>2, <2>3 DEF GraphInv
<1>2. ASSUME NEW b \in Builders, NEW p \in Projects, StartProject(b, p) PROVE GraphInv'
  BY <1>2, StartProjectStep
<1>3. ASSUME NEW b \in Builders, Statement(b) PROVE GraphInv'
  <2>1. CASE SkipOrganisation(b)  BY <2>1, SkipOrganisationStep
  <2>2. CASE ByRegistry(b)        BY <2>2, ByRegistryStep
  <2>3. CASE ByName(b)            BY <2>3, ByNameStep
  <2>4. CASE WriteCompany(b)      BY <2>4, WriteCompanyStep
  <2>5. CASE SelectTie(b)         BY <2>5, SelectTieStep
  <2>6. CASE InsertTie(b)         BY <2>6, InsertTieStep
  <2>7. CASE Commit(b)            BY <2>7, CommitStep
  <2>8. CASE UniqueViolation(b)   BY <2>8, AbortStep DEF UniqueViolation
  <2>9. CASE DeadlockDetected(b)  BY <2>9, AbortStep DEF DeadlockDetected
  <2> QED BY <1>3, <2>1, <2>2, <2>3, <2>4, <2>5, <2>6, <2>7, <2>8, <2>9 DEF Statement
<1>4. ASSUME NEW b \in Builders, Crash(b) PROVE GraphInv'
  BY <1>4, AbortStep DEF Crash
<1> QED BY <1>1, <1>2, <1>3, <1>4 DEF GraphNext

\* The invariant holds of every execution.
THEOREM GraphInvariant == GraphSpec => []GraphInv
PROOF
<1> QED BY InitInv, NextInv, PTL DEF GraphSpec

\* Type correctness.
THEOREM GraphTypeCorrect == GraphSpec => []GraphTypeOK
PROOF
<1>1. GraphInv => GraphTypeOK
  <2> SUFFICES ASSUME GraphInv PROVE GraphTypeOK
    OBVIOUS
  <2>1. /\ companies \in [Keys -> Attributes] /\ ties \subseteq Tie /\ runs \in Nat
    BY DEF GraphInv, TypeInv
  <2>2. ASSUME NEW b \in Builders
        PROVE  /\ builder[b].pc \in Pcs
               /\ builder[b].pc \in {"insert", "fill", "select", "tie"} => builder[b].company \in Keys
               /\ builder[b].pc # "idle" => builder[b].project \in Projects
               /\ written[b].companies \in [Keys -> Attributes]
               /\ written[b].ties \subseteq Tie
    BY DEF GraphInv, TypeInv, LocalInv, PlaceInv, Place, Rows
  <2> QED BY <2>1, <2>2 DEF GraphTypeOK, Attributes, Pcs
<1> QED BY <1>1, GraphInvariant, PTL

\* Whatever fails half-way, and however builders race, a project is in the graph
\* as a whole or not at all (cordis_layer0.py:80).
THEOREM ProjectsAreWhole == GraphSpec => []ProjectIsWhole
PROOF
<1>1. GraphInv => ProjectIsWhole
  <2> SUFFICES ASSUME GraphInv PROVE ProjectIsWhole
    OBVIOUS
  <2>1. \A t \in ties : t.company \in Keys
    BY DEF GraphInv, TypeInv, Tie
  <2> QED BY <2>1 DEF GraphInv, CommittedInv, ProjectIsWhole
<1> QED BY <1>1, GraphInvariant, PTL

---------------------------------------------------------------------------
(***************************************************************************)
(* The refinement.                                                         *)
(***************************************************************************)
\* A commit enters the project with every company that has its tie by now.
LEMMA CommitEnters ==
    ASSUME GraphInv, NEW b \in Builders, Commit(b)
    PROVE  Ledger!Next
PROOF
<1> DEFINE p == builder[b].project
           S == {k \in Keys : \E t \in Visible(b) : t.company = k /\ Ours(b, t)}
<1>1. p \in Projects /\ ties' = Visible(b) /\ ties \subseteq Visible(b)
  BY CommitFacts DEF Visible
<1>2. \A t \in Visible(b) : t.company \in Keys
  BY DEF GraphInv, TypeInv, Visible, Rows, Tie
<1>3. \A t \in Visible(b) : companies'[t.company] # Absent
  BY <1>2, CommitFacts DEF GraphInv, CommittedInv, Visible
<1>4. Present' = Present \cup S
  <2>1. \A k \in Keys : companies'[k] # Absent <=> (companies[k] # Absent \/ k \in S)
    BY <1>3, CommitFacts
  <2> QED BY <2>1 DEF Present
<1>5. Entered' = Entered \cup {Ledger!Entry(k, p) : k \in S}
  <2> DEFINE e(t) == [company |-> t.company, topic |-> t.topic, ref |-> t.ref]
  <2>1. Entered = {e(t) : t \in ties} /\ Entered' = {e(t) : t \in Visible(b)}
    BY <1>1 DEF Entered
  <2>2. \A t : Ours(b, t) => e(t) = Ledger!Entry(t.company, p)
    BY DEF Ours, Ledger!Entry
  <2>3. \A t \in Visible(b) : t \in ties \/ (Ours(b, t) /\ t.company \in S)
    BY <1>2, CommitFacts DEF Visible
  <2>4. ASSUME NEW k \in S PROVE Ledger!Entry(k, p) \in {e(t) : t \in Visible(b)}
    <3>1. PICK t \in Visible(b) : t.company = k /\ Ours(b, t)
      OBVIOUS
    <3>2. e(t) = Ledger!Entry(k, p)
      BY <2>2, <3>1
    <3> QED BY <3>2
  <2> HIDE DEF e, S
  <2>5. {e(t) : t \in Visible(b)} = {e(t) : t \in ties} \cup {Ledger!Entry(k, p) : k \in S}
    BY <1>1, <2>2, <2>3, <2>4
  <2> QED BY <2>1, <2>5
<1>6. NamedIn[p] \subseteq S
  <2>1. NamedIn[p] = {Key(o.name) : o \in {x \in Industrial(p) : x.registry = None}}
    BY <1>1 DEF NamedIn
  <2>2. ASSUME NEW o \in Industrial(p), o.registry = None PROVE Key(o.name) \in S
    BY <2>2, <1>2, CommitFacts
  <2> QED BY <2>1, <2>2
<1>7. Ledger!Enter(p, S)
  BY <1>4, <1>5, <1>6 DEF Ledger!Enter
<1> QED BY <1>1, <1>7 DEF Ledger!Next

\* Nothing else changes the graph that others see.
LEMMA OtherStepsStutter ==
    ASSUME GraphNext, ~ \E b \in Builders : Commit(b)
    PROVE  UNCHANGED <<Present, Entered>>
PROOF
<1>1. companies' = companies /\ ties' = ties
  BY DEF GraphNext, StartProject, Statement, SkipOrganisation, ByRegistry, ByName, WriteCompany,
         SelectTie, InsertTie, UniqueViolation, DeadlockDetected, Crash, Abort, graph
<1> QED BY <1>1 DEF Present, Entered

\* Layer 0 implements the ledger: for everyone else, a project enters in one step
\* or not at all, with every participant that only its name identifies, and
\* nothing that is in the graph is lost (cordis_layer0.py:80).
THEOREM GraphImplementsLedger == GraphSpec => LedgerSpec
PROOF
<1>1. GraphInit => Ledger!Init
  BY DEF GraphInit, Ledger!Init, Present, Entered
<1>2. GraphInv /\ [GraphNext]_graphVars => [Ledger!Next]_<<Present, Entered>>
  <2> SUFFICES ASSUME GraphInv, [GraphNext]_graphVars
               PROVE  [Ledger!Next]_<<Present, Entered>>
    OBVIOUS
  <2>1. CASE UNCHANGED graphVars
    BY <2>1 DEF graphVars, graph, Present, Entered
  <2>2. CASE \E b \in Builders : Commit(b)
    BY <2>2, CommitEnters
  <2>3. CASE GraphNext /\ ~ \E b \in Builders : Commit(b)
    BY <2>3, OtherStepsStutter
  <2> QED BY <2>1, <2>2, <2>3
<1> QED BY <1>1, <1>2, GraphInvariant, PTL DEF GraphSpec, LedgerSpec, Ledger!Spec

---------------------------------------------------------------------------
(***************************************************************************)
(* Builders that do not overlap.  What a builder has resolved stays        *)
(* resolved, so that to repeat its project at once adds nothing.           *)
(***************************************************************************)
\* No registry id names two companies.
OneNamed(seen) ==
    \A k, l \in Keys : seen[k] = seen[l] /\ seen[k] \in Registries => k = l

HasTie(rows, k, p) == \E t \in rows : t.company = k /\ t.topic = Topic[p] /\ t.ref = SourceRef[p]

\* A participant o of p that was resolved among the companies seen, and recorded: to
\* resolve it again finds a company that has its tie to p (unless that is pending).
Settled(o, p, seen, rows, pending) ==
    IF o.registry = None
    THEN seen[Key(o.name)] # Absent /\ HasTie(rows, Key(o.name), p)
    ELSE /\ \A k \in Keys \ pending : seen[k] = o.registry => HasTie(rows, k, p)
         /\ (\A k \in Keys : seen[k] # o.registry)
              => seen[Key(o.name)] \in Registries /\ HasTie(rows, Key(o.name), p)

Pending(b) == IF builder[b].pc \in {"select", "tie"} THEN {builder[b].company} ELSE {}

\* Nobody has committed since b began, nor have builders overlapped before.
Alone(b) == ~ raced /\ ~ overlap[b] /\ builder[b].pc # "idle"

NotSeen(b) == \A k \in Keys : Seen(b)[k] # Org(b).registry

\* Where b stands agrees with the companies it sees.
AloneAt(b) ==
    /\ builder[b].pc \in {"name", "insert", "fill"} /\ Org(b).registry # None => NotSeen(b)
    /\ builder[b].pc = "insert" => Seen(b)[builder[b].company] = Absent
    /\ builder[b].pc = "fill" => Seen(b)[builder[b].company] = None
    /\ builder[b].pc \in {"select", "tie"} /\ Org(b).registry # None
         => \/ Seen(b)[builder[b].company] = Org(b).registry
            \/ /\ NotSeen(b)
               /\ builder[b].company = Key(Org(b).name)
               /\ Seen(b)[builder[b].company] \in Registries

AloneSees(b) ==
    /\ OneNamed(Seen(b))
    /\ \A k \in Keys : companies[k] \in Registries => Seen(b)[k] = companies[k]

AloneSettled(b) ==
    \A i \in 1 .. (builder[b].at - 1) : Orgs(b)[i].industrial
      => Settled(Orgs(b)[i], builder[b].project, Seen(b), Visible(b), Pending(b))

\* A project repeated right away has nothing to write.
AloneRepeats(b) ==
    builder[b].project = last =>
      written[b] = Unwritten /\ builder[b].pc \notin {"insert", "fill", "tie"}

AloneInv(b) ==
    Alone(b) => AloneAt(b) /\ AloneSees(b) /\ AloneSettled(b) /\ AloneRepeats(b)

LastInv ==
    ~ raced =>
      /\ OneNamed(companies)
      /\ last # None => \A o \in Industrial(last) : Settled(o, last, companies, ties, {})

HistoryOK ==
    /\ overlap \in [Builders -> BOOLEAN] /\ raced \in BOOLEAN
    /\ last \in Projects \cup {None}

RunsInv == HistoryOK /\ LastInv /\ \A b \in Builders : AloneInv(b)

\* An empty graph: nothing was repeated and nobody overlapped.
LEMMA RunsInit == GraphInit => RunsInv
<1> SUFFICES ASSUME GraphInit PROVE RunsInv
  OBVIOUS
<1>1. HistoryOK
  BY DEF GraphInit, HistoryOK
<1>2. LastInv
  <2>1. \A k \in Keys : companies[k] \notin Registries
    BY GraphAssumption DEF GraphInit, Registries, Participants, Industrial
  <2>2. QED
    BY <2>1 DEF GraphInit, LastInv, OneNamed
<1>3. \A b \in Builders : builder[b].pc = "idle"
  BY DEF GraphInit, Idle
<1>4. QED
  BY <1>1, <1>2, <1>3 DEF RunsInv, AloneInv, Alone

\* A row that is not there, a row without registry id and a registry id differ.
LEMMA AttributeFacts ==
  /\ Absent \notin Registries /\ None \notin Registries /\ Absent # None
BY GraphAssumption DEF Registries, Participants, Industrial

\* What a builder sees of a company is a value of the column.
LEMMA SeenType ==
  ASSUME TypeInv, NEW b \in Builders
  PROVE  Seen(b) \in [Keys -> Attributes]
<1>1. written[b].companies \in [Keys -> Attributes] /\ companies \in [Keys -> Attributes]
  BY DEF TypeInv, Rows
<1>2. QED
  BY <1>1 DEF Seen

\* A builder at rest has written nothing, and sees what is committed.
LEMMA RestingSees ==
  ASSUME GraphInv, NEW b \in Builders, written[b] = Unwritten
  PROVE  Seen(b) = companies /\ Visible(b) = ties
<1>1. companies \in [Keys -> Attributes]
  BY DEF GraphInv, TypeInv
<1>2. written[b].ties = {} /\ \A k \in Keys : written[b].companies[k] = Absent
  BY DEF Unwritten
<1>3. QED
  BY <1>1, <1>2 DEF Seen, Visible

\* A builder that does nothing, while nobody commits, keeps what it knows.
LEMMA OtherKeepsAlone ==
  ASSUME NEW c \in Builders, AloneInv(c),
         UNCHANGED <<companies, ties, last, raced, builder[c], written[c], overlap[c]>>
  PROVE  AloneInv(c)'
<1>1. /\ Orgs(c)' = Orgs(c) /\ Org(c)' = Org(c) /\ Seen(c)' = Seen(c) /\ Visible(c)' = Visible(c)
      /\ Pending(c)' = Pending(c)
  BY DEF Orgs, Org, Seen, Visible, Pending
<1>2. NotSeen(c)' <=> NotSeen(c)
  BY <1>1 DEF NotSeen
<1>3. Alone(c)' <=> Alone(c)
  BY DEF Alone
<1>4. AloneAt(c) => AloneAt(c)'
  BY <1>1, <1>2 DEF AloneAt
<1>5. AloneSees(c) => AloneSees(c)'
  BY <1>1 DEF AloneSees, OneNamed
<1>6. AloneSettled(c) => AloneSettled(c)'
  BY <1>1 DEF AloneSettled, Settled, HasTie
<1>7. AloneRepeats(c) => AloneRepeats(c)'
  BY DEF AloneRepeats
<1>8. QED
  BY <1>3, <1>4, <1>5, <1>6, <1>7 DEF AloneInv

\* A statement of b by which nothing is committed: it is enough to look at b.
LEMMA StatementKeepsRuns ==
  ASSUME TypeInv, RunsInv, NEW b \in Builders,
         UNCHANGED <<companies, ties, last, raced, overlap>>,
         \A c \in Builders \ {b} : builder'[c] = builder[c] /\ written'[c] = written[c],
         Alone(b) /\ AloneInv(b) => AloneInv(b)', Alone(b)' => Alone(b)
  PROVE  RunsInv'
<1>1. HistoryOK'
  BY DEF RunsInv, HistoryOK
<1>2. LastInv'
  BY DEF RunsInv, LastInv, OneNamed, Settled, HasTie
<1>3. ASSUME NEW c \in Builders PROVE AloneInv(c)'
  <2>1. CASE c # b
    BY <2>1, OtherKeepsAlone DEF RunsInv
  <2>2. CASE c = b /\ Alone(b)
    BY <2>2 DEF RunsInv
  <2>3. CASE c = b /\ ~ Alone(b)
    BY <2>3 DEF AloneInv
  <2>4. QED
    BY <2>1, <2>2, <2>3
<1>4. QED
  BY <1>1, <1>2, <1>3 DEF RunsInv

---------------------------------------------------------------------------
(***************************************************************************)
(* Statements that only read.                                              *)
(***************************************************************************)
LEMMA PendingKeepsSettled ==
  ASSUME NEW o, NEW p, NEW seen, NEW rows, NEW pending, Settled(o, p, seen, rows, {})
  PROVE  Settled(o, p, seen, rows, pending)
BY DEF Settled

\* Where b has moved to, after a statement that wrote nothing and left it at the same
\* participant.
LEMMA MoveFacts ==
  ASSUME TypeInv, NEW b \in Builders, NEW pc, NEW k, GoTo(b, pc, k), UNCHANGED <<graph, written>>
  PROVE  /\ builder'[b].pc = pc /\ builder'[b].company = k
         /\ builder'[b].project = builder[b].project /\ builder'[b].at = builder[b].at
         /\ \A c \in Builders \ {b} : builder'[c] = builder[c]
         /\ Orgs(b)' = Orgs(b) /\ Org(b)' = Org(b) /\ Seen(b)' = Seen(b) /\ Visible(b)' = Visible(b)
<1>1. builder \in [Builders -> Place]
  BY DEF TypeInv
<1>2. /\ builder'[b].pc = pc /\ builder'[b].company = k
      /\ builder'[b].project = builder[b].project /\ builder'[b].at = builder[b].at
      /\ \A c \in Builders \ {b} : builder'[c] = builder[c]
  BY <1>1 DEF GoTo, Place
<1>3. QED
  BY <1>2 DEF Orgs, Org, Seen, Visible, graph

\* A builder that looks rows up and moves on keeps the invariant if it stays where
\* AloneAt allows it to be.
LEMMA AloneMoves ==
  ASSUME TypeInv, RunsInv, NEW b \in Builders, NEW pc \in Pcs, NEW k,
         GoTo(b, pc, k), UNCHANGED <<graph, written, history>>,
         builder[b].pc # "idle", Pending(b) \subseteq IF pc \in {"select", "tie"} THEN {k} ELSE {},
         Alone(b) => AloneAt(b)',
         Alone(b) /\ builder[b].project = last => pc \notin {"insert", "fill", "tie"}
  PROVE  RunsInv'
<1>1. /\ builder'[b].pc = pc /\ builder'[b].company = k
      /\ builder'[b].project = builder[b].project /\ builder'[b].at = builder[b].at
      /\ \A c \in Builders \ {b} : builder'[c] = builder[c]
      /\ Orgs(b)' = Orgs(b) /\ Org(b)' = Org(b) /\ Seen(b)' = Seen(b) /\ Visible(b)' = Visible(b)
  BY MoveFacts
<1>2. Alone(b)' => Alone(b)
  BY DEF Alone, history
<1>3. ASSUME Alone(b), AloneInv(b) PROVE AloneInv(b)'
  <2>1. AloneSees(b)'
    BY <1>1, <1>3 DEF AloneInv, AloneSees, OneNamed, graph
  <2>2. Pending(b) \subseteq Pending(b)'
    BY <1>1 DEF Pending
  <2>3. AloneSettled(b)'
    BY <1>1, <1>3, <2>2 DEF AloneInv, AloneSettled, Settled
  <2>4. AloneRepeats(b)'
    BY <1>1, <1>3 DEF AloneInv, AloneRepeats, history
  <2>5. QED
    BY <1>3, <2>1, <2>3, <2>4 DEF AloneInv
<1>4. QED
  BY <1>1, <1>2, <1>3, StatementKeepsRuns DEF graph, history

\* The lookup by registry id of a builder that is alone,
LEMMA AloneByRegistry ==
  ASSUME GraphInv, RunsInv, NEW b \in Builders, ByRegistry(b)
  PROVE  RunsInv'
<1>1. /\ builder[b].pc = "registry" /\ Pending(b) = {} /\ TypeInv
      /\ UNCHANGED <<graph, written, history>>
  BY DEF ByRegistry, Pending, GraphInv
<1>2. CASE Matches(b) = {} /\ GoTo(b, "name", None)
  <2>1. Org(b)' = Org(b) /\ Seen(b)' = Seen(b) /\ builder'[b].pc = "name"
    BY <1>1, <1>2, MoveFacts
  <2>2. AloneAt(b)'
    BY <1>2, <2>1 DEF AloneAt, NotSeen, Matches
  <2>3. QED
    BY <1>1, <1>2, <2>2, AloneMoves DEF Pcs
<1>3. ASSUME NEW k \in Matches(b), GoTo(b, "select", k) PROVE RunsInv'
  <2>1. /\ Org(b)' = Org(b) /\ Seen(b)' = Seen(b)
        /\ builder'[b].pc = "select" /\ builder'[b].company = k
    BY <1>1, <1>3, MoveFacts
  <2>2. AloneAt(b)'
    BY <1>3, <2>1 DEF AloneAt, NotSeen, Matches
  <2>3. QED
    BY <1>1, <1>3, <2>2, AloneMoves DEF Pcs
<1>4. QED
  BY <1>2, <1>3 DEF ByRegistry

\* When the project committed last is repeated, every participant is found settled.
LEMMA RepeatSettled ==
  ASSUME GraphInv, RunsInv, NEW b \in Builders, Alone(b), builder[b].project = last,
         builder[b].pc # "commit", Org(b).industrial
  PROVE  /\ Settled(Org(b), last, Seen(b), Visible(b), {})
         /\ builder[b].pc \notin {"insert", "fill", "tie"}
<1>1. written[b] = Unwritten /\ builder[b].pc \notin {"insert", "fill", "tie"}
  BY DEF RunsInv, AloneInv, AloneRepeats
<1>2. Seen(b) = companies /\ Visible(b) = ties
  BY <1>1, RestingSees
<1>3. builder[b].project \in Projects /\ builder[b].at \in 1 .. Len(Orgs(b))
  BY DEF Alone, GraphInv, LocalInv, PlaceInv
<1>4. Org(b) \in Industrial(last)
  BY <1>3, ParticipantFacts DEF Org, Orgs
<1>5. last # None /\ ~ raced
  BY <1>3, GraphAssumption DEF Alone
<1>6. QED
  BY <1>1, <1>2, <1>4, <1>5 DEF RunsInv, LastInv

\* its lookup by name,
LEMMA AloneByName ==
  ASSUME GraphInv, RunsInv, NEW b \in Builders, ByName(b)
  PROVE  RunsInv'
<1> DEFINE k == Key(Org(b).name)
           pc == CASE Seen(b)[k] = Absent  -> "insert"
                   [] FillsRegistry(b, k)  -> "fill"
                   [] OTHER                -> "select"
<1>1. /\ builder[b].pc = "name" /\ Pending(b) = {} /\ TypeInv
      /\ UNCHANGED <<graph, written, history>>
      /\ GoTo(b, pc, k)
  BY DEF ByName, Pending, GraphInv
<1>2. Org(b).industrial /\ k \in Keys /\ Org(b).registry \in Registries \cup {None}
  <2>1. Org(b).industrial
    BY <1>1 DEF GraphInv, LocalInv, PlaceInv
  <2>2. QED
    BY <1>1, <2>1, CurrentFacts DEF GraphInv, LocalInv
<1>3. Seen(b)[k] \in Attributes
  BY <1>1, <1>2, SeenType
<1>4. \/ pc = "insert" /\ Seen(b)[k] = Absent
      \/ pc = "fill" /\ Seen(b)[k] = None /\ Org(b).registry # None
      \/ pc = "select" /\ Seen(b)[k] # Absent /\ (Org(b).registry # None => Seen(b)[k] \in Registries)
  BY <1>3, AttributeFacts DEF FillsRegistry, Attributes
<1> HIDE DEF pc, k
<1>5. Org(b)' = Org(b) /\ Seen(b)' = Seen(b) /\ builder'[b].pc = pc /\ builder'[b].company = k
  BY <1>1, MoveFacts
<1>6. ASSUME Alone(b) PROVE AloneAt(b)'
  <2>1. Org(b).registry # None => NotSeen(b)
    BY <1>1, <1>6 DEF RunsInv, AloneInv, AloneAt
  <2>2. QED
    BY <1>4, <1>5, <2>1 DEF AloneAt, NotSeen, k
<1>7. ASSUME Alone(b), builder[b].project = last PROVE pc = "select"
  <2>1. Settled(Org(b), last, Seen(b), Visible(b), {})
    BY <1>1, <1>2, <1>7, RepeatSettled
  <2>2. Org(b).registry # None => NotSeen(b)
    BY <1>1, <1>7 DEF RunsInv, AloneInv, AloneAt
  <2>3. CASE Org(b).registry = None
    BY <1>4, <2>1, <2>3 DEF Settled, k
  <2>4. CASE Org(b).registry # None
    BY <1>4, <2>1, <2>2, <2>4, AttributeFacts DEF Settled, NotSeen, k
  <2>5. QED
    BY <2>3, <2>4
<1>8. pc \in Pcs
  BY <1>4 DEF Pcs
<1>9. QED
  BY <1>1, <1>6, <1>7, <1>8, AloneMoves


\* Going on: b has nothing pending any more, and the next participant is untouched.
LEMMA AloneGoesOn ==
  ASSUME GraphInv, RunsInv, NEW b \in Builders, GoOn(b), UNCHANGED <<graph, history>>,
         builder[b].pc \notin {"idle", "commit"},
         \A c \in Builders \ {b} : written'[c] = written[c],
         written'[b].companies = written[b].companies,
         written[b].ties \subseteq written'[b].ties,
         \/ builder[b].pc = "registry" /\ ~ Org(b).industrial
         \/ /\ builder[b].pc \in {"select", "tie"} /\ Org(b).industrial
            /\ HasTie(Visible(b)', builder[b].company, builder[b].project),
         Alone(b) /\ builder[b].project = last => written'[b] = written[b]
  PROVE  RunsInv'
<1> DEFINE n == Len(Orgs(b))  at == builder[b].at
<1>1. TypeInv /\ builder \in [Builders -> Place] /\ PlaceInv(b)
  BY DEF GraphInv, TypeInv, LocalInv
<1>2. builder[b].project \in Projects /\ at \in 1 .. n /\ n \in Nat
  BY <1>1, GraphAssumption DEF PlaceInv, Orgs
<1>3. /\ builder'[b].project = builder[b].project
      /\ builder'[b].at = at + 1
      /\ builder'[b].pc \in {"commit", "registry"}
      /\ \A c \in Builders \ {b} : builder'[c] = builder[c]
  BY <1>1 DEF GoOn, Place
<1>4. Seen(b)' = Seen(b) /\ Visible(b) \subseteq Visible(b)' /\ Orgs(b)' = Orgs(b)
  BY <1>3 DEF Seen, Visible, Orgs, graph
<1>5. Pending(b)' = {}
  BY <1>3 DEF Pending
<1>6. Alone(b)' => Alone(b)
  BY DEF Alone, history
<1>7. ASSUME Alone(b), AloneInv(b) PROVE AloneInv(b)'
  <2>1. AloneAt(b)'
    BY <1>3 DEF AloneAt
  <2>2. AloneSees(b)'
    BY <1>4, <1>7 DEF AloneInv, AloneSees, OneNamed, graph
  <2>3. AloneRepeats(b)'
    BY <1>3, <1>7 DEF AloneInv, AloneRepeats, history
  <2>4. \A k, p : HasTie(Visible(b), k, p) => HasTie(Visible(b)', k, p)
    BY <1>4 DEF HasTie
  <2>5. ASSUME NEW i \in 1 .. (at - 1), Orgs(b)[i].industrial
        PROVE  Settled(Orgs(b)[i], builder[b].project, Seen(b), Visible(b)', {})
    <3>1. Settled(Orgs(b)[i], builder[b].project, Seen(b), Visible(b), Pending(b))
      BY <1>7, <2>5 DEF AloneInv, AloneSettled
    <3>2. \A k \in Pending(b) : HasTie(Visible(b)', k, builder[b].project)
      BY DEF Pending
    <3>3. QED
      BY <2>4, <3>1, <3>2 DEF Settled
  <2>6. ASSUME Org(b).industrial
        PROVE  Settled(Org(b), builder[b].project, Seen(b), Visible(b)', {})
    <3> DEFINE k == builder[b].company
    <3>1. builder[b].pc \in {"select", "tie"} /\ HasTie(Visible(b)', k, builder[b].project)
      BY <2>6
    <3>2. Org(b).registry \in Registries \cup {None}
      BY <1>1, <2>6, CurrentFacts
    <3>3. CASE Org(b).registry = None
      BY <1>1, <3>1, <3>3 DEF PlaceInv, Settled
    <3>4. CASE Org(b).registry # None /\ Seen(b)[k] = Org(b).registry
      <4>1. k \in Keys
        BY <1>1, <3>1 DEF PlaceInv
      <4>2. \A l \in Keys : Seen(b)[l] = Org(b).registry => l = k
        BY <1>7, <3>2, <3>4, <4>1 DEF AloneInv, AloneSees, OneNamed
      <4>3. QED
        BY <3>1, <3>4, <4>1, <4>2 DEF Settled
    <3>5. CASE Org(b).registry # None /\ Seen(b)[k] # Org(b).registry
      BY <1>7, <3>1, <3>5 DEF AloneInv, AloneAt, NotSeen, Settled
    <3>6. QED
      BY <3>3, <3>4, <3>5
  <2>7. ASSUME NEW i \in 1 .. at, Orgs(b)[i].industrial
        PROVE  Settled(Orgs(b)[i], builder[b].project, Seen(b), Visible(b)', {})
    <3>1. CASE i = at
      BY <2>6, <2>7, <3>1 DEF Org
    <3>2. CASE i \in 1 .. (at - 1)
      BY <2>5, <2>7, <3>2
    <3>3. QED
      BY <1>2, <3>1, <3>2
  <2>8. AloneSettled(b)'
    <3>1. 1 .. (builder'[b].at - 1) = 1 .. at
      BY <1>2, <1>3
    <3>2. QED
      BY <1>3, <1>4, <1>5, <2>7, <3>1 DEF AloneSettled
  <2>9. QED
    BY <2>1, <2>2, <2>3, <2>8 DEF AloneInv
<1>8. QED
  BY <1>1, <1>3, <1>6, <1>7, StatementKeepsRuns DEF graph, history

\* the organisation it skips,
LEMMA AloneSkips ==
  ASSUME GraphInv, RunsInv, NEW b \in Builders, SkipOrganisation(b)
  PROVE  RunsInv'
BY AloneGoesOn DEF SkipOrganisation

\* A tie counts as recorded when there is one of the company and the project.
LEMMA RecordedIsTie ==
  ASSUME NEW b \in Builders, NEW rows
  PROVE  Recorded(b, rows) <=> HasTie(rows, builder[b].company, builder[b].project)
BY DEF Recorded, Same, NewTie, HasTie

\* the lookup of a tie,
LEMMA AloneSelectsTie ==
  ASSUME GraphInv, RunsInv, NEW b \in Builders, SelectTie(b)
  PROVE  RunsInv'
<1> DEFINE k == builder[b].company
<1>1. builder[b].pc = "select" /\ UNCHANGED <<graph, written, runs, history>> /\ TypeInv
  BY DEF SelectTie, GraphInv
<1>2. Org(b).industrial /\ k \in Keys /\ PlaceInv(b)
  BY <1>1 DEF GraphInv, LocalInv, PlaceInv
<1>3. CASE Recorded(b, Visible(b)) /\ GoOn(b)
  <2>1. Visible(b)' = Visible(b)
    BY <1>1 DEF Visible, graph
  <2>2. HasTie(Visible(b)', k, builder[b].project)
    BY <1>3, <2>1, RecordedIsTie
  <2>3. QED
    BY <1>1, <1>2, <1>3, <2>2, AloneGoesOn
<1>4. CASE ~ Recorded(b, Visible(b)) /\ GoTo(b, "tie", k)
  <2>1. Pending(b) = {k}
    BY <1>1 DEF Pending
  <2>2. /\ Org(b)' = Org(b) /\ Seen(b)' = Seen(b)
        /\ builder'[b].pc = "tie" /\ builder'[b].company = k
    BY <1>1, <1>4, MoveFacts
  <2>3. ASSUME Alone(b) PROVE AloneAt(b)'
    <3>1. AloneAt(b)
      BY <2>3 DEF RunsInv, AloneInv
    <3>2. NotSeen(b)' <=> NotSeen(b)
      BY <2>2 DEF NotSeen
    <3>3. QED
      BY <1>1, <2>2, <3>1, <3>2 DEF AloneAt
  <2>4. ASSUME Alone(b), builder[b].project = last PROVE FALSE
    <3>1. Settled(Org(b), last, Seen(b), Visible(b), {})
      BY <1>1, <1>2, <2>4, RepeatSettled
    <3>2. ~ HasTie(Visible(b), k, last)
      BY <1>4, <2>4, RecordedIsTie
    <3>3. AloneAt(b)
      BY <2>4 DEF RunsInv, AloneInv
    <3>4. CASE Org(b).registry = None
      BY <1>1, <1>2, <3>1, <3>2, <3>4 DEF PlaceInv, Settled
    <3>5. CASE Org(b).registry # None
      BY <1>1, <1>2, <3>1, <3>2, <3>3, <3>5 DEF AloneAt, NotSeen, Settled
    <3>6. QED
      BY <3>4, <3>5
  <2>5. QED
    BY <1>1, <1>4, <2>1, <2>3, <2>4, AloneMoves DEF Pcs
<1>5. QED
  BY <1>3, <1>4 DEF SelectTie, Visible

---------------------------------------------------------------------------
(***************************************************************************)
(* Statements that write.                                                  *)
(***************************************************************************)
LEMMA AloneInsertsTie ==
  ASSUME GraphInv, RunsInv, NEW b \in Builders, InsertTie(b)
  PROVE  RunsInv'
<1>1. builder[b].pc = "tie" /\ GoOn(b) /\ UNCHANGED <<graph, runs, history>>
  BY DEF InsertTie
<1>2. Org(b).industrial
  BY <1>1 DEF GraphInv, LocalInv, PlaceInv
<1>3. written \in [Builders -> Rows]
  BY DEF GraphInv, TypeInv
<1>4. /\ written'[b].companies = written[b].companies
      /\ written'[b].ties = written[b].ties \cup {NewTie(b)}
      /\ \A c \in Builders \ {b} : written'[c] = written[c]
  BY <1>3 DEF InsertTie, Rows
<1>5. HasTie(Visible(b)', builder[b].company, builder[b].project)
  <2>1. NewTie(b) \in Visible(b)'
    BY <1>4 DEF Visible
  <2>2. /\ NewTie(b).company = builder[b].company
        /\ NewTie(b).topic = Topic[builder[b].project]
        /\ NewTie(b).ref = SourceRef[builder[b].project]
    BY DEF NewTie
  <2>3. QED
    BY <2>1, <2>2 DEF HasTie
<1>6. ASSUME Alone(b), builder[b].project = last PROVE FALSE
  BY <1>1, <1>2, <1>6, RepeatSettled
<1>7. QED
  BY <1>1, <1>2, <1>4, <1>5, <1>6, AloneGoesOn

\* the insert or update of a company,
LEMMA AloneWritesCompany ==
  ASSUME GraphInv, RunsInv, NEW b \in Builders, WriteCompany(b)
  PROVE  RunsInv'
<1> DEFINE k == builder[b].company
           registry == Org(b).registry
<1>1. builder[b].pc \in {"insert", "fill"} /\ UNCHANGED <<graph, runs, history>>
  BY DEF WriteCompany
<1>2. Org(b).industrial /\ k \in Keys /\ PlaceInv(b)
  BY <1>1 DEF GraphInv, LocalInv, PlaceInv
<1>3. registry \in Registries \cup {None} /\ registry # Absent
  BY <1>1, <1>2, CurrentFacts
<1>4. builder \in [Builders -> Place] /\ written \in [Builders -> Rows]
  BY DEF GraphInv, TypeInv
<1>5. /\ builder'[b].pc = "select" /\ builder'[b].company = k
      /\ builder'[b].project = builder[b].project /\ builder'[b].at = builder[b].at
      /\ \A c \in Builders \ {b} : builder'[c] = builder[c]
  BY <1>4 DEF WriteCompany, GoTo, Place
<1>6. /\ written'[b].ties = written[b].ties
      /\ written'[b].companies[k] = registry
      /\ \A l \in Keys : l # k => written'[b].companies[l] = written[b].companies[l]
      /\ \A c \in Builders \ {b} : written'[c] = written[c]
  BY <1>2, <1>4 DEF WriteCompany, Rows
<1>7. /\ Orgs(b)' = Orgs(b) /\ Org(b)' = Org(b) /\ Visible(b)' = Visible(b)
      /\ Seen(b)'[k] = registry
      /\ \A l \in Keys : l # k => Seen(b)'[l] = Seen(b)[l]
  BY <1>1, <1>2, <1>3, <1>5, <1>6 DEF Orgs, Org, Visible, Seen, graph
<1>8. Alone(b)' => Alone(b)
  BY <1>1 DEF Alone, history
<1> HIDE DEF k, registry
<1>9. ASSUME Alone(b), AloneInv(b) PROVE AloneInv(b)'
  <2>1. /\ Seen(b)[k] \notin Registries
        /\ registry # None => NotSeen(b)
    BY <1>1, <1>9, AttributeFacts DEF AloneInv, AloneAt, k, registry
  <2>2. AloneAt(b)'
    BY <1>5, <1>7 DEF AloneAt, registry
  <2>3. OneNamed(Seen(b)')
    <3> SUFFICES ASSUME NEW l \in Keys, NEW m \in Keys, Seen(b)'[l] = Seen(b)'[m],
                        Seen(b)'[l] \in Registries
                 PROVE  l = m
      BY DEF OneNamed
    <3>1. CASE l # k /\ m # k
      BY <1>7, <1>9, <3>1 DEF AloneInv, AloneSees, OneNamed
    <3>2. CASE l = k /\ m # k
      BY <1>7, <2>1, <3>2, AttributeFacts DEF NotSeen, registry
    <3>3. CASE l # k /\ m = k
      BY <1>7, <2>1, <3>3, AttributeFacts DEF NotSeen, registry
    <3>4. QED
      BY <3>1, <3>2, <3>3
  <2>4. \A l \in Keys : companies'[l] \in Registries => Seen(b)'[l] = companies'[l]
    BY <1>1, <1>7, <1>9, <2>1 DEF AloneInv, AloneSees, graph
  <2>5. AloneSees(b)'
    BY <2>3, <2>4 DEF AloneSees
  <2>6. AloneSettled(b)'
    <3> SUFFICES ASSUME NEW i \in 1 .. (builder[b].at - 1), Orgs(b)[i].industrial
                 PROVE  Settled(Orgs(b)[i], builder[b].project, Seen(b)', Visible(b), {k})
      BY <1>5, <1>7 DEF AloneSettled, Pending
    <3> DEFINE o == Orgs(b)[i]
    <3>1. Settled(o, builder[b].project, Seen(b), Visible(b), {})
      BY <1>1, <1>9 DEF AloneInv, AloneSettled, Pending
    <3>2. Key(o.name) \in Keys /\ o.registry \in Registries \cup {None}
      <4>1. /\ builder[b].project \in Projects /\ builder[b].at \in 1 .. Len(Orgs(b))
            /\ Len(Orgs(b)) \in Nat
        BY <1>1, <1>2, GraphAssumption DEF PlaceInv, Orgs
      <4>2. i \in 1 .. Len(Orgs(b))
        BY <4>1
      <4>3. QED
        BY <4>1, <4>2, ParticipantFacts DEF Orgs
    <3>3. CASE o.registry = None
      BY <1>3, <1>7, <3>1, <3>2, <3>3 DEF Settled
    <3>4. CASE o.registry # None
      <4>1. \A l \in Keys \ {k} : Seen(b)'[l] = o.registry => HasTie(Visible(b), l, builder[b].project)
        BY <1>7, <3>1, <3>4 DEF Settled
      <4>2. ASSUME \A l \in Keys : Seen(b)'[l] # o.registry
            PROVE  Seen(b)'[Key(o.name)] \in Registries /\ HasTie(Visible(b), Key(o.name), builder[b].project)
        <5>1. \A l \in Keys : Seen(b)[l] # o.registry
          BY <1>7, <2>1, <3>2, <3>4, <4>2
        <5>2. Seen(b)[Key(o.name)] \in Registries /\ HasTie(Visible(b), Key(o.name), builder[b].project)
          BY <3>1, <3>4, <5>1 DEF Settled
        <5>3. Key(o.name) # k
          BY <2>1, <5>2
        <5>4. QED
          BY <1>7, <3>2, <5>2, <5>3
      <4>3. QED
        BY <3>4, <4>1, <4>2 DEF Settled
    <3>5. QED
      BY <3>3, <3>4
  <2>7. AloneRepeats(b)'
    BY <1>1, <1>5, <1>9 DEF AloneInv, AloneRepeats, history
  <2>8. QED
    BY <2>2, <2>5, <2>6, <2>7 DEF AloneInv
<1>10. TypeInv
  BY DEF GraphInv
<1>11. QED
  BY <1>1, <1>5, <1>6, <1>8, <1>9, <1>10, StatementKeepsRuns DEF graph, history

\* the end of a project that failed
LEMMA AloneAborts ==
  ASSUME GraphInv, RunsInv, NEW b \in Builders, Abort(b)
  PROVE  RunsInv'
<1>1. builder \in [Builders -> Place] /\ written \in [Builders -> Rows] /\ TypeInv
  BY DEF GraphInv, TypeInv
<1>2. /\ builder'[b].pc = "idle"
      /\ \A c \in Builders \ {b} : builder'[c] = builder[c] /\ written'[c] = written[c]
      /\ UNCHANGED <<companies, ties, last, raced, overlap>>
  BY <1>1 DEF Abort, Idle, graph, history
<1>3. ~ Alone(b)'
  BY <1>2 DEF Alone
<1>4. AloneInv(b)'
  BY <1>3 DEF AloneInv
<1>5. QED
  BY <1>1, <1>2, <1>3, <1>4, StatementKeepsRuns

---------------------------------------------------------------------------
(***************************************************************************)
(* The beginning and the end of a project.                                 *)
(***************************************************************************)
LEMMA AloneStarts ==
  ASSUME GraphInv, RunsInv, NEW b \in Builders, NEW p \in Projects, StartProject(b, p)
  PROVE  RunsInv'
<1>1. /\ builder \in [Builders -> Place] /\ overlap \in [Builders -> BOOLEAN]
      /\ written[b] = Unwritten
  BY DEF GraphInv, TypeInv, RunsInv, HistoryOK, StartProject, LocalInv, RowsInv
<1>2. /\ builder'[b].pc \in {"commit", "registry"} /\ builder'[b].at = 1
      /\ \A c \in Builders \ {b} : builder'[c] = builder[c] /\ overlap'[c] = overlap[c]
      /\ written' = written /\ UNCHANGED <<companies, ties, last, raced>>
      /\ overlap' \in [Builders -> BOOLEAN]
  BY <1>1 DEF StartProject, graph
<1>3. Seen(b)' = companies /\ Seen(b) = companies
  BY <1>1, <1>2, RestingSees DEF Seen
<1>4. HistoryOK'
  BY <1>2 DEF RunsInv, HistoryOK
<1>5. LastInv'
  BY <1>2 DEF RunsInv, LastInv, OneNamed, Settled, HasTie
<1>6. ASSUME Alone(b)' PROVE AloneInv(b)'
  <2>1. ~ raced
    BY <1>2, <1>6 DEF Alone
  <2>2. AloneSees(b)'
    BY <1>2, <1>3, <2>1 DEF RunsInv, LastInv, AloneSees, OneNamed
  <2>3. AloneAt(b)' /\ AloneRepeats(b)'
    BY <1>1, <1>2 DEF AloneAt, AloneRepeats
  <2>4. AloneSettled(b)'
    BY <1>2 DEF AloneSettled
  <2>5. QED
    BY <2>2, <2>3, <2>4 DEF AloneInv
<1>7. ASSUME NEW c \in Builders PROVE AloneInv(c)'
  <2>1. CASE c = b /\ Alone(b)'
    BY <1>6, <2>1
  <2>2. CASE c = b /\ ~ Alone(b)'
    BY <2>2 DEF AloneInv
  <2>3. CASE c # b
    BY <1>2, <2>3, OtherKeepsAlone DEF RunsInv
  <2>4. QED
    BY <2>1, <2>2, <2>3
<1>8. QED
  BY <1>4, <1>5, <1>7 DEF RunsInv

\* What a commit that overlaps with none leaves behind.
LEMMA AloneCommitFacts ==
  ASSUME GraphInv, RunsInv, NEW b \in Builders, Commit(b), ~ raced'
  PROVE  /\ Alone(b) /\ AloneInv(b)
         /\ companies' = Seen(b) /\ ties' = Visible(b) /\ last' = builder[b].project
<1>1. raced' = (raced \/ overlap[b]) /\ builder[b].pc = "commit"
  BY DEF Commit
<1>2. QED
  BY <1>1 DEF Commit, Alone, RunsInv, Visible

\* and the commit keep the invariant.
LEMMA AloneCommits ==
  ASSUME GraphInv, RunsInv, NEW b \in Builders, Commit(b)
  PROVE  RunsInv'
<1>1. /\ builder \in [Builders -> Place] /\ PlaceInv(b) /\ builder[b].pc = "commit"
      /\ overlap \in [Builders -> BOOLEAN] /\ raced \in BOOLEAN
  BY DEF GraphInv, TypeInv, LocalInv, RunsInv, HistoryOK, Commit
<1>2. builder[b].project \in Projects /\ builder[b].at = Len(Orgs(b)) + 1 /\ Len(Orgs(b)) \in Nat
  BY <1>1, GraphAssumption DEF PlaceInv, Orgs
<1>3. HistoryOK'
  <2>1. overlap' = [c \in Builders |-> IF c = b THEN overlap[c] ELSE TRUE]
    BY DEF Commit
  <2>2. overlap' \in [Builders -> BOOLEAN]
    BY <1>1, <2>1
  <2>3. raced' \in BOOLEAN /\ last' \in Projects \cup {None}
    BY <1>1, <1>2 DEF Commit
  <2>4. QED
    BY <2>2, <2>3 DEF HistoryOK
<1>4. ASSUME ~ raced' PROVE LastInv'
  <2>1. /\ Alone(b) /\ AloneInv(b)
        /\ companies' = Seen(b) /\ ties' = Visible(b) /\ last' = builder[b].project
    BY <1>4, AloneCommitFacts
  <2>2. OneNamed(companies')
    BY <2>1 DEF AloneInv, AloneSees
  <2>3. ASSUME NEW o \in Industrial(builder[b].project)
        PROVE  Settled(o, builder[b].project, Seen(b), Visible(b), {})
    <3>1. PICK i \in 1 .. Len(Orgs(b)) : Orgs(b)[i] = o
      BY <1>2, IndustrialPositions DEF Orgs
    <3>2. i \in 1 .. (builder[b].at - 1) /\ o.industrial
      BY <1>2 DEF Industrial
    <3>3. Pending(b) = {}
      BY <1>1 DEF Pending
    <3>4. QED
      BY <2>1, <3>1, <3>2, <3>3 DEF AloneInv, AloneSettled
  <2>4. QED
    BY <2>1, <2>2, <2>3 DEF LastInv, OneNamed
<1>5. ASSUME NEW c \in Builders PROVE AloneInv(c)'
  <2>1. CASE c = b
    <3>1. builder'[b].pc = "idle"
      BY <1>1 DEF Commit, Idle
    <3>2. QED
      BY <2>1, <3>1 DEF AloneInv, Alone
  <2>2. CASE c # b
    <3>1. overlap'[c] = TRUE
      BY <2>2 DEF Commit
    <3>2. QED
      BY <3>1 DEF AloneInv, Alone
  <2>3. QED
    BY <2>1, <2>2
<1>6. LastInv'
  BY <1>4 DEF LastInv
<1>7. QED
  BY <1>3, <1>5, <1>6 DEF RunsInv

\* Every step keeps it,
LEMMA RunsStep == GraphInv /\ RunsInv /\ [GraphNext]_graphVars => RunsInv'
<1> SUFFICES ASSUME GraphInv, RunsInv, [GraphNext]_graphVars PROVE RunsInv'
  OBVIOUS
<1>1. CASE UNCHANGED graphVars
  <2>1. UNCHANGED <<companies, ties, builder, written, last, overlap, raced>>
    BY <1>1 DEF graphVars, graph, history
  <2>2. HistoryOK' /\ LastInv'
    BY <2>1 DEF RunsInv, HistoryOK, LastInv, OneNamed, Settled, HasTie
  <2>3. \A c \in Builders : AloneInv(c)'
    BY <2>1, OtherKeepsAlone DEF RunsInv
  <2>4. QED
    BY <2>2, <2>3 DEF RunsInv
<1>2. ASSUME NEW b \in Builders, NEW p \in Projects, StartProject(b, p) PROVE RunsInv'
  BY <1>2, AloneStarts
<1>3. ASSUME NEW b \in Builders, Statement(b) PROVE RunsInv'
  <2>1. CASE SkipOrganisation(b)  BY <2>1, AloneSkips
  <2>2. CASE ByRegistry(b)        BY <2>2, AloneByRegistry
  <2>3. CASE ByName(b)            BY <2>3, AloneByName
  <2>4. CASE WriteCompany(b)      BY <2>4, AloneWritesCompany
  <2>5. CASE SelectTie(b)         BY <2>5, AloneSelectsTie
  <2>6. CASE InsertTie(b)         BY <2>6, AloneInsertsTie
  <2>7. CASE Commit(b)            BY <2>7, AloneCommits
  <2>8. CASE UniqueViolation(b)   BY <2>8, AloneAborts DEF UniqueViolation
  <2>9. CASE DeadlockDetected(b)  BY <2>9, AloneAborts DEF DeadlockDetected
  <2> QED BY <1>3, <2>1, <2>2, <2>3, <2>4, <2>5, <2>6, <2>7, <2>8, <2>9 DEF Statement
<1>4. ASSUME NEW b \in Builders, Crash(b) PROVE RunsInv'
  BY <1>4, AloneAborts DEF Crash
<1> QED BY <1>1, <1>2, <1>3, <1>4 DEF GraphNext

\* so it holds of every execution.
LEMMA RunsInvariant == GraphSpec => []RunsInv
BY RunsInit, RunsStep, GraphInvariant, PTL DEF GraphSpec

\* As long as no builders have overlapped, a registry id names one company
\* (graph/repository.py:51-58), however names and ids of participants collide.
THEOREM RegistriesNameOneCompany == GraphSpec => []RegistryNamesOneCompany
<1>1. RunsInv => RegistryNamesOneCompany
  BY DEF RunsInv, LastInv, OneNamed, RegistryNamesOneCompany
<1>2. QED
  BY <1>1, RunsInvariant, PTL

\* What other steps leave of the graph: all of it.
LEMMA OnlyCommits ==
  ASSUME [GraphNext]_graphVars, ~ \E b \in Builders : Commit(b)
  PROVE  UNCHANGED graph
BY DEF GraphNext, StartProject, Statement, SkipOrganisation, ByRegistry, ByName, WriteCompany,
       SelectTie, InsertTie, UniqueViolation, DeadlockDetected, Crash, Abort, graphVars

---------------------------------------------------------------------------
(***************************************************************************)
(* Whatever builders do, a company keeps an id.                            *)
(***************************************************************************)
\* b can only be filling in an id if it has one; a row it has written is written by nobody
\* else; and one it has written without an id is of a company that was not there, nor is
\* now, since its key is b's until b commits.
HoldInv ==
    /\ \A b \in Builders : builder[b].pc = "fill" => Org(b).registry # None
    /\ \A b, c \in Builders, k \in Keys : b # c => ~ (HoldsRow(b, k) /\ HoldsRow(c, k))
    /\ \A b \in Builders, k \in Keys : written[b].companies[k] = None => companies[k] = Absent

\* An empty graph.
LEMMA HoldInit == GraphInit => HoldInv
<1> SUFFICES ASSUME GraphInit PROVE HoldInv
  OBVIOUS
<1>1. \A b \in Builders : builder[b].pc = "idle"
  BY DEF GraphInit, Idle
<1>2. \A b \in Builders, k \in Keys : written[b].companies[k] = Absent
  BY DEF GraphInit, Unwritten
<1>3. QED
  BY <1>1, <1>2, AttributeFacts DEF HoldInv, HoldsRow

\* A step of b that writes and commits nothing, and does not bring it to fill in an id.
LEMMA MovesKeepHold ==
  ASSUME TypeInv, HoldInv, NEW b \in Builders, UNCHANGED <<companies, written>>,
         \A c \in Builders \ {b} : builder'[c] = builder[c],
         builder'[b].pc = "fill" => Org(b)'.registry # None
  PROVE  HoldInv'
<1>1. \A c \in Builders : builder'[c].pc = "fill" => Org(c)'.registry # None
  BY DEF HoldInv, Org, Orgs
<1>2. QED
  BY <1>1 DEF HoldInv, HoldsRow

\* A step of b that drops what it has written, and commits it or not.
LEMMA DropsKeepHold ==
  ASSUME GraphInv, HoldInv, NEW b \in Builders,
         written' = [written EXCEPT ![b] = Unwritten], builder' = [builder EXCEPT ![b] = Idle],
         companies' = companies \/ companies' = Seen(b)
  PROVE  HoldInv'
<1>1. TypeInv
  BY DEF GraphInv
<1>2. /\ \A c \in Builders \ {b} : builder'[c] = builder[c] /\ written'[c] = written[c]
      /\ builder'[b].pc = "idle" /\ \A k \in Keys : written'[b].companies[k] = Absent
  BY <1>1 DEF TypeInv, Idle, Unwritten
<1>3. \A c \in Builders : builder'[c].pc = "fill" => Org(c)'.registry # None
  BY <1>2 DEF HoldInv, Org, Orgs
<1>4. \A c, d \in Builders, k \in Keys : c # d => ~ (HoldsRow(c, k)' /\ HoldsRow(d, k)')
  BY <1>2 DEF HoldInv, HoldsRow
<1>5. ASSUME NEW c \in Builders, NEW k \in Keys, written'[c].companies[k] = None
      PROVE  companies'[k] = Absent
  <2>1. c # b /\ written[c].companies[k] = None
    BY <1>2, <1>5, AttributeFacts
  <2>2. companies[k] = Absent /\ written[b].companies[k] = Absent
    BY <2>1, AttributeFacts DEF HoldInv, HoldsRow
  <2>3. QED
    BY <2>2 DEF Seen
<1>6. QED
  BY <1>3, <1>4, <1>5 DEF HoldInv

\* A company is written by one builder at a time, and without an id only to insert it.
LEMMA WriteKeepsHold ==
  ASSUME GraphInv, HoldInv, NEW b \in Builders, WriteCompany(b)
  PROVE  HoldInv'
<1> DEFINE k == builder[b].company
<1>1. /\ TypeInv /\ builder[b].pc \in {"insert", "fill"} /\ k \in Keys
      /\ builder[b].pc = "insert" => companies[k] = Absent
      /\ \A c \in Builders \ {b} : ~ HoldsRow(c, k)
  BY DEF GraphInv, LocalInv, PlaceInv, WriteCompany
<1>2. /\ companies' = companies /\ \A c \in Builders \ {b} : written'[c] = written[c]
      /\ written'[b].companies[k] = Org(b).registry
      /\ \A l \in Keys : l # k => written'[b].companies[l] = written[b].companies[l]
  BY <1>1 DEF WriteCompany, graph, TypeInv, Rows
<1>3. builder'[b].pc = "select" /\ \A c \in Builders \ {b} : builder'[c] = builder[c]
  BY <1>1 DEF WriteCompany, GoTo, TypeInv, Place
<1>4. \A c \in Builders : builder'[c].pc = "fill" => Org(c)'.registry # None
  BY <1>3 DEF HoldInv, Org, Orgs
<1>5. \A c, d \in Builders, l \in Keys : c # d => ~ (HoldsRow(c, l)' /\ HoldsRow(d, l)')
  BY <1>1, <1>2 DEF HoldInv, HoldsRow
<1>6. \A c \in Builders, l \in Keys : written'[c].companies[l] = None => companies'[l] = Absent
  BY <1>1, <1>2 DEF HoldInv
<1>7. QED
  BY <1>4, <1>5, <1>6 DEF HoldInv

\* A builder that goes on to the next participant, whatever ties it has inserted.
LEMMA GoingOnKeepsHold ==
  ASSUME TypeInv, HoldInv, NEW b \in Builders, GoOn(b), companies' = companies,
         \A c \in Builders : written'[c].companies = written[c].companies
  PROVE  HoldInv'
<1>1. builder'[b].pc # "fill" /\ \A c \in Builders \ {b} : builder'[c] = builder[c]
  BY DEF GoOn, TypeInv, Place
<1>2. \A c \in Builders : builder'[c].pc = "fill" => Org(c)'.registry # None
  BY <1>1 DEF HoldInv, Org, Orgs
<1>3. QED
  BY <1>2 DEF HoldInv, HoldsRow

\* Every step keeps it.
LEMMA HoldStep == GraphInv /\ HoldInv /\ [GraphNext]_graphVars => HoldInv'
<1> SUFFICES ASSUME GraphInv, HoldInv, [GraphNext]_graphVars PROVE HoldInv'
  OBVIOUS
<1>0. TypeInv
  BY DEF GraphInv
<1>1. CASE UNCHANGED graphVars
  BY <1>1 DEF graphVars, graph, HoldInv, HoldsRow, Org, Orgs
<1>2. ASSUME NEW b \in Builders, NEW p \in Projects, StartProject(b, p) PROVE HoldInv'
  <2>1. /\ builder'[b].pc # "fill" /\ UNCHANGED <<companies, written>>
        /\ \A c \in Builders \ {b} : builder'[c] = builder[c]
    BY <1>0, <1>2 DEF StartProject, graph, TypeInv
  <2>2. QED
    BY <1>0, <2>1, MovesKeepHold
<1>3. ASSUME NEW b \in Builders, Statement(b) PROVE HoldInv'
  <2>1. ASSUME NEW pc, NEW k, GoTo(b, pc, k), UNCHANGED <<graph, written>>,
               pc = "fill" => Org(b).registry # None
        PROVE  HoldInv'
    BY <1>0, <2>1, MoveFacts, MovesKeepHold DEF graph
  <2>2. CASE ByRegistry(b) BY <2>1, <2>2 DEF ByRegistry
  <2>3. CASE ByName(b)     BY <2>1, <2>3 DEF ByName, FillsRegistry
  <2>4. CASE SkipOrganisation(b) BY <1>0, <2>4, GoingOnKeepsHold DEF SkipOrganisation, graph
  <2>5. CASE SelectTie(b)  BY <1>0, <2>1, <2>5, GoingOnKeepsHold DEF SelectTie, graph
  <2>6. CASE InsertTie(b)
    <3>1. \A c \in Builders : written'[c].companies = written[c].companies
      BY <1>0, <2>6 DEF InsertTie, TypeInv, Rows
    <3>2. QED
      BY <1>0, <2>6, <3>1, GoingOnKeepsHold DEF InsertTie, graph
  <2>7. CASE WriteCompany(b)      BY <2>7, WriteKeepsHold
  <2>8. CASE Commit(b)            BY <2>8, DropsKeepHold DEF Commit
  <2>9. CASE UniqueViolation(b)   BY <2>9, DropsKeepHold DEF UniqueViolation, Abort, graph
  <2>10. CASE DeadlockDetected(b) BY <2>10, DropsKeepHold DEF DeadlockDetected, Abort, graph
  <2> QED BY <1>3, <2>2, <2>3, <2>4, <2>5, <2>6, <2>7, <2>8, <2>9, <2>10 DEF Statement
<1>4. ASSUME NEW b \in Builders, Crash(b) PROVE HoldInv'
  BY <1>4, DropsKeepHold DEF Crash, Abort, graph
<1> QED BY <1>1, <1>2, <1>3, <1>4 DEF GraphNext

\* It holds of every execution.
LEMMA HoldInvariant == GraphSpec => []HoldInv
BY HoldInit, HoldStep, GraphInvariant, PTL DEF GraphSpec

\* No company ever loses its registry id, however builders interleave and fail, and as
\* long as none have overlapped it keeps the one it has (graph/repository.py:22).
THEOREM RegistriesAreKept == GraphSpec => RegistryKept
<1>1. ASSUME GraphInv, RunsInv, HoldInv, [GraphNext]_graphVars, NEW k \in Keys,
             companies[k] \in Registries
      PROVE  companies'[k] \in Registries /\ (~ raced' => companies'[k] = companies[k])
  <2>1. ASSUME NEW b \in Builders, Commit(b)
        PROVE  companies'[k] \in Registries
    <3>1. companies' = Seen(b) /\ written[b].companies \in [Keys -> Attributes]
      BY <1>1, <2>1 DEF Commit, GraphInv, TypeInv, Rows
    <3>2. written[b].companies[k] # None
      BY <1>1, AttributeFacts DEF HoldInv
    <3>3. companies'[k] = IF written[b].companies[k] # Absent THEN written[b].companies[k]
                          ELSE companies[k]
      BY <3>1 DEF Seen
    <3>4. QED
      BY <1>1, <3>1, <3>2, <3>3 DEF Attributes
  <2>2. ASSUME NEW b \in Builders, Commit(b), ~ raced'
        PROVE  companies'[k] = companies[k]
    BY <1>1, <2>2, AloneCommitFacts DEF AloneInv, AloneSees
  <2>3. CASE ~ \E b \in Builders : Commit(b)
    BY <1>1, <2>3, OnlyCommits DEF graph
  <2>4. QED
    BY <2>1, <2>2, <2>3
<1>2. GraphInv /\ RunsInv /\ HoldInv /\ [GraphNext]_graphVars
        => [ \A k \in Keys : companies[k] \in Registries
               => /\ companies'[k] \in Registries
                  /\ ~ raced' => companies'[k] = companies[k] ]_graphVars
  BY <1>1
<1>3. QED
  BY <1>2, GraphInvariant, RunsInvariant, HoldInvariant, PTL DEF GraphSpec, RegistryKept

---------------------------------------------------------------------------
\* A project repeated before anything else was committed adds nothing, whatever its
\* participants are, as long as no builders have overlapped.
THEOREM RepeatsAddNothing == GraphSpec => RepeatAddsNothing
<1>1. ASSUME GraphInv, RunsInv, [GraphNext]_graphVars, NEW b \in Builders,
             builder[b].pc = "commit", builder'[b] # builder[b], builder[b].project = last, ~ raced'
      PROVE  UNCHANGED graph
  <2>1. CASE Commit(b)
    <3>1. written[b] = Unwritten
      BY <1>1, <2>1, AloneCommitFacts DEF AloneInv, AloneRepeats
    <3>2. companies' = companies /\ ties' = ties
      BY <1>1, <2>1, <3>1, AloneCommitFacts, RestingSees
    <3>3. QED
      BY <3>2 DEF graph
  <2>2. CASE \E c \in Builders \ {b} : Commit(c)
    BY <1>1, <2>2 DEF Commit, GraphInv, TypeInv
  <2>3. CASE ~ \E c \in Builders : Commit(c)
    BY <1>1, <2>3, OnlyCommits
  <2>4. QED
    BY <2>1, <2>2, <2>3
<1>2. GraphInv /\ RunsInv /\ [GraphNext]_graphVars
        => [ \A b \in Builders :
               (/\ builder[b].pc = "commit" /\ builder'[b] # builder[b]
                /\ builder[b].project = last /\ ~ raced')
               => UNCHANGED graph ]_graphVars
  BY <1>1
<1>3. QED
  BY <1>2, GraphInvariant, RunsInvariant, PTL DEF GraphSpec, RepeatAddsNothing

---------------------------------------------------------------------------
(***************************************************************************)
(* Matchers over the growing graph.  What a matcher has read may be old    *)
(* when it commits; it stays true of the graph, which loses no tie and no  *)
(* company, and of the rows it replaces, if no other one works on the same *)
(* asset.                                                                  *)
(***************************************************************************)
MatchPcs == {"idle", "companies", "ties", "delete", "deleting", "insert"}
Tracks == {"producer", "customer"}
Strengths == {"weak", "medium", "strong"}
Words == UNION {p.producer \cup p.customer : p \in Profiles}
Refs == {SourceRef[p] : p \in Projects}

Draft == [company : Keys, track : Tracks, strength : Strengths,
          terms : SUBSET Words, refs : SUBSET Refs]
NeedRow == [asset : Assets, run : Nat, company : Keys, track : Tracks, strength : Strengths,
            terms : SUBSET Words, refs : SUBSET Refs]
MatchPlace == [pc : MatchPcs, asset : Assets \cup {None}, run : Nat, profile : Profiles \cup {None},
               firms : SUBSET Keys, drafts : SUBSET Draft, doomed : SUBSET NeedRow]

MatchTypeInv ==
    /\ needs \subseteq NeedRow
    /\ matcher \in [Matchers -> MatchPlace]
    /\ \A m \in Matchers : matcher[m].pc # "idle"
         => matcher[m].asset \in Assets /\ matcher[m].profile \in Profiles
    /\ matchings \in Nat
    /\ basis \in [Assets -> Profiles \cup {None}]
    /\ alone \subseteq Matchers
    /\ crossed \subseteq Assets

Grounded(h) == h.refs # {} /\ h.refs \subseteq {t.ref : t \in TiesOf(h.company)}

\* A matcher that nobody has joined is at work, and nobody else is on its asset.
Crossing ==
    \A m \in alone :
        /\ matcher[m].pc # "idle"
        /\ \A n \in Matchers \ {m} :
             matcher[n].pc # "idle" => matcher[n].asset # matcher[m].asset

\* What m has read and generated still holds of the graph.
DraftsInv(m) ==
    /\ matcher[m].firms \subseteq Present
    /\ \A d \in matcher[m].drafts : /\ matcher[m].pc # "idle" /\ Grounded(d)
                                    /\ d.company \in Matched(Keys, matcher[m].profile)
    /\ \A h \in matcher[m].doomed : h.asset = matcher[m].asset

\* A matcher that nobody has joined has read the companies of all rows of its asset; when
\* these are all of one matching, and of the same profile, it has a draft for each; and
\* what it deletes is all of them.
SoloInv(m) ==
    m \in alone =>
      /\ matcher[m].pc \in {"ties", "delete", "deleting", "insert"}
           => \A h \in Of(matcher[m].asset) : h.company \in matcher[m].firms
      /\ (/\ matcher[m].pc \in {"delete", "deleting", "insert"}
          /\ matcher[m].asset \notin crossed
          /\ matcher[m].profile = basis[matcher[m].asset])
           => \A h \in Of(matcher[m].asset) : \E d \in matcher[m].drafts : d.company = h.company
      /\ matcher[m].pc \in {"deleting", "insert"} => matcher[m].doomed = Of(matcher[m].asset)

\* A row would be generated again from the profile it was made from.
NeedsInv ==
    \A h \in needs :
        /\ Grounded(h)
        /\ h.asset \notin crossed => /\ basis[h.asset] \in Profiles
                                     /\ h.company \in Matched(Keys, basis[h.asset])

MatchersInv ==
    /\ MatchTypeInv /\ Crossing /\ NeedsInv /\ HypothesesOfOneRun
    /\ \A m \in Matchers : DraftsInv(m) /\ SoloInv(m)

---------------------------------------------------------------------------
\* The graph grows: what was read of it is still there.
GraphGrows == ties \subseteq ties' /\ Present \subseteq Present'

\* No step of a builder takes a company or a tie away (nothing deletes them).
LEMMA GraphOnlyGrows == GraphInv /\ [GraphNext]_graphVars => GraphGrows
<1> SUFFICES ASSUME GraphInv, [GraphNext]_graphVars PROVE GraphGrows
  OBVIOUS
<1>1. ASSUME NEW b \in Builders, Commit(b) PROVE GraphGrows
  BY <1>1 DEF Commit, Seen, GraphGrows, Present
<1>2. CASE ~ \E b \in Builders : Commit(b)
  BY <1>2, OnlyCommits DEF graph, GraphGrows, Present
<1>3. QED
  BY <1>1, <1>2

\* Nor does a step that leaves the graph alone.
LEMMA SameGraphGrows == UNCHANGED graphVars => GraphGrows
BY DEF graphVars, graph, GraphGrows, Present

\* A hypothesis stays grounded while the graph grows.
LEMMA GroundedStays ==
  ASSUME GraphGrows, NEW h, Grounded(h) PROVE Grounded(h)'
BY DEF GraphGrows, Grounded, TiesOf

\* More ties, more terms: each side only gains, and so does the larger of the two.
LEMMA MatchedStays ==
  ASSUME GraphGrows, NEW k \in Keys, NEW profile \in Profiles, k \in Matched(Keys, profile)
  PROVE  k \in Matched(Keys, profile)'
<1> DEFINE p == SharedAsProducer(k, profile)
           c == SharedAsCustomer(k, profile)
<1>1. Terms(k) \subseteq Terms(k)'
  BY DEF GraphGrows, Terms, TiesOf
<1>2. p \subseteq p' /\ c \subseteq c'
  BY <1>1 DEF SharedAsProducer, SharedAsCustomer
<1>3. IsFiniteSet(p') /\ IsFiniteSet(c')
  <2>1. IsFiniteSet(profile.producer) /\ IsFiniteSet(profile.customer)
    BY MatchingAssumption
  <2>2. p' \subseteq profile.producer /\ c' \subseteq profile.customer
    BY DEF SharedAsProducer, SharedAsCustomer
  <2>3. QED
    BY <2>1, <2>2, FS_Subset
<1>4. /\ Cardinality(p) \in Nat /\ Cardinality(p') \in Nat /\ Cardinality(p) <= Cardinality(p')
      /\ Cardinality(c) \in Nat /\ Cardinality(c') \in Nat /\ Cardinality(c) <= Cardinality(c')
  BY <1>2, <1>3, FS_Subset, FS_CardinalityType
<1>5. profile.applied /\ Cardinality(Shared(k, profile)) >= MinSharedTerms
  BY DEF Matched
<1>6. Cardinality(Shared(k, profile)') >= MinSharedTerms
  BY <1>4, <1>5, MatchingAssumption DEF Shared, TrackOf
<1>7. QED
  BY <1>5, <1>6 DEF Matched

\* What generate makes of companies that are in the graph, and of which ones.
LEMMA DraftsAreSound ==
  ASSUME GraphInv, NEW firms \in SUBSET Keys, firms \subseteq Present,
         NEW profile \in Profiles, NEW signal \in BOOLEAN
  PROVE  /\ \A d \in Generate(firms, profile, signal) :
              d \in Draft /\ Grounded(d) /\ d.company \in Matched(Keys, profile)
         /\ \A k \in firms : k \in Matched(Keys, profile)
              => \E d \in Generate(firms, profile, signal) : d.company = k
<1>1. ASSUME NEW d \in Generate(firms, profile, signal)
      PROVE  d \in Draft /\ Grounded(d) /\ d.company \in Matched(Keys, profile)
  <2>1. PICK k \in Matched(firms, profile) :
          d = [company |-> k, track |-> TrackOf(k, profile),
               strength |-> StrengthOf(k, profile, signal),
               terms |-> Shared(k, profile), refs |-> {t.ref : t \in TiesOf(k)}]
    BY <1>1 DEF Generate
  <2>2. k \in firms /\ k \in Keys /\ k \in Matched(Keys, profile)
    BY DEF Matched
  <2>3. PICK t \in ties : t.company = k
    BY <2>2 DEF GraphInv, CommittedInv, Present
  <2>4. t \in TiesOf(k)
    BY <2>3 DEF TiesOf
  <2>5. d.company = k /\ d.refs = {u.ref : u \in TiesOf(k)}
    BY <2>1
  <2>6. Grounded(d)
    BY <2>4, <2>5 DEF Grounded
  <2>7. TrackOf(k, profile) \in Tracks
    BY DEF TrackOf, Tracks
  <2>8. StrengthOf(k, profile, signal) \in Strengths
    BY DEF StrengthOf, Strengths
  <2>9. Shared(k, profile) \in SUBSET Words
    BY DEF Shared, SharedAsProducer, SharedAsCustomer, Words
  <2>10. {u.ref : u \in TiesOf(k)} \in SUBSET Refs
    BY DEF TiesOf, GraphInv, TypeInv, Tie, Refs
  <2>11. d \in Draft
    BY <2>1, <2>2, <2>7, <2>8, <2>9, <2>10 DEF Draft
  <2>12. QED
    BY <2>2, <2>5, <2>6, <2>11
<1>2. ASSUME NEW k \in firms, k \in Matched(Keys, profile)
      PROVE  \E d \in Generate(firms, profile, signal) : d.company = k
  <2>1. k \in Matched(firms, profile)
    BY <1>2 DEF Matched
  <2> DEFINE d == [company |-> k, track |-> TrackOf(k, profile),
                   strength |-> StrengthOf(k, profile, signal),
                   terms |-> Shared(k, profile), refs |-> {t.ref : t \in TiesOf(k)}]
  <2>2. d \in Generate(firms, profile, signal) /\ d.company = k
    BY <2>1 DEF Generate
  <2>3. QED
    BY <2>2
<1>3. QED
  BY <1>1, <1>2

\* The company of a grounded row is in the graph.
LEMMA GroundedIsPresent ==
  ASSUME GraphInv, NEW h, Grounded(h) PROVE h.company \in Present
<1>1. PICK t \in ties : t.company = h.company
  BY DEF Grounded, TiesOf
<1>2. QED
  BY <1>1 DEF GraphInv, TypeInv, CommittedInv, Tie, Present

---------------------------------------------------------------------------
\* A matcher that does nothing keeps what it knows, if the rows of its asset stay.
LEMMA OtherMatcherKept ==
  ASSUME MatchersInv, GraphGrows, NEW n \in Matchers, matcher'[n] = matcher[n],
         n \in alone'
           => /\ n \in alone
              /\ {h \in needs' : h.asset = matcher[n].asset} = Of(matcher[n].asset)
              /\ basis'[matcher[n].asset] = basis[matcher[n].asset]
              /\ matcher[n].asset \in crossed <=> matcher[n].asset \in crossed'
  PROVE  DraftsInv(n)' /\ SoloInv(n)'
<1>1. MatchTypeInv /\ DraftsInv(n) /\ SoloInv(n)
  BY DEF MatchersInv
<1>2. DraftsInv(n)'
  <2>1. matcher'[n].firms \subseteq Present'
    BY <1>1 DEF DraftsInv, GraphGrows
  <2>2. ASSUME NEW d \in matcher[n].drafts
        PROVE  matcher[n].pc # "idle" /\ Grounded(d)' /\ d.company \in Matched(Keys, matcher[n].profile)'
    <3>1. /\ matcher[n].pc # "idle" /\ Grounded(d) /\ d.company \in Keys
          /\ d.company \in Matched(Keys, matcher[n].profile)
      BY <1>1 DEF DraftsInv, Matched
    <3>2. matcher[n].profile \in Profiles
      BY <1>1, <3>1 DEF MatchTypeInv
    <3>3. \A k \in Keys, profile \in Profiles :
            k \in Matched(Keys, profile) => k \in Matched(Keys, profile)'
      BY MatchedStays
    <3>4. d.company \in Matched(Keys, matcher[n].profile)'
      BY <3>1, <3>2, <3>3
    <3>5. QED
      BY <3>1, <3>4, GroundedStays
  <2>3. QED
    BY <1>1, <2>1, <2>2 DEF DraftsInv
<1>3. SoloInv(n)'
  <2> SUFFICES ASSUME n \in alone' PROVE SoloInv(n)'
    BY DEF SoloInv
  <2>1. Of(matcher[n].asset)' = Of(matcher[n].asset)
    BY DEF Of
  <2>2. QED
    BY <1>1, <2>1 DEF SoloInv
<1>4. QED
  BY <1>2, <1>3

\* The rows stay as they are.
LEMMA RowsKept ==
  ASSUME MatchersInv, GraphGrows, UNCHANGED <<needs, basis, crossed>>
  PROVE  NeedsInv' /\ HypothesesOfOneRun'
<1>1. HypothesesOfOneRun'
  BY DEF MatchersInv, HypothesesOfOneRun
<1>2. ASSUME NEW h \in needs
      PROVE  /\ Grounded(h)'
             /\ h.asset \notin crossed => /\ basis[h.asset] \in Profiles
                                          /\ h.company \in Matched(Keys, basis[h.asset])'
  <2>1. /\ Grounded(h)
        /\ h.asset \notin crossed => /\ basis[h.asset] \in Profiles
                                     /\ h.company \in Matched(Keys, basis[h.asset])
    BY <1>2 DEF MatchersInv, NeedsInv
  <2>2. h.company \in Keys
    BY DEF MatchersInv, MatchTypeInv, NeedRow
  <2>3. \A profile \in Profiles :
          h.company \in Matched(Keys, profile) => h.company \in Matched(Keys, profile)'
    BY <2>2, MatchedStays
  <2>4. QED
    BY <2>1, <2>3, GroundedStays
<1>3. QED
  BY <1>1, <1>2 DEF NeedsInv

\* A statement of m that changes no row: it is enough to look at m.
LEMMA MatcherMoves ==
  ASSUME GraphInv, MatchersInv, NEW m \in Matchers, NEW place \in MatchPlace,
         matcher' = [matcher EXCEPT ![m] = place],
         UNCHANGED <<graphVars, needs, matchings, basis, crossed>>,
         alone' \subseteq alone, place.pc = "idle" => m \notin alone',
         place.pc # "idle" => /\ matcher[m].pc # "idle" /\ place.asset = matcher[m].asset
                              /\ place.profile = matcher[m].profile,
         DraftsInv(m)', SoloInv(m)'
  PROVE  MatchersInv'
<1>1. MatchTypeInv /\ Crossing
  BY DEF MatchersInv
<1>2. matcher'[m] = place /\ \A n \in Matchers \ {m} : matcher'[n] = matcher[n]
  BY <1>1 DEF MatchTypeInv
<1>3. matcher' \in [Matchers -> MatchPlace]
  BY <1>1 DEF MatchTypeInv
<1>4. \A n \in Matchers : matcher'[n].pc # "idle"
        => matcher'[n].asset \in Assets /\ matcher'[n].profile \in Profiles
  BY <1>1, <1>2 DEF MatchTypeInv
<1>5. MatchTypeInv'
  BY <1>1, <1>3, <1>4 DEF MatchTypeInv
<1>6. Crossing'
  BY <1>1, <1>2 DEF Crossing
<1>7. GraphGrows
  BY SameGraphGrows
<1>8. NeedsInv' /\ HypothesesOfOneRun'
  BY <1>7, RowsKept
<1>9. ASSUME NEW n \in Matchers \ {m} PROVE DraftsInv(n)' /\ SoloInv(n)'
  BY <1>2, <1>7, OtherMatcherKept DEF Of
<1>10. QED
  BY <1>5, <1>6, <1>8, <1>9 DEF MatchersInv

\* A matching that fails keeps the invariant,
LEMMA MatcherRests ==
  ASSUME GraphInv, MatchersInv, NEW m \in Matchers, MatchingFails(m)
  PROVE  MatchersInv'
<1>1. MatchTypeInv
  BY DEF MatchersInv
<1>2. Resting \in MatchPlace
  BY DEF Resting, MatchPlace, MatchPcs
<1>3. matcher' = [matcher EXCEPT ![m] = Resting] /\ matcher'[m] = Resting
  BY <1>1 DEF MatchingFails, MatchTypeInv
<1>4. DraftsInv(m)' /\ SoloInv(m)'
  BY <1>3 DEF DraftsInv, SoloInv, Resting
<1>5. QED
  BY <1>2, <1>3, <1>4, MatcherMoves DEF MatchingFails, Resting

\* so does the read of the companies,
LEMMA MatcherReadsCompanies ==
  ASSUME GraphInv, MatchersInv, NEW m \in Matchers, ReadCompanies(m)
  PROVE  MatchersInv'
<1> DEFINE place == [matcher[m] EXCEPT !.pc = "ties", !.firms = Present]
<1>1. MatchTypeInv /\ DraftsInv(m) /\ matcher[m] \in MatchPlace /\ matcher[m].pc = "companies"
  BY DEF MatchersInv, MatchTypeInv, ReadCompanies
<1>2. place \in MatchPlace
  BY <1>1 DEF MatchPlace, MatchPcs, Present
<1>3. matcher' = [matcher EXCEPT ![m] = place] /\ matcher'[m] = place
  BY <1>1 DEF ReadCompanies, MatchTypeInv, Present
<1>4. /\ place.pc = "ties" /\ place.firms = Present /\ place.asset = matcher[m].asset
      /\ place.profile = matcher[m].profile /\ place.drafts = matcher[m].drafts
      /\ place.doomed = matcher[m].doomed
  BY <1>1 DEF MatchPlace
<1> HIDE DEF place
<1>5. GraphGrows
  BY SameGraphGrows DEF ReadCompanies
<1>6. UNCHANGED <<graphVars, needs, matchings, basis, alone, crossed>>
  BY DEF ReadCompanies
<1>7. DraftsInv(m)'
  <2>1. Present' = Present /\ \A d : Grounded(d)' <=> Grounded(d)
    BY <1>6 DEF Present, Grounded, TiesOf, graphVars, graph
  <2>2. \A profile : Matched(Keys, profile)' = Matched(Keys, profile)
    BY <1>6 DEF Matched, Shared, TrackOf, SharedAsProducer, SharedAsCustomer, Terms, TiesOf,
                graphVars, graph
  <2>3. QED
    BY <1>1, <1>3, <1>4, <2>1, <2>2 DEF DraftsInv
<1>8. SoloInv(m)'
  <2>1. \A h \in needs : h.company \in Present
    BY GroundedIsPresent DEF MatchersInv, NeedsInv
  <2>2. QED
    BY <1>3, <1>4, <1>6, <2>1 DEF SoloInv, Of
<1>9. QED
  BY <1>1, <1>2, <1>3, <1>4, <1>6, <1>7, <1>8, MatcherMoves

\* the read of the ties, which makes the drafts,
LEMMA MatcherReadsTies ==
  ASSUME GraphInv, MatchersInv, NEW m \in Matchers, ReadTies(m)
  PROVE  MatchersInv'
<1>1. /\ MatchTypeInv /\ DraftsInv(m) /\ SoloInv(m) /\ matcher[m] \in MatchPlace
      /\ matcher[m].pc = "ties" /\ matcher[m].profile \in Profiles
      /\ matcher[m].firms \in SUBSET Keys
  BY DEF MatchersInv, MatchTypeInv, ReadTies, MatchPlace
<1>2. PICK signal \in BOOLEAN : matcher' = [matcher EXCEPT ![m].pc = "delete",
           ![m].drafts = Generate(matcher[m].firms, matcher[m].profile, signal)]
  BY DEF ReadTies
<1> DEFINE drafts == Generate(matcher[m].firms, matcher[m].profile, signal)
           place == [matcher[m] EXCEPT !.pc = "delete", !.drafts = drafts]
<1>3. UNCHANGED <<graphVars, needs, matchings, basis, alone, crossed>>
  BY DEF ReadTies
<1>4. /\ \A d \in drafts :
           d \in Draft /\ Grounded(d) /\ d.company \in Matched(Keys, matcher[m].profile)
      /\ \A k \in matcher[m].firms : k \in Matched(Keys, matcher[m].profile)
           => \E d \in drafts : d.company = k
  BY <1>1, DraftsAreSound DEF DraftsInv
<1>5. matcher' = [matcher EXCEPT ![m] = place] /\ matcher'[m] = place
  BY <1>1, <1>2 DEF MatchTypeInv
<1> HIDE DEF drafts
<1>6. place \in MatchPlace
  BY <1>1, <1>4 DEF MatchPlace, MatchPcs
<1>7. /\ place.pc = "delete" /\ place.firms = matcher[m].firms /\ place.asset = matcher[m].asset
      /\ place.profile = matcher[m].profile /\ place.drafts = drafts
      /\ place.doomed = matcher[m].doomed
  BY <1>1 DEF MatchPlace
<1> HIDE DEF place
<1>8. DraftsInv(m)'
  <2>1. Present' = Present /\ \A d : Grounded(d)' <=> Grounded(d)
    BY <1>3 DEF Present, Grounded, TiesOf, graphVars, graph
  <2>2. \A profile : Matched(Keys, profile)' = Matched(Keys, profile)
    BY <1>3 DEF Matched, Shared, TrackOf, SharedAsProducer, SharedAsCustomer, Terms, TiesOf,
                graphVars, graph
  <2>3. QED
    BY <1>1, <1>4, <1>5, <1>7, <2>1, <2>2 DEF DraftsInv
<1>9. SoloInv(m)'
  <2> SUFFICES ASSUME m \in alone PROVE SoloInv(m)'
    BY <1>3 DEF SoloInv
  <2>1. \A h \in Of(matcher[m].asset) : h.company \in matcher[m].firms
    BY <1>1 DEF SoloInv
  <2>2. ASSUME matcher[m].profile = basis[matcher[m].asset], matcher[m].asset \notin crossed,
               NEW h \in Of(matcher[m].asset)
        PROVE  \E d \in drafts : d.company = h.company
    <3>1. h \in needs /\ h.asset = matcher[m].asset
      BY DEF Of
    <3>2. h.company \in Matched(Keys, matcher[m].profile)
      BY <2>2, <3>1 DEF MatchersInv, NeedsInv
    <3>3. QED
      BY <1>4, <2>1, <3>2
  <2>3. Of(matcher[m].asset)' = {h \in needs : h.asset = place.asset}
    BY <1>3, <1>5 DEF Of
  <2>4. Of(matcher[m].asset)' = Of(matcher[m].asset)
    BY <1>7, <2>3 DEF Of
  <2>5. QED
    BY <1>3, <1>5, <1>7, <2>1, <2>2, <2>4 DEF SoloInv
<1>10. QED
  BY <1>1, <1>3, <1>5, <1>6, <1>7, <1>8, <1>9, MatcherMoves

\* the delete of the earlier rows,
LEMMA MatcherDeletes ==
  ASSUME GraphInv, MatchersInv, NEW m \in Matchers, BeginDelete(m) \/ FinishDelete(m)
  PROVE  MatchersInv'
<1> DEFINE pc == IF BeginDelete(m) THEN "deleting" ELSE "insert"
           doomed == IF BeginDelete(m) THEN Of(matcher[m].asset) ELSE matcher[m].doomed
           place == [matcher[m] EXCEPT !.pc = pc, !.doomed = doomed]
<1>1. /\ MatchTypeInv /\ DraftsInv(m) /\ SoloInv(m) /\ matcher[m] \in MatchPlace
      /\ matcher[m].pc = IF BeginDelete(m) THEN "delete" ELSE "deleting"
  BY DEF MatchersInv, MatchTypeInv, BeginDelete, FinishDelete
<1>2. UNCHANGED <<graphVars, needs, matchings, basis, alone, crossed>>
  BY DEF BeginDelete, FinishDelete
<1>3. matcher' = [matcher EXCEPT ![m] = place] /\ matcher'[m] = place
  <2>1. CASE BeginDelete(m)
    <3>1. place = [matcher[m] EXCEPT !.pc = "deleting", !.doomed = Of(matcher[m].asset)]
      BY <2>1
    <3>2. matcher' = [matcher EXCEPT ![m] = place]
      BY <1>1, <2>1, <3>1 DEF BeginDelete, MatchTypeInv
    <3>3. QED
      BY <1>1, <3>2 DEF MatchTypeInv
  <2>2. CASE ~ BeginDelete(m)
    <3>1. place = [matcher[m] EXCEPT !.pc = "insert"]
      BY <1>1, <2>2 DEF MatchPlace
    <3>2. matcher' = [matcher EXCEPT ![m] = place]
      BY <1>1, <2>2, <3>1 DEF FinishDelete, MatchTypeInv
    <3>3. QED
      BY <1>1, <3>2 DEF MatchTypeInv
  <2>3. QED
    BY <2>1, <2>2
<1>4. doomed \in SUBSET NeedRow /\ pc \in MatchPcs \ {"idle"}
  BY <1>1 DEF MatchTypeInv, MatchPlace, MatchPcs, Of
<1>5. /\ \A h \in doomed : h.asset = matcher[m].asset
      /\ m \in alone => doomed = Of(matcher[m].asset)
      /\ pc \in {"deleting", "insert"}
  BY <1>1 DEF DraftsInv, SoloInv, Of
<1> HIDE DEF pc, doomed
<1>6. place \in MatchPlace
  BY <1>1, <1>4 DEF MatchPlace, MatchPcs
<1>7. /\ place.pc = pc /\ place.firms = matcher[m].firms /\ place.asset = matcher[m].asset
      /\ place.profile = matcher[m].profile /\ place.drafts = matcher[m].drafts
      /\ place.doomed = doomed
  BY <1>1 DEF MatchPlace
<1> HIDE DEF place
<1>8. DraftsInv(m)'
  <2>1. Present' = Present /\ \A d : Grounded(d)' <=> Grounded(d)
    BY <1>2 DEF Present, Grounded, TiesOf, graphVars, graph
  <2>2. \A profile : Matched(Keys, profile)' = Matched(Keys, profile)
    BY <1>2 DEF Matched, Shared, TrackOf, SharedAsProducer, SharedAsCustomer, Terms, TiesOf,
                graphVars, graph
  <2>3. QED
    BY <1>1, <1>3, <1>4, <1>5, <1>7, <2>1, <2>2 DEF DraftsInv
<1>9. SoloInv(m)'
  <2>1. Of(matcher[m].asset)' = Of(matcher[m].asset)
    BY <1>2, <1>3, <1>7 DEF Of
  <2>2. QED
    BY <1>1, <1>2, <1>3, <1>5, <1>7, <2>1 DEF SoloInv
<1>10. matcher[m].pc # "idle"
  BY <1>1
<1>11. QED
  BY <1>2, <1>3, <1>5, <1>6, <1>7, <1>8, <1>9, <1>10, MatcherMoves

\* the start of a matching
LEMMA MatcherStarts ==
  ASSUME GraphInv, MatchersInv, NEW m \in Matchers, NEW a \in Assets, StartMatching(m, a)
  PROVE  MatchersInv'
<1>1. PICK profile \in Profiles :
         matcher' = [matcher EXCEPT ![m] =
           [Resting EXCEPT !.pc = "companies", !.asset = a, !.run = matchings + 1,
                           !.profile = profile]]
  BY DEF StartMatching
<1> DEFINE place == [Resting EXCEPT !.pc = "companies", !.asset = a, !.run = matchings + 1,
                                    !.profile = profile]
<1>2. /\ UNCHANGED <<graphVars, needs, basis, crossed>> /\ matchings' = matchings + 1
      /\ matcher[m].pc = "idle"
      /\ alone' = IF Others(m, a) = {} THEN alone \cup {m} ELSE alone \ Others(m, a)
  BY DEF StartMatching
<1>3. MatchTypeInv /\ Crossing
  BY DEF MatchersInv
<1>4. /\ place \in MatchPlace
      /\ place.pc = "companies" /\ place.asset = a /\ place.profile = profile
      /\ place.firms = {} /\ place.drafts = {} /\ place.doomed = {}
  <2>1. /\ Resting \in MatchPlace
        /\ Resting.firms = {} /\ Resting.drafts = {} /\ Resting.doomed = {}
    BY DEF Resting, MatchPlace, MatchPcs
  <2>2. matchings + 1 \in Nat
    BY <1>3 DEF MatchTypeInv
  <2>3. QED
    BY <2>1, <2>2 DEF MatchPlace, MatchPcs
<1>5. matcher' = [matcher EXCEPT ![m] = place]
  BY <1>1
<1> HIDE DEF place
<1>6. matcher'[m] = place /\ \A n \in Matchers \ {m} : matcher'[n] = matcher[n]
  BY <1>3, <1>5 DEF MatchTypeInv
<1>7. MatchTypeInv'
  <2>1. matcher' \in [Matchers -> MatchPlace]
    BY <1>3, <1>4, <1>5 DEF MatchTypeInv
  <2>2. \A n \in Matchers : matcher'[n].pc # "idle"
          => matcher'[n].asset \in Assets /\ matcher'[n].profile \in Profiles
    BY <1>3, <1>4, <1>6 DEF MatchTypeInv
  <2>3. QED
    BY <1>2, <1>3, <2>1, <2>2 DEF MatchTypeInv
<1>8. Crossing'
  <2>1. \A n \in alone' \ {m} : n \in alone /\ n \in Matchers /\ matcher[n].asset # a
    BY <1>2, <1>3 DEF Others, MatchTypeInv
  <2>2. m \in alone' => \A n \in Matchers \ {m} : matcher[n].asset # a
    BY <1>2, <1>3 DEF Others, Crossing
  <2>3. QED
    BY <1>3, <1>4, <1>6, <2>1, <2>2 DEF Crossing
<1>9. GraphGrows
  BY <1>2, SameGraphGrows
<1>10. NeedsInv' /\ HypothesesOfOneRun'
  BY <1>2, <1>9, RowsKept
<1>11. ASSUME NEW n \in Matchers \ {m} PROVE DraftsInv(n)' /\ SoloInv(n)'
  BY <1>2, <1>6, <1>9, OtherMatcherKept DEF Of
<1>12. DraftsInv(m)' /\ SoloInv(m)'
  BY <1>4, <1>6 DEF DraftsInv, SoloInv
<1>13. QED
  BY <1>7, <1>8, <1>10, <1>11, <1>12 DEF MatchersInv

\* What a commit leaves of the rows: those of other assets, and of its own asset, when
\* nobody has joined it, what it has generated.
LEMMA CommitReplaces ==
  ASSUME MatchersInv, NEW m \in Matchers, CommitNeeds(m)
  PROVE  /\ \A h \in needs' : h \in needs \/ h \in RowsOf(m)
         /\ \A h \in needs : h.asset # matcher[m].asset => h \in needs'
         /\ RowsOf(m) \subseteq needs'
         /\ m \in alone
              => \A h \in needs' : h.asset = matcher[m].asset => h \in RowsOf(m)
<1>1. /\ matcher[m].pc = "insert" /\ DraftsInv(m) /\ SoloInv(m)
      /\ needs' = (needs \ matcher[m].doomed) \cup RowsOf(m)
  BY DEF CommitNeeds, Kept, MatchersInv
<1>2. \A h \in needs : h.asset # matcher[m].asset => h \in needs'
  BY <1>1 DEF DraftsInv
<1>3. m \in alone
        => \A h \in needs' : h.asset = matcher[m].asset => h \in RowsOf(m)
  BY <1>1 DEF SoloInv, Of
<1>4. QED
  BY <1>1, <1>2, <1>3

\* A row that m inserts.
LEMMA RowFacts ==
  ASSUME MatchersInv, NEW m \in Matchers, matcher[m].pc # "idle", NEW h \in RowsOf(m)
  PROVE  /\ h \in NeedRow /\ h.asset = matcher[m].asset /\ h.run = matcher[m].run
         /\ Grounded(h) /\ h.company \in Matched(Keys, matcher[m].profile)
<1>1. PICK d \in matcher[m].drafts : h = NeedHypothesis(matcher[m].asset, matcher[m].run, d)
  BY DEF RowsOf
<1>2. /\ h.asset = matcher[m].asset /\ h.run = matcher[m].run
      /\ h.company = d.company /\ h.refs = d.refs
  BY <1>1 DEF NeedHypothesis
<1>3. Grounded(d) /\ d.company \in Matched(Keys, matcher[m].profile)
  BY DEF MatchersInv, DraftsInv
<1>4. d \in Draft /\ matcher[m].asset \in Assets /\ matcher[m].run \in Nat
  BY DEF MatchersInv, MatchTypeInv, MatchPlace
<1>5. h \in NeedRow
  BY <1>1, <1>4 DEF NeedHypothesis, NeedRow, Draft
<1>6. Grounded(h)
  BY <1>2, <1>3 DEF Grounded
<1>7. QED
  BY <1>2, <1>3, <1>5, <1>6

\* and the commit of its rows;
LEMMA MatcherCommits ==
  ASSUME GraphInv, MatchersInv, NEW m \in Matchers, CommitNeeds(m)
  PROVE  MatchersInv'
<1> DEFINE a == matcher[m].asset
<1>1. /\ MatchTypeInv /\ Crossing /\ matcher[m].pc = "insert"
      /\ a \in Assets /\ matcher[m].profile \in Profiles
  BY DEF MatchersInv, MatchTypeInv, CommitNeeds
<1>2. /\ UNCHANGED <<graphVars, matchings>> /\ alone' = alone \ {m}
      /\ crossed' = IF m \in alone THEN crossed \ {a} ELSE crossed \cup {a}
      /\ basis' = [basis EXCEPT ![a] = matcher[m].profile]
      /\ matcher' = [matcher EXCEPT ![m] = Resting]
  BY DEF CommitNeeds, Replaced
<1>3. matcher'[m] = Resting /\ \A n \in Matchers \ {m} : matcher'[n] = matcher[n]
  BY <1>1, <1>2 DEF MatchTypeInv
<1>4. /\ basis'[a] = matcher[m].profile
      /\ \A b \in Assets : b # a => basis'[b] = basis[b]
  BY <1>1, <1>2 DEF MatchTypeInv
<1>5. /\ \A h \in needs' : h \in needs \/ h \in RowsOf(m)
      /\ \A h \in needs : h.asset # a => h \in needs'
      /\ a \notin crossed' => \A h \in needs' : h.asset = a => h \in RowsOf(m)
      /\ \A b \in Assets : b # a => (b \in crossed <=> b \in crossed')
  BY <1>1, <1>2, CommitReplaces
<1>6. \A h \in RowsOf(m) :
         /\ h \in NeedRow /\ h.asset = a /\ h.run = matcher[m].run
         /\ Grounded(h) /\ h.company \in Matched(Keys, matcher[m].profile)
  BY <1>1, RowFacts
<1>7. MatchTypeInv'
  <2>1. Resting \in MatchPlace /\ Resting.pc = "idle"
    BY DEF Resting, MatchPlace, MatchPcs
  <2>2. matcher' \in [Matchers -> MatchPlace]
    BY <1>1, <1>2, <2>1 DEF MatchTypeInv
  <2>3. \A n \in Matchers : matcher'[n].pc # "idle"
          => matcher'[n].asset \in Assets /\ matcher'[n].profile \in Profiles
    BY <1>1, <1>3, <2>1 DEF MatchTypeInv
  <2>4. needs' \subseteq NeedRow
    BY <1>1, <1>5, <1>6 DEF MatchTypeInv
  <2>5. basis' \in [Assets -> Profiles \cup {None}]
    BY <1>1, <1>2 DEF MatchTypeInv
  <2>6. QED
    BY <1>1, <1>2, <2>2, <2>3, <2>4, <2>5 DEF MatchTypeInv
<1>8. Crossing'
  BY <1>1, <1>2, <1>3 DEF Crossing, Resting
<1>9. HypothesesOfOneRun'
  <2> SUFFICES ASSUME NEW g \in needs', NEW h \in needs', g.asset = h.asset, g.asset \notin crossed'
               PROVE  g.run = h.run
    BY DEF HypothesesOfOneRun
  <2>1. CASE g.asset = a
    BY <1>5, <1>6, <2>1
  <2>2. CASE g.asset # a
    <3>1. g \in needs /\ h \in needs /\ g.asset \in Assets
      BY <1>1, <1>5, <1>6, <2>2 DEF MatchTypeInv, NeedRow
    <3>2. QED
      BY <1>5, <2>2, <3>1 DEF MatchersInv, HypothesesOfOneRun
  <2>3. QED
    BY <2>1, <2>2
<1>10. /\ \A h : Grounded(h)' <=> Grounded(h)
       /\ \A profile : Matched(Keys, profile)' = Matched(Keys, profile)
  BY <1>2 DEF Matched, Shared, TrackOf, SharedAsProducer, SharedAsCustomer, Terms, TiesOf, Grounded,
              graphVars, graph
<1>11. NeedsInv'
  <2>1. ASSUME NEW h \in needs'
        PROVE  /\ Grounded(h)
               /\ h.asset \notin crossed' => /\ basis'[h.asset] \in Profiles
                                             /\ h.company \in Matched(Keys, basis'[h.asset])
    <3>1. CASE h \in RowsOf(m)
      BY <1>1, <1>4, <1>6, <3>1
    <3>2. CASE h \in needs /\ h \notin RowsOf(m)
      <4>1. h.asset \in Assets
        BY <1>1, <3>2 DEF MatchTypeInv, NeedRow
      <4>2. h.asset \notin crossed' => h.asset # a
        BY <1>5, <3>2
      <4>3. h.asset \notin crossed' => h.asset \notin crossed /\ basis'[h.asset] = basis[h.asset]
        BY <1>4, <1>5, <4>1, <4>2
      <4>4. QED
        BY <3>2, <4>3 DEF MatchersInv, NeedsInv
    <3>3. QED
      BY <1>5, <3>1, <3>2
  <2>2. QED
    BY <1>2, <1>10, <2>1 DEF NeedsInv
<1>12. GraphGrows
  BY <1>2, SameGraphGrows
<1>13. ASSUME NEW n \in Matchers \ {m} PROVE DraftsInv(n)' /\ SoloInv(n)'
  <2>1. ASSUME n \in alone'
        PROVE  /\ n \in alone
               /\ {h \in needs' : h.asset = matcher[n].asset} = Of(matcher[n].asset)
               /\ basis'[matcher[n].asset] = basis[matcher[n].asset]
               /\ matcher[n].asset \in crossed <=> matcher[n].asset \in crossed'
    <3>1. n \in alone /\ matcher[n].asset # a /\ matcher[n].asset \in Assets
      BY <1>1, <1>2, <2>1 DEF Crossing, MatchTypeInv
    <3>2. QED
      BY <1>4, <1>5, <1>6, <3>1 DEF Of
  <2>2. QED
    BY <1>3, <1>12, <2>1, OtherMatcherKept
<1>14. DraftsInv(m)' /\ SoloInv(m)'
  BY <1>2, <1>3 DEF DraftsInv, SoloInv, Resting
<1>15. QED
  BY <1>7, <1>8, <1>9, <1>11, <1>13, <1>14 DEF MatchersInv

\* and a builder's step keeps it too, for the graph only grows.
LEMMA GraphStepKeepsMatchers ==
  ASSUME GraphInv, MatchersInv, [GraphNext]_graphVars, UNCHANGED matchVars
  PROVE  MatchersInv'
<1>1. GraphGrows
  BY GraphOnlyGrows
<1>2. UNCHANGED <<needs, matcher, matchings, basis, alone, crossed>>
  BY DEF matchVars
<1>3. NeedsInv' /\ HypothesesOfOneRun'
  BY <1>1, <1>2, RowsKept
<1>4. \A n \in Matchers : DraftsInv(n)' /\ SoloInv(n)'
  BY <1>1, <1>2, OtherMatcherKept DEF Of
<1>5. MatchTypeInv' /\ Crossing'
  BY <1>2 DEF MatchersInv, MatchTypeInv, Crossing
<1>6. QED
  BY <1>3, <1>4, <1>5 DEF MatchersInv

\* So every step keeps it,
LEMMA MatchersStep == GraphInv /\ MatchersInv /\ [Next]_allVars => MatchersInv'
<1> SUFFICES ASSUME GraphInv, MatchersInv, [Next]_allVars PROVE MatchersInv'
  OBVIOUS
<1>1. CASE (GraphNext /\ UNCHANGED matchVars) \/ UNCHANGED allVars
  BY <1>1, GraphStepKeepsMatchers DEF allVars
<1>2. ASSUME NEW m \in Matchers, NEW a \in Assets, StartMatching(m, a) PROVE MatchersInv'
  BY <1>2, MatcherStarts
<1>3. ASSUME NEW m \in Matchers, MatchStatement(m) \/ MatchingFails(m) PROVE MatchersInv'
  <2>1. CASE ReadCompanies(m)                  BY <2>1, MatcherReadsCompanies
  <2>2. CASE ReadTies(m)                       BY <2>2, MatcherReadsTies
  <2>3. CASE BeginDelete(m) \/ FinishDelete(m) BY <2>3, MatcherDeletes
  <2>4. CASE CommitNeeds(m)                    BY <2>4, MatcherCommits
  <2>5. CASE UniqueNeedViolated(m) \/ MatchingFails(m)
    BY <2>5, MatcherRests DEF UniqueNeedViolated
  <2> QED BY <1>3, <2>1, <2>2, <2>3, <2>4, <2>5 DEF MatchStatement
<1> QED BY <1>1, <1>2, <1>3 DEF Next

\* and it holds at first, when nothing was matched.
LEMMA MatchersInit == Init => MatchersInv
<1> SUFFICES ASSUME Init PROVE MatchersInv
  OBVIOUS
<1>1. Resting \in MatchPlace /\ Resting.pc = "idle"
  BY DEF Resting, MatchPlace, MatchPcs
<1>2. MatchTypeInv
  BY <1>1 DEF Init, MatchTypeInv
<1>3. Crossing /\ NeedsInv /\ HypothesesOfOneRun
  BY <1>1 DEF Init, Crossing, NeedsInv, HypothesesOfOneRun
<1>4. \A m \in Matchers : DraftsInv(m) /\ SoloInv(m)
  BY DEF Init, DraftsInv, SoloInv, Resting
<1>5. QED
  BY <1>2, <1>3, <1>4 DEF MatchersInv

\* The builders are what they are without matchers.
LEMMA GraphStepOfNext == [Next]_allVars => [GraphNext]_graphVars
<1>1. \A m \in Matchers : MatchStatement(m) \/ MatchingFails(m) => UNCHANGED graphVars
  BY DEF MatchStatement, ReadCompanies, ReadTies, BeginDelete, FinishDelete, CommitNeeds,
         UniqueNeedViolated, MatchingFails
<1>2. \A m \in Matchers, a \in Assets : StartMatching(m, a) => UNCHANGED graphVars
  BY DEF StartMatching
<1>3. QED
  BY <1>1, <1>2 DEF Next, allVars

\* Both invariants hold while builders and matchers run, commit, fail and die.
LEMMA MatchingInvariant == Spec => [](GraphInv /\ MatchersInv)
<1>1. Init => GraphInv /\ MatchersInv
  BY InitInv, MatchersInit DEF Init
<1>2. GraphInv /\ MatchersInv /\ [Next]_allVars => GraphInv' /\ MatchersInv'
  BY GraphStepOfNext, NextInv, MatchersStep
<1>3. QED
  BY <1>1, <1>2, PTL DEF Spec

\* The rows of an asset are of one matching, unless another one was at work on it when they
\* were last replaced (matching/repository.py:17): a matching that nobody joins clears
\* whatever crossed ones have left.
THEOREM RowsOfOneMatching == Spec => []HypothesesOfOneRun
BY MatchingInvariant, PTL DEF MatchersInv

\* A hypothesis rests on ties that the graph holds, and cites only ties of its company,
\* although builders commit between the statements that read it (need_hypothesis.py:175-178).
THEOREM HypothesesAreGrounded == Spec => []HypothesisIsGrounded
<1>1. MatchersInv => HypothesisIsGrounded
  BY DEF MatchersInv, NeedsInv, Grounded, HypothesisIsGrounded
<1>2. QED
  BY <1>1, MatchingInvariant, PTL

\* An asset matched again from the same profile keeps every company it had, however the
\* graph has grown in between (need_hypothesis.py:155-167).
THEOREM RematchingKeeps == Spec => RematchKeepsCompanies
<1>1. ASSUME GraphInv, MatchersInv, [Next]_allVars, NEW a \in Assets \ (crossed \cup crossed'), NEW m \in Matchers,
             matcher[m].pc = "insert", matcher[m].asset = a, matcher[m].profile = basis[a],
             NEW h \in Of(a)
      PROVE  \E g \in needs' : g.asset = a /\ g.company = h.company
  <2>1. h \in needs /\ h.asset = a
    BY DEF Of
  <2>2. ASSUME NEW n \in Matchers, CommitNeeds(n)
        PROVE  \E g \in needs' : g.asset = a /\ g.company = h.company
    <3>1. CASE matcher[n].asset # a
      BY <1>1, <2>1, <2>2, <3>1, CommitReplaces
    <3>2. CASE matcher[n].asset = a
      <4>1. n \in alone /\ matcher[n].pc = "insert"
        BY <1>1, <2>2, <3>2 DEF CommitNeeds, Replaced
      <4>2. n = m
        BY <1>1, <3>2, <4>1 DEF MatchersInv, Crossing
      <4>3. PICK d \in matcher[m].drafts : d.company = h.company
        BY <1>1, <4>1, <4>2 DEF MatchersInv, SoloInv
      <4> DEFINE g == NeedHypothesis(matcher[m].asset, matcher[m].run, d)
      <4>4. g \in RowsOf(m) /\ g.asset = a /\ g.company = h.company
        BY <1>1, <4>3 DEF RowsOf, NeedHypothesis
      <4>5. QED
        BY <1>1, <2>2, <4>2, <4>4, CommitReplaces
    <3>3. QED
      BY <3>1, <3>2
  <2>3. CASE ~ \E n \in Matchers : CommitNeeds(n)
    <3>1. needs' = needs
      BY <1>1, <2>3 DEF Next, StartMatching, MatchStatement, ReadCompanies, ReadTies, BeginDelete,
         FinishDelete, UniqueNeedViolated, MatchingFails, matchVars, allVars
    <3>2. QED
      BY <2>1, <3>1
  <2>4. QED
    BY <2>2, <2>3
<1>2. GraphInv /\ MatchersInv /\ [Next]_allVars
        => [ \A a \in Assets \ (crossed \cup crossed') :
               (\E m \in Matchers : /\ matcher[m].pc = "insert" /\ matcher[m].asset = a
                                    /\ matcher[m].profile = basis[a])
               => {h.company : h \in Of(a)} \subseteq {h.company : h \in Of(a)'} ]_allVars
  BY <1>1 DEF Of
<1>3. QED
  BY <1>2, MatchingInvariant, PTL DEF Spec, RematchKeepsCompanies

==========================================================================
