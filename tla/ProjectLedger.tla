---------------------------- MODULE ProjectLedger ----------------------------
(***************************************************************************)
(* What Layer 0 promises of the relationship graph, whatever the builders, *)
(* their statements, races and failures: a project is entered in one step, *)
(* with a company for each of its industrial participants and a tie from   *)
(* every one of these companies, and nothing that is entered is lost.      *)
(***************************************************************************)
CONSTANTS Projects, Keys, Topic, SourceRef,
          Named     \* per project: the keys of the participants known by name only

VARIABLES present,  \* the keys of the companies of the graph
          entered   \* their ties, each a company with what identifies a project

Entry(k, p) == [company |-> k, topic |-> Topic[p], ref |-> SourceRef[p]]

Init ==
    /\ present = {}
    /\ entered = {}

\* Project p enters with the companies of S.
Enter(p, S) ==
    /\ Named[p] \subseteq S
    /\ present' = present \cup S
    /\ entered' = entered \cup {Entry(k, p) : k \in S}

Next == \E p \in Projects, S \in SUBSET Keys : Enter(p, S)

Spec == Init /\ [][Next]_<<present, entered>>

==========================================================================
