---------------------------- MODULE MCAssessment ----------------------------
(***************************************************************************)
(* An instance of Assessment with the numbers of config/*.yaml.  The three *)
(* aspects do not touch one another but in legal_status: each is explored  *)
(* over every value of its own part, with the others held at one value.    *)
(***************************************************************************)
EXTENDS Assessment, StreamAnswers

\* What the model drafts of an asset with an abstract and a claim: the market
\* words it chooses, with or without industry terms, grounded or not.
MCSources == [abstract |-> {"a light source"}, claims |-> {"a waveguide"}]
MCDrafts ==
    {[problem      |-> Statement({}, "a light source"),
      solution     |-> Statement({}, quote),
      applications |-> <<[value |-> words, quote |-> "a light source", industry |-> industry]>>,
      queryTerms   |-> << >>] :
        words \in SUBSET {"solar", "chip"}, industry \in {<<" ">>, <<" ", "coating">>},
        quote \in {"a waveguide", "a laser", " "}}
MCProfiles == {BuildProfile(MCSources, d) : d \in MCDrafts} \ {None}

\* Five years of filings with slopes of -1, 0, 1 and 3 a year.
MCFilings == {<<4, 3, 2, 1, 0>>, <<0, 0, 0, 0, 0>>, <<0, 1, 2, 3, 4>>, <<0, 3, 6, 9, 12>>}
MCCiting ==
    {<< >>, <<{}>>, <<{"corporate"}>>,
     <<{"corporate"}, {}, {"academic"}, {"academic", "corporate"}, {"corporate"}, {}>>}
\* A profile that gives queries and one that gives none; what OPS says of a question
\* that is not asked is of no account.
MCAsked   == CHOOSE p \in MCProfiles : p.queries # {}
MCUnasked == CHOOSE p \in MCProfiles : p.queries = {}
MCSearched == ({MCAsked} \X {0, 50, 100} \X MCFilings) \cup {<<MCUnasked, 50, <<0, 0, 0, 0, 0>>>>}
MCCited    == ({TRUE} \X MCCiting) \cup {<<FALSE, << >>>>}
MCS2 ==
    {S2Run(q[1], c, n[1], [total |-> q[2], sameClass |-> 50, filings |-> q[3], citing |-> n[2]]) :
        q \in MCSearched, c \in BOOLEAN, n \in MCCited}

\* Nothing; a regulation of too low a score; one document; a regulation and a
\* document; and six documents, of which the regulation comes last.
MCRegulations == {6}
MCScores ==
    {[d \in 1..6 |-> 0], [d \in 1..6 |-> IF d = 6 THEN 4 ELSE 0],
     [d \in 1..6 |-> IF d = 1 THEN 50 ELSE 0], [d \in 1..6 |-> IF d = 6 THEN 5 ELSE 0],
     [d \in 1..6 |-> IF d = 1 THEN 90 ELSE 50]}

MCAnswers ==
    [S1 |-> {S1Run(p, m) : p \in {MCAsked, MCUnasked}, m \in {0, 1, 10}},
     S2 |-> MCS2,
     S3 |-> {S3Run(score) : score \in MCScores},
     S4 |-> {S4Run(p) : p \in MCProfiles}]

MCTaxonomyTerms == [green |-> {"solar"}, digital |-> {"chip"}]
MCCategories == {"green", "digital"}
MCRegulated  == {"green"}
MCWeights ==
    [technology_maturity |-> 20, market_pull |-> 25, ip_defensibility |-> 20,
     capital_intensity |-> 10, regulatory_pathway |-> 10, team_availability |-> 15]

\* Three years are 1095.75 days, ten 3652.5, and five 1826.25.
MCDays == {0, 365, 366, 1095, 1096, 1826, 1827, 2000, 3652, 3653, 6000}
MCPatentKeys  == <<"filing_date", "priority_date", "grant_date">>
MCProjectKeys == <<"end_date", "project_end_date">>
MCFees == {"paid", "lapsing"}
Dates == {Unset, Garbled, 0, 900}

MCPatents ==
    [type : {"patent"}, legal : {None}, dates : [{"filing_date", "priority_date", "grant_date"} -> Dates],
     fee : {Unset, "paid", "lapsed"}, encumbrances : Encumbrance,
     exploited : {FALSE}, owned : {FALSE}]
MCProjects ==
    [type : {"project_result"}, legal : {None}, dates : [{"end_date", "project_end_date"} -> Dates],
     fee : {Unset}, encumbrances : Encumbrance, exploited : BOOLEAN, owned : BOOLEAN]

\* The assets whose run is explored: a document without any rules to read.
MCScored == [type : {"other"}, legal : LegalStatus, dates : {<< >>}, fee : {Unset},
             encumbrances : {Unset}, exploited : {FALSE}, owned : {FALSE}]
MCAssets == MCPatents \cup MCProjects \cup MCScored

MCTerms == {"optical", "chip", "solar", "coating"}
MCSectorTerms == <<{"optical", "chip"}, {"chip", "solar", "coating"}, {"coating"}>>

MCOnce == asOf = 0 /\ text = {}

MCInit ==
    /\ AssessInit
    /\ asOf = 0
    /\ text = {}

MCNext ==
    \/ asset \in MCScored /\ MCOnce /\ RunStream
    \/ asset.legal = "granted" /\ remaining = << >> /\ readings = NoReadings
       /\ \E profile \in SUBSET Terms : Rerun(profile)
    \/ asset \notin MCScored /\ DaysPass

MCSpec == MCInit /\ [][MCNext]_assessVars

==========================================================================
