---------------------------- MODULE StreamAnswers ----------------------------
(***************************************************************************)
(* From an asset's text to what the streams measure: build_profile         *)
(* (enrichment/profiling.py) accepts or refuses what the model drafted,    *)
(* the profile gives the queries, and each stream turns what its source    *)
(* answers into the sub-signals that Corroboration and Scoring read.       *)
(* Constant-level operators.                                               *)
(*                                                                         *)
(* A text is the set of the terms that occur in it; a quote is a passage   *)
(* of some field, or Blank.  Snippets, links and match strengths are left  *)
(* out, and so are investors, which nothing but the brief reads.           *)
(***************************************************************************)
EXTENDS Corroboration, Sequences, SequencesExt, FiniteSetsExt

CONSTANTS
    Blank,            \* a term or quote of white space
    TaxonomyTerms,    \* per category of the EU taxonomy: its terms
    TopK, MinScore,   \* config/streams.yaml, S3
    Regulations       \* the documents of the S3 corpus that are regulations

(***************************************************************************)
(* The profile.                                                            *)
(***************************************************************************)
\* The fields whose text contains the quote.
FieldsQuoted(quote, sources) == {f \in DOMAIN sources : quote # Blank /\ quote \in sources[f]}

\* What the model may draft: a statement is what it says and the quote that grounds it.
Statement(value, quote) == [value |-> value, quote |-> quote, industry |-> << >>]

Statements(draft) == {draft.problem, draft.solution} \cup Range(draft.applications)

\* One statement whose quote is in none of the fields refuses the whole profile.
Grounded(draft, sources) ==
    \A s \in Statements(draft) : FieldsQuoted(s.quote, sources) # {}

\* The industry terms of the applications first, then the model's own terms.
QueryTerms(draft) ==
    LET industry == FlattenSeq([i \in DOMAIN draft.applications |-> draft.applications[i].industry])
    IN  {t \in Range(industry \o draft.queryTerms) : t # Blank}

BuildProfile(sources, draft) ==
    IF DOMAIN sources # {} /\ Grounded(draft, sources)
    THEN [text    |-> UNION {s.value : s \in Statements(draft)} \cup QueryTerms(draft),
          queries |-> QueryTerms(draft)]
    ELSE None

---------------------------------------------------------------------------
(***************************************************************************)
(* S1: the funding rounds that match the queries, in millions of euro.     *)
(***************************************************************************)
S1Run(profile, total) == [funding |-> IF profile.queries = {} THEN None ELSE total]

---------------------------------------------------------------------------
(***************************************************************************)
(* S2: filings is the number of filings of each year of the window, total  *)
(* and sameClass the sizes of two neighbourhoods, and citing says of each  *)
(* citing document which kinds of markers its applicant's name bears.      *)
(***************************************************************************)
\* The least-squares slope of y over x, rounded down; 0 for fewer than two points.
LinearSlope(y) ==
    LET n  == Cardinality(DOMAIN y)
        sx == MapThenSumSet(LAMBDA x : x, DOMAIN y)
        sy == MapThenSumSet(LAMBDA x : y[x], DOMAIN y)
        denom == n * MapThenSumSet(LAMBDA x : x * x, DOMAIN y) - sx * sx
    IN  IF denom = 0 THEN 0
        ELSE (n * MapThenSumSet(LAMBDA x : x * y[x], DOMAIN y) - sx * sy) \div denom

\* A research body that also looks corporate is academic.
ClassifyEntity(markers) ==
    CASE "academic" \in markers                              -> "academic"
      [] "corporate" \in markers /\ "academic" \notin markers -> "corporate"
      [] markers = {}                                        -> "other"

S2Run(profile, hasClasses, hasPublication, ops) ==
    LET asks == profile.queries # {} IN
    [density      |-> IF asks THEN ops.total ELSE None,
     slope        |-> IF asks THEN LinearSlope(ops.filings) ELSE None,
     classDensity |-> IF hasClasses THEN ops.sameClass ELSE None,
     cites        |-> IF hasPublication THEN Len(ops.citing) ELSE None,
     corporate    |-> IF ~ hasPublication THEN None
                      ELSE Cardinality({i \in DOMAIN ops.citing :
                                          ClassifyEntity(ops.citing[i]) = "corporate"})]

---------------------------------------------------------------------------
(***************************************************************************)
(* S3: score is what each document of the corpus scores for the profile.   *)
(* Documents are numbered in the order of their ids.                       *)
(***************************************************************************)
RanksBefore(d, e, score) == score[d] > score[e] \/ (score[d] = score[e] /\ d < e)

\* The best documents of any relevance, at most TopK.
Retrieved(score) ==
    LET relevant == {d \in DOMAIN score : score[d] > 0}
    IN  {d \in relevant : Cardinality({e \in relevant : RanksBefore(e, d, score)}) < TopK}

S3Run(score) ==
    LET hits == {d \in Retrieved(score) : score[d] >= MinScore}
    IN  [pull       |-> IF hits = {} THEN None ELSE Cardinality(hits),
         regulation |-> hits \cap Regulations # {}]

---------------------------------------------------------------------------
(***************************************************************************)
(* S4: the categories with a term in the profile's text.                   *)
(***************************************************************************)
S4Run(profile) ==
    [aligned |-> {c \in Categories : TaxonomyTerms[c] \cap profile.text # {}}]

==========================================================================
