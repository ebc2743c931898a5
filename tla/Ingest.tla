------------------------------- MODULE Ingest -------------------------------
(***************************************************************************)
(* Connector.run (src/forge/connectors/base.py) over the EPO OPS source,   *)
(* executed by several processes at once (the CLI's ingest-epo, the web's  *)
(* /ingest-epo) on the shared AssetStore, while assets are deleted and the *)
(* pipeline replaces the evidence of others.                               *)
(*                                                                         *)
(* A run fetches each reference, turns the answer into one bundle per      *)
(* document, and saves the documents whose locator it has not seen.  Each  *)
(* saved bundle is a commit; fetching and parsing touch no store.  What a  *)
(* run has "seen" is read once, at its beginning, from the locators in the *)
(* source table; from then on it is the run's own memory.                  *)
(***************************************************************************)
EXTENDS AssetStore, Naturals, SequencesExt

CONSTANTS
    Ingesters,     \* processes that execute Connector.run
    Refs,          \* input references
    Docs,          \* publication ids, the locators of documents
    Response,      \* the documents the source returns for a reference
    Neighbours,    \* the documents that S2's searches find
    Bare,          \* documents without any field that needs grounding
    RefLists,      \* the reference lists runs are called with
    MaxIngests,    \* bound: calls of Connector.run
    NoDoc          \* "document" of an asset that was not ingested here

ASSUME IngestAssumption ==
    /\ NoDoc \notin Docs
    /\ Response \in [Refs -> Seq(Docs)]
    /\ Neighbours \subseteq Docs
    /\ Bare \subseteq Docs
    /\ RefLists \subseteq Seq(Refs)
    /\ MaxIngests \in Nat

VARIABLES
    docOf,      \* the document an asset was ingested from
    citations,  \* <<evidence row, document>>: what the Sources of the row locate
    ingests,    \* number of calls of Connector.run so far
    pc,         \* where a process is: its loops, or how it stopped
    refs,       \* the references it has still to fetch
    bundles,    \* the documents of the last answer it has still to handle
    seen,       \* the locators it takes for ingested
    ref,        \* the reference it has fetched last
    handled,    \* the references whose answer it has handled to the end
    saved,      \* report.saved: the documents it stored
    skipped,    \* report.skipped
    failed,     \* report.failed: <<reference, "fetch" or the document>>
    raced       \* history: documents stored while a run could not see it

report   == <<handled, saved, skipped, failed>>
runVars  == <<ingests, pc, refs, bundles, seen, ref, report, raced>>
vars     == <<storeVars, docOf, citations, runVars>>

Active(w) == pc[w] \in {"fetch", "save"}

IngestTypeOK ==
    /\ StoreTypeOK
    /\ docOf \in [Assets -> Docs \cup {NoDoc}]
    /\ citations \subseteq Evidence \X Docs
    /\ ingests \in 0 .. MaxIngests
    /\ pc \in [Ingesters -> {"idle", "fetch", "save", "down", "raised"}]
    /\ refs \in [Ingesters -> Seq(Refs)]
    /\ bundles \in [Ingesters -> Seq(Docs)]
    /\ seen \in [Ingesters -> SUBSET Docs]
    /\ ref \in [Ingesters -> Refs \cup {NoDoc}]
    /\ handled \in [Ingesters -> SUBSET (Refs \cup {NoDoc})]
    /\ saved \in [Ingesters -> SUBSET Docs]
    /\ skipped \in [Ingesters -> SUBSET Docs]
    /\ failed \in [Ingesters -> SUBSET ((Refs \cup {NoDoc}) \X (Docs \cup {"fetch"}))]
    /\ raced \subseteq Docs

Init ==
    /\ StoreInit
    /\ docOf = [a \in Assets |-> NoDoc]
    /\ citations = {}
    /\ ingests = 0
    /\ pc = [w \in Ingesters |-> "idle"]
    /\ refs = [w \in Ingesters |-> <<>>]
    /\ bundles = [w \in Ingesters |-> <<>>]
    /\ seen = [w \in Ingesters |-> {}]
    /\ ref = [w \in Ingesters |-> NoDoc]
    /\ handled = [w \in Ingesters |-> {}]
    /\ saved = [w \in Ingesters |-> {}]
    /\ skipped = [w \in Ingesters |-> {}]
    /\ failed = [w \in Ingesters |-> {}]
    /\ raced = {}

---------------------------------------------------------------------------
(***************************************************************************)
(* The other clients of the store, as far as they touch Sources of type    *)
(* "epo_ops": assets added by hand have Sources of another type, and of    *)
(* the streams only S2 records its findings with this one.                 *)
(***************************************************************************)
AddOtherAsset(a) ==
    /\ SaveAsset(a)
    /\ UNCHANGED <<docOf, citations, runVars>>

RemoveAsset(a) ==
    /\ a \in issued
    /\ DeleteAsset(a)
    /\ UNCHANGED <<docOf, citations, runVars>>

\* save_stream_result of S2: a Source with the publication id of every
\* neighbouring or citing patent it found.
CiteDocuments(a, s, r, cited) ==
    LET row == [asset |-> a, stream |-> s, run |-> r] IN
    /\ SaveStreamResult(a, s, r)
    /\ citations' = citations \cup {<<row, d>> : d \in cited}
    /\ UNCHANGED <<docOf, runVars>>

\* delete_evidence: the rows go, their Sources stay.
DropEvidence(a, streams) ==
    /\ DeleteEvidence(a, streams)
    /\ UNCHANGED <<docOf, citations, runVars>>

---------------------------------------------------------------------------
(***************************************************************************)
(* Connector.run.                                                          *)
(***************************************************************************)
\* existing_locators: of all Sources of the connector's source_type, those of
\* S2's evidence included.
IngestedLocators == {docOf[a] : a \in {b \in Assets : [asset |-> b] \in sources}} \ {NoDoc}
CitedLocators    == {c[2] : c \in {d \in citations : d[1] \in sources}}
ExistingLocators == IngestedLocators \cup CitedLocators

StartIngest(w, list) ==
    /\ pc[w] = "idle"
    /\ ingests < MaxIngests
    /\ ingests' = ingests + 1
    /\ pc' = [pc EXCEPT ![w] = "fetch"]
    /\ refs' = [refs EXCEPT ![w] = list]
    /\ seen' = [seen EXCEPT ![w] = ExistingLocators]
    /\ handled' = [handled EXCEPT ![w] = {}]
    /\ saved' = [saved EXCEPT ![w] = {}]
    /\ skipped' = [skipped EXCEPT ![w] = {}]
    /\ failed' = [failed EXCEPT ![w] = {}]
    /\ UNCHANGED <<storeVars, docOf, citations, bundles, ref, raced>>

\* fetch_one or normalise raises: recorded, and the loop goes on.
FetchFails(w) ==
    /\ pc[w] = "fetch"
    /\ refs[w] # <<>>
    /\ refs' = [refs EXCEPT ![w] = Tail(@)]
    /\ failed' = [failed EXCEPT ![w] = @ \cup {<<Head(refs[w]), "fetch">>}]
    /\ handled' = [handled EXCEPT ![w] = @ \cup {Head(refs[w])}]
    /\ UNCHANGED <<storeVars, docOf, citations, ingests, pc, bundles, seen, ref,
                   saved, skipped, raced>>

Fetch(w) ==
    /\ pc[w] = "fetch"
    /\ refs[w] # <<>>
    /\ refs' = [refs EXCEPT ![w] = Tail(@)]
    /\ ref' = [ref EXCEPT ![w] = Head(refs[w])]
    /\ bundles' = [bundles EXCEPT ![w] = Response[Head(refs[w])]]
    /\ pc' = [pc EXCEPT ![w] = "save"]
    /\ UNCHANGED <<storeVars, docOf, citations, ingests, seen, report, raced>>

\* The call is over: only its report is left of it.
Stop(w, how) ==
    /\ pc' = [pc EXCEPT ![w] = how]
    /\ refs' = [refs EXCEPT ![w] = <<>>]
    /\ bundles' = [bundles EXCEPT ![w] = <<>>]
    /\ seen' = [seen EXCEPT ![w] = {}]
    /\ ref' = [ref EXCEPT ![w] = NoDoc]
    /\ UNCHANGED <<storeVars, docOf, citations, ingests, report, raced>>

\* The bundle at hand, and its removal from the loop over the bundles.
Bundle(w)    == Head(bundles[w])
HasBundle(w) == pc[w] = "save" /\ bundles[w] # <<>>
NextBundle(w) ==
    /\ bundles' = [bundles EXCEPT ![w] = Tail(@)]
    /\ UNCHANGED <<ingests, pc, refs, ref, handled>>

\* bundle_locator of a bundle without provenance raises, outside any try block:
\* the exception leaves Connector.run.
LocatorRaises(w) ==
    /\ HasBundle(w)
    /\ Bundle(w) \in Bare
    /\ Stop(w, "raised")

SkipBundle(w) ==
    /\ HasBundle(w)
    /\ Bundle(w) \in seen[w] \ Bare
    /\ skipped' = [skipped EXCEPT ![w] = @ \cup {Bundle(w)}]
    /\ NextBundle(w)
    /\ UNCHANGED <<storeVars, docOf, citations, seen, saved, failed, raced>>

\* Mutant of SaveBundle: the locator is not added to seen.
SaveBundleUnseen(w, a) ==
    /\ HasBundle(w)
    /\ Bundle(w) \notin seen[w] \cup Bare
    /\ SaveAsset(a)
    /\ docOf' = [docOf EXCEPT ![a] = Bundle(w)]
    /\ saved' = [saved EXCEPT ![w] = @ \cup {Bundle(w)}]
    /\ raced' = IF \E v \in Ingesters \ {w} : Active(v) /\ Bundle(w) \notin seen[v]
                  THEN raced \cup {Bundle(w)} ELSE raced
    /\ NextBundle(w)
    /\ UNCHANGED <<citations, seen, skipped, failed>>

\* save_asset and the two lines after it.
SaveBundle(w, a) ==
    /\ HasBundle(w)
    /\ Bundle(w) \notin seen[w] \cup Bare
    /\ SaveAsset(a)
    /\ docOf' = [docOf EXCEPT ![a] = Bundle(w)]
    /\ saved' = [saved EXCEPT ![w] = @ \cup {Bundle(w)}]
    /\ seen' = [seen EXCEPT ![w] = @ \cup {Bundle(w)}]
    /\ raced' = IF \E v \in Ingesters \ {w} : Active(v) /\ Bundle(w) \notin seen[v]
                  THEN raced \cup {Bundle(w)} ELSE raced
    /\ NextBundle(w)
    /\ UNCHANGED <<citations, skipped, failed>>

\* Mutant of SaveFails: the locator counts as seen although nothing was stored.
SaveFailsButSeen(w) ==
    /\ HasBundle(w)
    /\ Bundle(w) \notin seen[w] \cup Bare
    /\ failed' = [failed EXCEPT ![w] = @ \cup {<<ref[w], Bundle(w)>>}]
    /\ seen' = [seen EXCEPT ![w] = @ \cup {Bundle(w)}]
    /\ NextBundle(w)
    /\ UNCHANGED <<storeVars, docOf, citations, saved, skipped, raced>>

\* Mutant of SaveFails: break instead of continue, so that the other documents
\* of the same answer are dropped.
SaveFailsAndBreaks(w) ==
    /\ HasBundle(w)
    /\ Bundle(w) \notin seen[w] \cup Bare
    /\ failed' = [failed EXCEPT ![w] = @ \cup {<<ref[w], Bundle(w)>>}]
    /\ bundles' = [bundles EXCEPT ![w] = <<>>]
    /\ UNCHANGED <<storeVars, docOf, citations, ingests, pc, refs, seen, ref, handled,
                   saved, skipped, raced>>

\* save_asset raises (the governance policy, the database): rolled back and
\* recorded; the locator is not added to seen.
SaveFails(w) ==
    /\ HasBundle(w)
    /\ Bundle(w) \notin seen[w] \cup Bare
    /\ failed' = [failed EXCEPT ![w] = @ \cup {<<ref[w], Bundle(w)>>}]
    /\ NextBundle(w)
    /\ UNCHANGED <<storeVars, docOf, citations, seen, saved, skipped, raced>>

NextRef(w) ==
    /\ pc[w] = "save"
    /\ bundles[w] = <<>>
    /\ pc' = [pc EXCEPT ![w] = "fetch"]
    /\ handled' = [handled EXCEPT ![w] = @ \cup {ref[w]}]
    /\ UNCHANGED <<storeVars, docOf, citations, ingests, refs, bundles, seen, ref,
                   saved, skipped, failed, raced>>

FinishIngest(w) ==
    /\ pc[w] = "fetch"
    /\ refs[w] = <<>>
    /\ Stop(w, "idle")

\* The process dies; what it committed stays.
Crash(w) ==
    /\ Active(w)
    /\ Stop(w, "down")

\* The command, or the web request, can be issued again.
Restart(w) ==
    /\ pc[w] \in {"down", "raised"}
    /\ pc' = [pc EXCEPT ![w] = "idle"]
    /\ UNCHANGED <<storeVars, docOf, citations, ingests, refs, bundles, seen, ref,
                   report, raced>>

---------------------------------------------------------------------------
Process(w) ==
    \/ FetchFails(w)
    \/ Fetch(w)
    \/ LocatorRaises(w)
    \/ SkipBundle(w)
    \/ \E a \in Assets : SaveBundle(w, a)
    \/ SaveFails(w)
    \/ NextRef(w)
    \/ FinishIngest(w)

Next ==
    \/ \E a \in Assets :
         \/ AddOtherAsset(a)
         \/ RemoveAsset(a)
         \/ \E s \in Streams, r \in Runs, cited \in SUBSET Neighbours : CiteDocuments(a, s, r, cited)
         \/ \E streams \in SUBSET Streams : DropEvidence(a, streams)
    \/ \E w \in Ingesters :
         \/ \E list \in RefLists : StartIngest(w, list)
         \/ Process(w)
         \/ Crash(w)
         \/ Restart(w)

Spec == Init /\ [][Next]_vars

---------------------------------------------------------------------------
(***************************************************************************)
(* Properties.                                                             *)
(***************************************************************************)
\* "Re-runs skip exactly what is present" (bundle_locator): one document is one
\* asset, across failures, crashes, retries and deletions, unless it was stored
\* while another run that had already read its locators was going on.
OneAssetPerDocument ==
    \A a, b \in stored :
        (docOf[a] = docOf[b] /\ docOf[a] \in Docs \ raced) => a = b

\* A document is skipped for a reason: it was stored, or S2 has cited it.
SkippedWasStoredOrCited ==
    \A w \in Ingesters : \A d \in skipped[w] :
        \/ \E a \in issued : docOf[a] = d
        \/ \E c \in citations : c[2] = d

\* The report of a run accounts for every document of every reference it has
\* handled: it is stored, skipped or recorded as failed.
ReportComplete ==
    \A w \in Ingesters : \A r \in handled[w] :
        \/ <<r, "fetch">> \in failed[w]
        \/ \A d \in ToSet(Response[r]) :
              d \in saved[w] \cup skipped[w] \/ <<r, d>> \in failed[w]

\* "Locators already ingested for this connector" (existing_locators): a skipped
\* document has been stored as an asset.
SkippedWasIngested ==
    \A w \in Ingesters : \A d \in skipped[w] : \E a \in issued : docOf[a] = d

===========================================================================
