--------------------------- MODULE Ingest_proofs ---------------------------
(***************************************************************************)
(* What Connector.run guarantees for any source, any number of concurrent  *)
(* runs, and any failures, crashes and deletions in between.               *)
(***************************************************************************)
EXTENDS Ingest, AssetStore_proofs

\* Every step of the system is a transaction of the store, or none.
LEMMA IngestTransaction == [Next]_vars => [StoreNext]_storeVars
<1> SUFFICES ASSUME [Next]_vars
             PROVE  [StoreNext]_storeVars
  OBVIOUS
<1>1. CASE UNCHANGED vars
  BY <1>1 DEF vars
<1>2. ASSUME NEW a \in Assets, AddOtherAsset(a) \/ RemoveAsset(a)
      PROVE  StoreNext
  BY <1>2 DEF AddOtherAsset, RemoveAsset, StoreNext
<1>3. ASSUME NEW a \in Assets, NEW s \in Streams, NEW r \in Runs, NEW cited,
             CiteDocuments(a, s, r, cited)
      PROVE  StoreNext
  BY <1>3 DEF CiteDocuments, StoreNext
<1>4. ASSUME NEW a \in Assets, NEW streams \in SUBSET Streams, DropEvidence(a, streams)
      PROVE  StoreNext
  BY <1>4 DEF DropEvidence, StoreNext
<1>5. ASSUME NEW w \in Ingesters, NEW a \in Assets, SaveBundle(w, a)
      PROVE  StoreNext
  BY <1>5 DEF SaveBundle, StoreNext
<1>6. ASSUME NEW w \in Ingesters,
             \/ \E list \in RefLists : StartIngest(w, list)
             \/ Crash(w) \/ Restart(w) \/ FetchFails(w) \/ Fetch(w) \/ LocatorRaises(w)
             \/ SkipBundle(w) \/ SaveFails(w) \/ NextRef(w) \/ FinishIngest(w)
      PROVE  UNCHANGED storeVars
  BY <1>6 DEF StartIngest, Crash, Restart, FetchFails, Fetch, LocatorRaises, SkipBundle,
     SaveFails, NextRef, FinishIngest, Stop
<1>7. QED
  BY <1>1, <1>2, <1>3, <1>4, <1>5, <1>6 DEF Next, Process

\* Ingestion changes the tables as the store's own transactions allow.
THEOREM IngestImplementsStore == Spec => StoreSpec
<1>1. Init => StoreInit
  BY DEF Init
<1>2. QED
  BY <1>1, IngestTransaction, PTL DEF Spec, StoreSpec

---------------------------------------------------------------------------
\* The variables of the runs keep their types.
RunTypeOK ==
    /\ docOf \in [Assets -> Docs \cup {NoDoc}]
    /\ citations \subseteq Evidence \X Docs
    /\ ingests \in 0 .. MaxIngests
    /\ pc \in [Ingesters -> {"idle", "fetch", "save", "down", "raised"}]
    /\ refs \in [Ingesters -> Seq(Refs)]
    /\ bundles \in [Ingesters -> Seq(Docs)]
    /\ seen \in [Ingesters -> SUBSET Docs]
    /\ ref \in [Ingesters -> Refs \cup {NoDoc}]
    /\ handled \in [Ingesters -> SUBSET (Refs \cup {NoDoc})]
    /\ saved \in [Ingesters -> SUBSET Docs]
    /\ skipped \in [Ingesters -> SUBSET Docs]
    /\ failed \in [Ingesters -> SUBSET ((Refs \cup {NoDoc}) \X (Docs \cup {"fetch"}))]
    /\ raced \subseteq Docs

\* The next bundle is a document, and taking it away leaves documents.
LEMMA BundleType ==
    ASSUME RunTypeOK, NEW w \in Ingesters, HasBundle(w)
    PROVE  Bundle(w) \in Docs /\ Tail(bundles[w]) \in Seq(Docs)
BY DEF RunTypeOK, HasBundle, Bundle

\* The variables of the ingests keep their types.
THEOREM RunTypes == Spec => []RunTypeOK
<1> USE IngestAssumption
<1>1. Init => RunTypeOK
  BY DEF Init, RunTypeOK
<1>2. RunTypeOK /\ [Next]_vars => RunTypeOK'
  <2> SUFFICES ASSUME RunTypeOK, [Next]_vars
               PROVE  RunTypeOK'
    OBVIOUS
  <2> USE DEF RunTypeOK, report
  <2>1. CASE UNCHANGED vars
    BY <2>1 DEF vars, runVars
  <2>2. ASSUME NEW a \in Assets, AddOtherAsset(a) \/ RemoveAsset(a)
        PROVE  RunTypeOK'
    BY <2>2 DEF AddOtherAsset, RemoveAsset, runVars
  <2>3. ASSUME NEW a \in Assets, NEW s \in Streams, NEW r \in Runs,
               NEW cited \in SUBSET Neighbours, CiteDocuments(a, s, r, cited)
        PROVE  RunTypeOK'
    <3> DEFINE row == [asset |-> a, stream |-> s, run |-> r]
    <3>1. row \in Evidence
      BY DEF Evidence
    <3>2. citations' = citations \cup {<<row, d>> : d \in cited}
      BY <2>3 DEF CiteDocuments
    <3> HIDE DEF row
    <3>3. citations' \subseteq Evidence \X Docs
      BY <3>1, <3>2
    <3>4. QED
      BY <2>3, <3>3 DEF CiteDocuments, runVars
  <2>4. ASSUME NEW a \in Assets, NEW streams \in SUBSET Streams, DropEvidence(a, streams)
        PROVE  RunTypeOK'
    BY <2>4 DEF DropEvidence, runVars
  <2>5. ASSUME NEW w \in Ingesters, NEW list \in RefLists, StartIngest(w, list)
        PROVE  RunTypeOK'
    <3>1. ExistingLocators \subseteq Docs
      <4>1. IngestedLocators \subseteq Docs
        BY DEF IngestedLocators
      <4>2. \A c \in citations : c[2] \in Docs
        OBVIOUS
      <4>3. CitedLocators \subseteq Docs
        BY <4>2 DEF CitedLocators
      <4>4. QED
        BY <4>1, <4>3 DEF ExistingLocators
    <3>2. list \in Seq(Refs)
      OBVIOUS
    <3>3. QED
      BY <2>5, <3>1, <3>2 DEF StartIngest
  <2>6. ASSUME NEW w \in Ingesters, FetchFails(w)
        PROVE  RunTypeOK'
    <3>1. Head(refs[w]) \in Refs /\ Tail(refs[w]) \in Seq(Refs)
      BY <2>6 DEF FetchFails
    <3>2. QED
      BY <2>6, <3>1 DEF FetchFails
  <2>7. ASSUME NEW w \in Ingesters, Fetch(w)
        PROVE  RunTypeOK'
    <3>1. Head(refs[w]) \in Refs /\ Tail(refs[w]) \in Seq(Refs)
      BY <2>7 DEF Fetch
    <3>2. Response[Head(refs[w])] \in Seq(Docs)
      BY <3>1
    <3>3. QED
      BY <2>7, <3>1, <3>2 DEF Fetch
  <2>8. ASSUME NEW w \in Ingesters, LocatorRaises(w) \/ FinishIngest(w) \/ Crash(w)
        PROVE  RunTypeOK'
    <3>1. PICK how \in {"raised", "idle", "down"} : Stop(w, how)
      BY <2>8 DEF LocatorRaises, FinishIngest, Crash
    <3>2. QED
      BY <3>1 DEF Stop
  <2>9. ASSUME NEW w \in Ingesters, Restart(w)
        PROVE  RunTypeOK'
    BY <2>9 DEF Restart
  <2>10. ASSUME NEW w \in Ingesters, SkipBundle(w)
         PROVE  RunTypeOK'
    BY <2>10, BundleType DEF SkipBundle, NextBundle
  <2>11. ASSUME NEW w \in Ingesters, NEW a \in Assets, SaveBundle(w, a)
         PROVE  RunTypeOK'
    BY <2>11, BundleType DEF SaveBundle, NextBundle
  <2>12. ASSUME NEW w \in Ingesters, SaveFails(w)
         PROVE  RunTypeOK'
    BY <2>12, BundleType DEF SaveFails, NextBundle
  <2>13. ASSUME NEW w \in Ingesters, NextRef(w)
         PROVE  RunTypeOK'
    BY <2>13 DEF NextRef
  <2>14. QED
    BY <2>1, <2>2, <2>3, <2>4, <2>5, <2>6, <2>7, <2>8, <2>9, <2>10, <2>11, <2>12, <2>13
       DEF Next, Process
<1>3. QED
  BY <1>1, <1>2, PTL DEF Spec

\* The type invariant of ingestion.
THEOREM IngestTypes == Spec => []IngestTypeOK
<1>1. StoreTypeOK /\ RunTypeOK => IngestTypeOK
  BY DEF IngestTypeOK, RunTypeOK
<1>2. QED
  BY <1>1, RunTypes, IngestImplementsStore, StoreTypes, PTL

---------------------------------------------------------------------------
(***************************************************************************)
(* One asset per document.                                                 *)
(***************************************************************************)
\* A key that was not given out is no document, and a run under way has seen
\* every stored document but those that were stored behind its back.
DocumentInv ==
    /\ \A a \in Assets \ issued : docOf[a] = NoDoc
    /\ \A w \in Ingesters : Active(w) =>
         \A a \in stored : docOf[a] \in Docs \ raced => docOf[a] \in seen[w]
    /\ OneAssetPerDocument

\* A step that stores no document keeps DocumentInv.
LEMMA NoNewDocument ==
    ASSUME IngestTypeOK, IngestTypeOK', DocumentInv, docOf' = docOf, raced' = raced,
           issued \subseteq issued',
           \A a \in stored' : a \in stored \/ a \notin issued,
           \A w \in Ingesters : Active(w)' => Active(w) /\ seen'[w] = seen[w]
    PROVE  DocumentInv'
<1>1. \A a \in stored' : docOf[a] \in Docs => a \in stored
  BY IngestAssumption DEF DocumentInv, IngestTypeOK, StoreTypeOK
<1>2. \A a \in Assets \ issued' : docOf'[a] = NoDoc
  BY DEF DocumentInv
<1>3. ASSUME NEW w \in Ingesters, Active(w)', NEW a \in stored', docOf'[a] \in Docs \ raced'
      PROVE  docOf'[a] \in seen'[w]
  BY <1>1, <1>3 DEF DocumentInv
<1>4. OneAssetPerDocument'
  BY <1>1 DEF DocumentInv, OneAssetPerDocument
<1>5. QED
  BY <1>2, <1>3, <1>4 DEF DocumentInv

\* A run that begins has seen every stored document: the document's Source is
\* there, for the asset's provenance refers to it.
LEMMA StartSeesStored ==
    ASSUME IngestTypeOK, SourcesResolve, NEW a \in stored, docOf[a] \in Docs
    PROVE  docOf[a] \in ExistingLocators
<1>1. a \in Assets /\ [asset |-> a] \in sources
  BY DEF IngestTypeOK, StoreTypeOK, SourcesResolve, Referenced
<1>2. QED
  BY <1>1, IngestAssumption DEF ExistingLocators, IngestedLocators

\* OneAssetPerDocument, strengthened by what a run knows, holds of every execution.
THEOREM DocumentInvariant == Spec => []DocumentInv
<1>1. Init => DocumentInv
  BY DEF Init, StoreInit, DocumentInv, OneAssetPerDocument
<1>2. IngestTypeOK /\ IngestTypeOK' /\ SourcesResolve /\ DocumentInv /\ [Next]_vars
        => DocumentInv'
  <2> SUFFICES ASSUME IngestTypeOK, IngestTypeOK', SourcesResolve, DocumentInv, [Next]_vars
               PROVE  DocumentInv'
    OBVIOUS
  <2> USE DEF Active, report
  <2>1. CASE UNCHANGED vars
    BY <2>1, NoNewDocument DEF vars, storeVars, runVars
  <2>2. ASSUME NEW a \in Assets, AddOtherAsset(a) \/ RemoveAsset(a)
        PROVE  DocumentInv'
    BY <2>2, NoNewDocument DEF AddOtherAsset, RemoveAsset, SaveAsset, DeleteAsset, runVars
  <2>3. ASSUME NEW a \in Assets, NEW s \in Streams, NEW r \in Runs, NEW cited,
               CiteDocuments(a, s, r, cited)
        PROVE  DocumentInv'
    BY <2>3, NoNewDocument DEF CiteDocuments, SaveStreamResult, runVars
  <2>4. ASSUME NEW a \in Assets, NEW streams, DropEvidence(a, streams)
        PROVE  DocumentInv'
    BY <2>4, NoNewDocument DEF DropEvidence, DeleteEvidence, runVars
  <2>5. ASSUME NEW w \in Ingesters, NEW list \in RefLists, StartIngest(w, list)
        PROVE  DocumentInv'
    <3>1. /\ UNCHANGED <<storeVars, docOf, raced>>
          /\ seen' = [seen EXCEPT ![w] = ExistingLocators]
          /\ pc' = [pc EXCEPT ![w] = "fetch"]
      BY <2>5 DEF StartIngest
    <3>2. ASSUME NEW v \in Ingesters, Active(v)', NEW a \in stored, docOf[a] \in Docs \ raced
          PROVE  docOf[a] \in seen'[v]
      BY <3>1, <3>2, StartSeesStored DEF DocumentInv, IngestTypeOK
    <3>3. QED
      BY <3>1, <3>2 DEF DocumentInv, OneAssetPerDocument, storeVars
  <2>6. ASSUME NEW w \in Ingesters,
               \/ FetchFails(w) \/ Fetch(w) \/ LocatorRaises(w) \/ SkipBundle(w)
               \/ SaveFails(w) \/ NextRef(w) \/ FinishIngest(w) \/ Crash(w) \/ Restart(w)
        PROVE  DocumentInv'
    <3>1. UNCHANGED <<storeVars, docOf, raced>>
      BY <2>6 DEF FetchFails, Fetch, LocatorRaises, SkipBundle, SaveFails, NextRef,
         FinishIngest, Crash, Restart, Stop
    <3>2. \A v \in Ingesters : Active(v)' => Active(v) /\ seen'[v] = seen[v]
      BY <2>6 DEF FetchFails, Fetch, LocatorRaises, SkipBundle, SaveFails, NextRef,
         FinishIngest, Crash, Restart, Stop, HasBundle, NextBundle, IngestTypeOK
    <3>3. QED
      BY <3>1, <3>2, NoNewDocument DEF storeVars
  <2>7. ASSUME NEW w \in Ingesters, NEW b \in Assets, SaveBundle(w, b)
        PROVE  DocumentInv'
    <3> DEFINE d == Bundle(w)
    <3>1. /\ pc[w] = "save" /\ pc' = pc
          /\ d \notin seen[w]
          /\ b \notin issued /\ issued' = issued \cup {b} /\ stored' = stored \cup {b}
          /\ docOf' = [docOf EXCEPT ![b] = d]
          /\ seen' = [seen EXCEPT ![w] = @ \cup {d}]
          /\ raced \subseteq raced'
          /\ \A v \in Ingesters \ {w} : Active(v) => d \in seen[v] \/ d \in raced'
      BY <2>7 DEF SaveBundle, HasBundle, SaveAsset, NextBundle
    <3> HIDE DEF d
    <3>2. \A a \in stored : a # b /\ docOf'[a] = docOf[a]
      BY <3>1 DEF IngestTypeOK, StoreTypeOK
    <3>3. docOf'[b] = d
      BY <3>1 DEF IngestTypeOK
    <3>4. \A a \in stored : docOf[a] = d => d \notin Docs \ raced
      BY <3>1 DEF DocumentInv
    <3>5. OneAssetPerDocument'
      BY <3>1, <3>2, <3>3, <3>4 DEF DocumentInv, OneAssetPerDocument
    <3>6. ASSUME NEW v \in Ingesters, Active(v)', NEW a \in stored', docOf'[a] \in Docs \ raced'
          PROVE  docOf'[a] \in seen'[v]
      <4>1. Active(v) /\ seen[v] \subseteq seen'[v]
        BY <3>1, <3>6 DEF IngestTypeOK
      <4>2. CASE a \in stored
        BY <3>1, <3>2, <3>6, <4>1, <4>2 DEF DocumentInv
      <4>3. CASE a = b
        BY <3>1, <3>3, <3>6, <4>1, <4>3 DEF IngestTypeOK
      <4>4. QED
        BY <3>1, <4>2, <4>3
    <3>7. \A a \in Assets \ issued' : docOf'[a] = NoDoc
      BY <3>1 DEF DocumentInv, IngestTypeOK
    <3>8. QED
      BY <3>5, <3>6, <3>7 DEF DocumentInv
  <2>8. QED
    BY <2>1, <2>2, <2>3, <2>4, <2>5, <2>6, <2>7 DEF Next, Process
<1>3. Spec => []SourcesResolve
  BY IngestImplementsStore, StoreSourcesResolve, PTL
<1>4. QED
  BY <1>1, <1>2, <1>3, IngestTypes, PTL DEF Spec

\* "Re-runs skip exactly what is present": no document is stored twice, unless
\* while another run was under way that could not see it.
THEOREM IngestOneAssetPerDocument == Spec => []OneAssetPerDocument
BY DocumentInvariant, PTL DEF DocumentInv

---------------------------------------------------------------------------
(***************************************************************************)
(* Why a document is skipped, and what the report accounts for.            *)
(***************************************************************************)
\* The documents that were ever stored or cited.
Known == {docOf[a] : a \in issued} \cup {c[2] : c \in citations}

\* Runs take for ingested only what is known.
SeenInv == \A w \in Ingesters : seen[w] \cup skipped[w] \subseteq Known

\* What is known stays known.
LEMMA KnownGrows ==
    ASSUME IngestTypeOK, [Next]_vars
    PROVE  Known \subseteq Known'
<1> USE DEF Known
<1>1. CASE issued \subseteq issued' /\ citations \subseteq citations' /\ docOf' = docOf
  BY <1>1
<1>2. ASSUME NEW w \in Ingesters, NEW a \in Assets, SaveBundle(w, a)
      PROVE  Known \subseteq Known'
  <2>1. /\ a \notin issued /\ issued' = issued \cup {a} /\ citations' = citations
        /\ docOf' = [docOf EXCEPT ![a] = Bundle(w)]
    BY <1>2 DEF SaveBundle, SaveAsset
  <2>2. \A b \in issued : docOf'[b] = docOf[b]
    BY <2>1 DEF IngestTypeOK, StoreTypeOK
  <2>3. QED
    BY <2>1, <2>2
<1>3. ASSUME NEW w \in Ingesters,
             \/ \E list \in RefLists : StartIngest(w, list)
             \/ Crash(w) \/ Restart(w) \/ FetchFails(w) \/ Fetch(w) \/ LocatorRaises(w)
             \/ SkipBundle(w) \/ SaveFails(w) \/ NextRef(w) \/ FinishIngest(w)
      PROVE  UNCHANGED <<issued, citations, docOf>>
  BY <1>3 DEF StartIngest, Crash, Restart, FetchFails, Fetch, LocatorRaises, SkipBundle,
     SaveFails, NextRef, FinishIngest, Stop, storeVars
<1>4. ASSUME NEW a \in Assets,
             \/ AddOtherAsset(a) \/ RemoveAsset(a)
             \/ \E s \in Streams, r \in Runs, cited \in SUBSET Neighbours :
                  CiteDocuments(a, s, r, cited)
             \/ \E streams \in SUBSET Streams : DropEvidence(a, streams)
      PROVE  issued \subseteq issued' /\ citations \subseteq citations' /\ docOf' = docOf
  BY <1>4 DEF AddOtherAsset, RemoveAsset, CiteDocuments, DropEvidence, SaveAsset,
     DeleteAsset, SaveStreamResult, DeleteEvidence
<1>5. QED
  BY <1>1, <1>2, <1>3, <1>4 DEF Next, Process, vars, storeVars

\* What a run skips was stored or cited, in every execution.
THEOREM SeenInvariant == Spec => []SeenInv
<1>1. Init => SeenInv
  BY DEF Init, SeenInv
<1>2. IngestTypeOK /\ NothingSurvivesDeletion /\ SeenInv /\ [Next]_vars => SeenInv'
  <2> SUFFICES ASSUME IngestTypeOK, NothingSurvivesDeletion, SeenInv, [Next]_vars,
                      NEW v \in Ingesters
               PROVE  (seen[v] \cup skipped[v] \subseteq Known)'
    BY DEF SeenInv
  <2> USE KnownGrows DEF SeenInv, report
  <2>1. CASE seen'[v] = seen[v] /\ skipped'[v] = skipped[v]
    BY <2>1
  <2>2. CASE seen'[v] = {} /\ skipped'[v] = skipped[v]
    BY <2>2
  <2>3. ASSUME NEW w \in Ingesters, NEW list \in RefLists, StartIngest(w, list)
        PROVE  (seen[v] \cup skipped[v] \subseteq Known)'
    <3>1. ExistingLocators \subseteq Known
      <4>1. \A a : [asset |-> a] \in sources => a \in issued
        BY DEF NothingSurvivesDeletion, IngestTypeOK, StoreTypeOK
      <4>2. IngestedLocators \subseteq Known
        BY <4>1 DEF IngestedLocators, Known
      <4>3. CitedLocators \subseteq Known
        BY DEF CitedLocators, Known
      <4>4. QED
        BY <4>2, <4>3 DEF ExistingLocators
    <3>2. QED
      BY <2>1, <2>3, <3>1 DEF StartIngest, IngestTypeOK
  <2>4. ASSUME NEW w \in Ingesters, SkipBundle(w)
        PROVE  (seen[v] \cup skipped[v] \subseteq Known)'
    BY <2>4 DEF SkipBundle, IngestTypeOK
  <2>5. ASSUME NEW w \in Ingesters, NEW a \in Assets, SaveBundle(w, a)
        PROVE  (seen[v] \cup skipped[v] \subseteq Known)'
    <3>1. Bundle(w) \in Known'
      BY <2>5 DEF SaveBundle, SaveAsset, Known, IngestTypeOK
    <3>2. QED
      BY <2>5, <3>1 DEF SaveBundle, IngestTypeOK
  <2>6. ASSUME NEW w \in Ingesters,
               \/ FetchFails(w) \/ Fetch(w) \/ LocatorRaises(w) \/ SaveFails(w)
               \/ NextRef(w) \/ FinishIngest(w) \/ Crash(w) \/ Restart(w)
        PROVE  skipped' = skipped /\ (seen' = seen \/ seen' = [seen EXCEPT ![w] = {}])
    BY <2>6 DEF FetchFails, Fetch, LocatorRaises, SaveFails, NextRef, FinishIngest, Crash,
       Restart, Stop
  <2>7. ASSUME NEW a \in Assets,
               \/ AddOtherAsset(a) \/ RemoveAsset(a)
               \/ \E s \in Streams, r \in Runs, cited \in SUBSET Neighbours :
                    CiteDocuments(a, s, r, cited)
               \/ \E streams \in SUBSET Streams : DropEvidence(a, streams)
        PROVE  seen' = seen /\ skipped' = skipped
    BY <2>7 DEF AddOtherAsset, RemoveAsset, CiteDocuments, DropEvidence, runVars
  <2>8. QED
    BY <2>1, <2>2, <2>3, <2>4, <2>5, <2>6, <2>7
       DEF Next, Process, vars, runVars, IngestTypeOK
<1>3. Spec => []NothingSurvivesDeletion
  BY IngestImplementsStore, StoreNothingSurvivesDeletion, PTL
<1>4. QED
  BY <1>1, <1>2, <1>3, IngestTypes, PTL DEF Spec

\* No document is skipped but one that was stored as an asset or that S2 found.
THEOREM IngestSkipsKnown == Spec => []SkippedWasStoredOrCited
<1>1. SeenInv => SkippedWasStoredOrCited
  BY DEF SeenInv, SkippedWasStoredOrCited, Known
<1>2. QED
  BY <1>1, SeenInvariant, PTL

\* The report of run w accounts for document d of the answer to reference r.
Accounted(w, r, d) == d \in saved[w] \cup skipped[w] \/ <<r, d>> \in failed[w]

\* What is not accounted for yet is still to be handled.
PendingInv ==
    \A w \in Ingesters : pc[w] = "save" =>
        \A d \in ToSet(Response[ref[w]]) : d \in ToSet(bundles[w]) \/ Accounted(w, ref[w], d)

\* Taking the first element away from a sequence.
LEMMA TailSet ==
    ASSUME NEW S, NEW q \in Seq(S), q # <<>>
    PROVE  ToSet(q) \subseteq {Head(q)} \cup ToSet(Tail(q))
<1> SUFFICES ASSUME NEW i \in DOMAIN q, q[i] # Head(q)
             PROVE  q[i] \in ToSet(Tail(q))
  BY DEF ToSet
<1>1. i \in 1 .. Len(q) /\ i # 1
  OBVIOUS
<1>2. i - 1 \in DOMAIN Tail(q) /\ Tail(q)[i - 1] = q[i]
  BY <1>1
<1>3. QED
  BY <1>2 DEF ToSet

\* The report is complete, with what is still to be handled, in every execution.
THEOREM ReportInvariant == Spec => [](PendingInv /\ ReportComplete)
<1>1. Init => PendingInv /\ ReportComplete
  BY DEF Init, PendingInv, ReportComplete
<1>2. IngestTypeOK /\ PendingInv /\ ReportComplete /\ [Next]_vars
        => PendingInv' /\ ReportComplete'
  <2> SUFFICES ASSUME IngestTypeOK, PendingInv, ReportComplete, [Next]_vars,
                      NEW v \in Ingesters
               PROVE  /\ pc'[v] = "save" =>
                           \A d \in ToSet(Response[ref'[v]]) :
                              d \in ToSet(bundles'[v]) \/ Accounted(v, ref[v], d)'
                      /\ \A r \in handled'[v] :
                           \/ <<r, "fetch">> \in failed'[v]
                           \/ \A d \in ToSet(Response[r]) : Accounted(v, r, d)'
    BY DEF PendingInv, ReportComplete, Accounted
  <2> DEFINE Goal == /\ pc'[v] = "save" =>
                          \A d \in ToSet(Response[ref'[v]]) :
                             d \in ToSet(bundles'[v]) \/ Accounted(v, ref[v], d)'
                     /\ \A r \in handled'[v] :
                          \/ <<r, "fetch">> \in failed'[v]
                          \/ \A d \in ToSet(Response[r]) : Accounted(v, r, d)'
  <2> USE DEF report
  <2>1. /\ pc[v] = "save" =>
             \A d \in ToSet(Response[ref[v]]) :
                d \in ToSet(bundles[v]) \/ Accounted(v, ref[v], d)
        /\ \A r \in handled[v] :
             \/ <<r, "fetch">> \in failed[v]
             \/ \A d \in ToSet(Response[r]) : Accounted(v, r, d)
    BY DEF PendingInv, ReportComplete, Accounted
  <2>2. ASSUME handled'[v] = handled[v] \/ handled'[v] = {},
               handled'[v] # {} =>
                  /\ saved[v] \subseteq saved'[v]
                  /\ skipped[v] \subseteq skipped'[v]
                  /\ failed[v] \subseteq failed'[v],
               pc'[v] # "save"
        PROVE  Goal
    BY <2>1, <2>2 DEF Accounted
  <2>3. CASE UNCHANGED <<pc, ref, bundles, handled, saved, skipped, failed>>
    BY <2>1, <2>3 DEF Accounted
  <2>4. ASSUME NEW a \in Assets,
               \/ AddOtherAsset(a) \/ RemoveAsset(a)
               \/ \E s \in Streams, r \in Runs, cited \in SUBSET Neighbours :
                    CiteDocuments(a, s, r, cited)
               \/ \E streams \in SUBSET Streams : DropEvidence(a, streams)
        PROVE  Goal
    BY <2>3, <2>4 DEF AddOtherAsset, RemoveAsset, CiteDocuments, DropEvidence, runVars
  <2>5. ASSUME NEW w \in Ingesters, w # v,
               \/ Process(w) \/ Crash(w) \/ Restart(w)
               \/ \E list \in RefLists : StartIngest(w, list)
        PROVE  Goal
    <3>1. /\ pc'[v] = pc[v] /\ ref'[v] = ref[v] /\ bundles'[v] = bundles[v]
          /\ handled'[v] = handled[v] /\ saved'[v] = saved[v]
          /\ skipped'[v] = skipped[v] /\ failed'[v] = failed[v]
      BY <2>5 DEF Process, Crash, Restart, StartIngest, FetchFails, Fetch, LocatorRaises,
         SkipBundle, SaveBundle, SaveFails, NextRef, FinishIngest, Stop, NextBundle,
         IngestTypeOK
    <3>2. QED
      BY <2>1, <3>1 DEF Accounted
  <2>6. CASE LocatorRaises(v) \/ FinishIngest(v) \/ Crash(v)
    <3>1. PICK how \in {"raised", "idle", "down"} : Stop(v, how)
      BY <2>6 DEF LocatorRaises, FinishIngest, Crash
    <3>2. QED
      BY <2>2, <3>1 DEF Stop, IngestTypeOK
  <2>7. CASE Restart(v)
    BY <2>2, <2>7 DEF Restart, IngestTypeOK
  <2>8. ASSUME NEW list \in RefLists, StartIngest(v, list)
        PROVE  Goal
    BY <2>2, <2>8 DEF StartIngest, IngestTypeOK
  <2>9. CASE FetchFails(v)
    <3>1. /\ pc'[v] = "fetch" /\ handled'[v] = handled[v] \cup {Head(refs[v])}
          /\ failed'[v] = failed[v] \cup {<<Head(refs[v]), "fetch">>}
          /\ saved' = saved /\ skipped' = skipped
      BY <2>9 DEF FetchFails, IngestTypeOK
    <3>2. QED
      BY <2>1, <3>1 DEF Accounted
  <2>10. CASE Fetch(v)
    <3>1. /\ ref'[v] = Head(refs[v]) /\ bundles'[v] = Response[Head(refs[v])]
          /\ UNCHANGED report
      BY <2>10 DEF Fetch, IngestTypeOK
    <3>2. QED
      BY <2>1, <3>1 DEF Accounted
  <2>11. CASE NextRef(v)
    <3>1. /\ pc[v] = "save" /\ pc'[v] = "fetch" /\ bundles[v] = <<>>
          /\ handled'[v] = handled[v] \cup {ref[v]}
          /\ UNCHANGED <<saved, skipped, failed>>
      BY <2>11 DEF NextRef, IngestTypeOK
    <3>2. ToSet(bundles[v]) = {}
      BY <3>1 DEF ToSet
    <3>3. QED
      BY <2>1, <3>1, <3>2 DEF Accounted
  <2>12. ASSUME SkipBundle(v) \/ SaveFails(v) \/ \E a \in Assets : SaveBundle(v, a)
         PROVE  Goal
    <3>1. /\ pc[v] = "save" /\ bundles[v] # <<>> /\ bundles[v] \in Seq(Docs)
          /\ pc' = pc /\ ref' = ref /\ handled' = handled
          /\ bundles'[v] = Tail(bundles[v])
      BY <2>12 DEF SkipBundle, SaveFails, SaveBundle, HasBundle, NextBundle, IngestTypeOK
    <3>2. /\ saved[v] \subseteq saved'[v] /\ skipped[v] \subseteq skipped'[v]
          /\ failed[v] \subseteq failed'[v]
          /\ \A d : d = Head(bundles[v]) => Accounted(v, ref[v], d)'
      <4>1. CASE SkipBundle(v)
        BY <3>1, <4>1 DEF SkipBundle, Bundle, Accounted, IngestTypeOK
      <4>2. CASE SaveFails(v)
        BY <3>1, <4>2 DEF SaveFails, Bundle, Accounted, IngestTypeOK
      <4>3. CASE \E a \in Assets : SaveBundle(v, a)
        BY <3>1, <4>3 DEF SaveBundle, Bundle, Accounted, IngestTypeOK
      <4>4. QED
        BY <2>12, <4>1, <4>2, <4>3
    <3>3. ToSet(bundles[v]) \subseteq {Head(bundles[v])} \cup ToSet(bundles'[v])
      BY <3>1, TailSet
    <3>4. QED
      BY <2>1, <3>1, <3>2, <3>3 DEF Accounted
  <2>13. QED
    BY <2>3, <2>4, <2>5, <2>6, <2>7, <2>8, <2>9, <2>10, <2>11, <2>12
       DEF Next, Process, vars, runVars
<1>3. QED
  BY <1>1, <1>2, IngestTypes, PTL DEF Spec

\* Every document of every answer a run has handled is in its report.
THEOREM IngestReportComplete == Spec => []ReportComplete
BY ReportInvariant, PTL

===========================================================================
