------------------------- MODULE TwoAxisRouting_proofs -------------------------
(***************************************************************************)
(* The safety properties of TwoAxisRouting for any number of routers,      *)
(* companies, bands and commands, and any clocks.                          *)
(***************************************************************************)
EXTENDS TwoAxisRouting, TLAPS

\* What a router has read so far was reported, while the asset exists.
ReadInv ==
    /\ row # None => exists /\ Reported(row)
    /\ \A r \in Routers : exists =>
         /\ trl[r] = "high" => \E c \in checks : c.band \in HighBands
         /\ trl[r] = "low"  => \E c \in checks : c.band \notin HighBands
         /\ pc[r] = "tracks" => needs # {}
         /\ result[r] # None => Reported(result[r])
         /\ result[r] # None /\ result[r].status = "ready" => needs # {} /\ checks # {}

\* What a router has computed is one routing.
WholeInv == \A r \in Routers : result[r] # None => IsCrossing(result[r])

\* What an undisturbed router has read is what the records say.
QuietInv ==
    \A r \in Routers : quiet[r] =>
        /\ pc[r] # "idle"
        /\ pc[r] \in {"need", "tracks"} => trl[r] \in TrlReadings
        /\ pc[r] = "tracks" => needs # {}
        /\ pc[r] \in {"load", "save"} => Current(result[r])
        /\ pc[r] = "save" => loaded[r] = row

RoutingInv ==
    /\ RoutingTypeOK /\ ReadInv /\ WholeInv /\ QuietInv
    /\ ReadyNeedsBoth /\ UnmixedRowIsCrossing /\ QuietRoutingIsCurrent

---------------------------------------------------------------------------
\* A routing has the type of a row.
LEMMA CrossingType ==
    /\ Pending \in AssetRouting
    /\ \A n \in Need, a \in Trl : Crossing(n, a) \in AssetRouting
    /\ \A s : ResolveNeedAxis(s) \in Need
    /\ \A c : Axis(c) \in Trl
<1>1. \A n, a : Route(n, a) \in Routes
  BY DEF Route, Routes
<1> QED BY <1>1 DEF Pending, Crossing, AssetRouting, ResolveNeedAxis, Need, Axis, Trl

\* An axis that was read comes from a check, from one of the latest.
LEMMA TrlReadingsLemma ==
    ASSUME NEW axis \in TrlReadings
    PROVE  /\ axis \in Trl \cup {None}
           /\ axis = None <=> checks = {}
           /\ axis # None => \E c \in Latest(checks) : axis = Axis(c)
           /\ axis = "high" => \E c \in checks : c.band \in HighBands
           /\ axis = "low"  => \E c \in checks : c.band \notin HighBands
<1> USE RoutingAssumption
<1>1. CASE checks = {}
  BY <1>1 DEF TrlReadings
<1>2. CASE checks # {}
  <2>1. PICK c \in Latest(checks) : axis = Axis(c)
    BY <1>2 DEF TrlReadings
  <2>2. c \in checks /\ axis \in Trl /\ axis # None
    BY <2>1 DEF Latest, Axis, Trl
  <2> QED BY <1>2, <2>1, <2>2 DEF Axis
<1> QED BY <1>1, <1>2

\* The need axis follows from the latest records, whichever of a tie is taken.
LEMMA NeedLemma ==
    ASSUME NEW K \in ConfirmedKeys, NEW need, need = ResolveNeedAxis(TracksOf(K))
    PROVE  /\ need \in Need
           /\ need \in Track => \E c \in Companies : MaySayYes(c, need)
           /\ need # "customer" => \A c \in Companies : ~ SaysYes(c, "customer")
           /\ need = "none" => \A c \in Companies : ~ SaysYes(c, "producer")
           /\ need \in Track => \E v \in needs : v.track = need /\ v.outcome = "need_confirmed"
<1>1. need \in Need
  BY CrossingType
<1>2. \A c \in Companies, t \in Track : <<c, t>> \in K => MaySayYes(c, t)
  BY DEF ConfirmedKeys, MaySayYes, Confirms
<1>3. \A c \in Companies, t \in Track : <<c, t>> \notin K => ~ SaysYes(c, t)
  BY DEF ConfirmedKeys, SaysYes, Confirms
<1>4. need \in Track => need \in TracksOf(K)
  BY DEF ResolveNeedAxis, Track
<1>5. need # "customer" => "customer" \notin TracksOf(K)
  BY DEF ResolveNeedAxis
<1>6. need = "none" => "producer" \notin TracksOf(K)
  BY DEF ResolveNeedAxis
<1>7. need \in Track => \E c \in Companies : MaySayYes(c, need)
  BY <1>2, <1>4 DEF TracksOf
<1>8. need \in Track => \E v \in needs : v.track = need /\ v.outcome = "need_confirmed"
  BY <1>7 DEF MaySayYes, Latest, OfKey
<1>9. "customer" \in Track /\ "producer" \in Track
  BY DEF Track
<1> QED BY <1>1, <1>3, <1>5, <1>6, <1>7, <1>8, <1>9 DEF TracksOf

\* A save over the row that was loaded stores the whole result; any save takes each
\* column from the result or from the row.
LEMMA UpdatedLemma ==
    ASSUME NEW r \in Routers, row \in AssetRouting, result[r] \in AssetRouting
    PROVE  /\ Updated(r) \in AssetRouting
           /\ loaded[r] = row => Updated(r) = result[r]
           /\ Updated(r).status \in {result[r].status, row.status}
           /\ Updated(r).need \in {result[r].need, row.need}
           /\ Updated(r).trl \in {result[r].trl, row.trl}
<1>1. /\ Updated(r).status \in {result[r].status, row.status}
      /\ Updated(r).need \in {result[r].need, row.need}
      /\ Updated(r).trl \in {result[r].trl, row.trl}
      /\ Updated(r).route \in {result[r].route, row.route}
  BY DEF Updated
<1>2. Updated(r) = [status |-> Updated(r).status, need |-> Updated(r).need,
                    trl |-> Updated(r).trl, route |-> Updated(r).route]
  BY DEF Updated
<1>3. Updated(r) \in AssetRouting
  BY <1>1, <1>2 DEF AssetRouting
<1>4. ASSUME loaded[r] = row
      PROVE  Updated(r) = result[r]
  <2>1. /\ Updated(r).status = result[r].status /\ Updated(r).need = result[r].need
        /\ Updated(r).trl = result[r].trl /\ Updated(r).route = result[r].route
    BY <1>4 DEF Updated
  <2> QED BY <1>3, <2>1 DEF AssetRouting
<1> QED BY <1>1, <1>3, <1>4

---------------------------------------------------------------------------
\* New records leave every report standing, and end every quiet.
LEMMA RecordedStep ==
    ASSUME RoutingInv, Recorded, needs \subseteq needs', checks \subseteq checks',
           needs' \subseteq NeedValidation, checks' \subseteq InventorTrlCheck
    PROVE  RoutingInv'
<1> USE RoutingAssumption
<1>1. /\ UNCHANGED <<exists, row, pc, trl, result, loaded, mixed>>
      /\ calls < MaxCalls /\ calls' = calls + 1
      /\ quiet' = [r \in Routers |-> FALSE] /\ current' = FALSE
  BY DEF Recorded, Called, router
<1>2. calls' \in 0 .. MaxCalls
  BY <1>1 DEF RoutingInv, RoutingTypeOK
<1>3. RoutingTypeOK'
  <2>1. quiet' \in [Routers -> BOOLEAN] /\ current' \in BOOLEAN
    BY <1>1
  <2> QED BY <1>1, <1>2, <2>1 DEF RoutingInv, RoutingTypeOK
<1>4. \A x : Reported(x) => Reported(x)'
  BY DEF Reported
<1>5. ReadInv'
  BY <1>1, <1>4 DEF RoutingInv, ReadInv, Reported
<1>6. WholeInv' /\ UnmixedRowIsCrossing'
  BY <1>1 DEF RoutingInv, WholeInv, UnmixedRowIsCrossing, IsCrossing
<1>7. QuietInv' /\ QuietRoutingIsCurrent'
  BY <1>1 DEF QuietInv, QuietRoutingIsCurrent
<1>8. ReadyNeedsBoth'
  BY <1>1 DEF RoutingInv, ReadyNeedsBoth
<1> QED BY <1>3, <1>5, <1>6, <1>7, <1>8 DEF RoutingInv

\* A deletion takes records and row, and no router can save afterwards.
LEMMA DeleteStep ==
    ASSUME RoutingInv, DeleteAsset
    PROVE  RoutingInv'
<1> USE RoutingAssumption
<1>1. /\ UNCHANGED <<pc, trl, result, loaded, mixed>>
      /\ calls < MaxCalls /\ calls' = calls + 1
      /\ exists' = FALSE /\ row' = None /\ needs' = {} /\ checks' = {}
      /\ quiet' = [r \in Routers |-> FALSE] /\ current' = FALSE
  BY DEF DeleteAsset, Called, router
<1>2. RoutingTypeOK'
  <2>1. /\ quiet' \in [Routers -> BOOLEAN] /\ current' \in BOOLEAN /\ exists' \in BOOLEAN
    BY <1>1
  <2>2. calls' \in 0 .. MaxCalls
    BY <1>1 DEF RoutingInv, RoutingTypeOK
  <2> QED BY <1>1, <2>1, <2>2 DEF RoutingInv, RoutingTypeOK
<1>3. ReadInv'
  BY <1>1 DEF ReadInv
<1>4. WholeInv' /\ UnmixedRowIsCrossing' /\ ReadyNeedsBoth'
  BY <1>1 DEF RoutingInv, WholeInv, UnmixedRowIsCrossing, IsCrossing, ReadyNeedsBoth
<1>5. QuietInv' /\ QuietRoutingIsCurrent'
  BY <1>1 DEF QuietInv, QuietRoutingIsCurrent
<1> QED BY <1>2, <1>3, <1>4, <1>5 DEF RoutingInv

\* What a step that leaves the tables alone leaves alone too.
LEMMA TablesLemma ==
    ASSUME UNCHANGED <<exists, needs, checks>>
    PROVE  /\ \A x : Reported(x)' <=> Reported(x)
           /\ \A x : Current(x)' <=> Current(x)
           /\ TrlReadings' = TrlReadings
<1>1. Latest(checks)' = Latest(checks)
  BY DEF Latest
<1>2. \A c, t : OfKey(c, t)' = OfKey(c, t)
  BY DEF OfKey
<1>3. \A c, t : Latest(OfKey(c, t))' = Latest(OfKey(c, t))
  BY <1>2 DEF Latest
<1>4. \A c, t : SaysYes(c, t)' = SaysYes(c, t) /\ MaySayYes(c, t)' = MaySayYes(c, t)
  BY <1>2, <1>3 DEF SaysYes, MaySayYes
<1> QED BY <1>1, <1>4 DEF Reported, Current, TrlReadings, Axis

\* Reading the TRL check keeps the invariant,
LEMMA ReadTrlCheckStep ==
    ASSUME RoutingInv, NEW r \in Routers, ReadTrlCheck(r)
    PROVE  RoutingInv'
<1> USE RoutingAssumption
<1>1. PICK axis \in TrlReadings : trl' = [trl EXCEPT ![r] = axis]
  BY DEF ReadTrlCheck
<1>2. /\ pc[r] = "idle" /\ pc' = [pc EXCEPT ![r] = "need"]
      /\ calls < MaxCalls /\ calls' = calls + 1 /\ quiet' = [quiet EXCEPT ![r] = TRUE]
      /\ UNCHANGED <<exists, needs, checks, row, result, loaded, current, mixed>>
  BY DEF ReadTrlCheck, Called, records
<1>3. /\ axis \in Trl \cup {None}
      /\ axis = "high" => \E c \in checks : c.band \in HighBands
      /\ axis = "low"  => \E c \in checks : c.band \notin HighBands
  BY <1>1, TrlReadingsLemma
<1>4. RoutingTypeOK'
  <2>1. calls' \in 0 .. MaxCalls
    BY <1>2 DEF RoutingInv, RoutingTypeOK
  <2>2. quiet' \in [Routers -> BOOLEAN]
    BY <1>2 DEF RoutingInv, RoutingTypeOK
  <2>3. /\ pc' \in [Routers -> {"idle", "need", "tracks", "load", "save"}]
        /\ trl' \in [Routers -> Trl \cup {None}]
    BY <1>1, <1>2, <1>3 DEF RoutingInv, RoutingTypeOK
  <2>4. \A q \in Routers : /\ pc'[q] = "tracks" => trl'[q] # None
                           /\ pc'[q] \in {"load", "save"} => result'[q] # None
    BY <1>1, <1>2 DEF RoutingInv, RoutingTypeOK
  <2> QED BY <1>2, <2>1, <2>2, <2>3, <2>4 DEF RoutingInv, RoutingTypeOK
<1>5. ReadInv'
  BY <1>1, <1>2, <1>3, TablesLemma DEF RoutingInv, RoutingTypeOK, ReadInv
<1>6. WholeInv' /\ UnmixedRowIsCrossing' /\ ReadyNeedsBoth'
  BY <1>2 DEF RoutingInv, WholeInv, UnmixedRowIsCrossing, IsCrossing, ReadyNeedsBoth
<1>7. QuietInv'
  BY <1>1, <1>2, TablesLemma DEF RoutingInv, RoutingTypeOK, QuietInv
<1>8. QuietRoutingIsCurrent'
  BY <1>2, TablesLemma DEF RoutingInv, QuietRoutingIsCurrent
<1> QED BY <1>4, <1>5, <1>6, <1>7, <1>8 DEF RoutingInv

\* A result is computed: what is to be shown of it.
LEMMA ComputedStep ==
    ASSUME RoutingInv, NEW r \in Routers, NEW res \in AssetRouting,
           pc[r] \in {"need", "tracks"}, Computed(r, res), IsCrossing(res),
           exists => Reported(res),
           exists /\ res.status = "ready" => needs # {} /\ checks # {},
           quiet[r] => Current(res),
           UNCHANGED <<exists, records, row, trl, loaded, calls, quiet, current, mixed>>
    PROVE  RoutingInv'
<1> USE RoutingAssumption
<1>1. /\ result' = [result EXCEPT ![r] = res] /\ pc' = [pc EXCEPT ![r] = "load"]
      /\ UNCHANGED <<exists, needs, checks, row, trl, loaded, calls, quiet, current, mixed>>
  BY DEF Computed, records
<1>2. res # None
  BY DEF AssetRouting, Need, Trl, Routes
<1>3. RoutingTypeOK'
  <2>1. /\ pc' \in [Routers -> {"idle", "need", "tracks", "load", "save"}]
        /\ result' \in [Routers -> AssetRouting \cup {None}]
    BY <1>1 DEF RoutingInv, RoutingTypeOK
  <2>2. \A q \in Routers : /\ pc'[q] = "tracks" => trl'[q] # None
                           /\ pc'[q] \in {"load", "save"} => result'[q] # None
    BY <1>1, <1>2 DEF RoutingInv, RoutingTypeOK
  <2> QED BY <1>1, <2>1, <2>2 DEF RoutingInv, RoutingTypeOK
<1>4. ReadInv'
  BY <1>1, TablesLemma DEF RoutingInv, RoutingTypeOK, ReadInv
<1>5. WholeInv' /\ UnmixedRowIsCrossing' /\ ReadyNeedsBoth'
  BY <1>1 DEF RoutingInv, RoutingTypeOK, WholeInv, UnmixedRowIsCrossing, IsCrossing, ReadyNeedsBoth
<1>6. QuietInv'
  BY <1>1, TablesLemma DEF RoutingInv, RoutingTypeOK, QuietInv
<1>7. QuietRoutingIsCurrent'
  BY <1>1, TablesLemma DEF RoutingInv, QuietRoutingIsCurrent
<1> QED BY <1>3, <1>4, <1>5, <1>6, <1>7 DEF RoutingInv

\* so does asking whether there is a need,
LEMMA ReadHasNeedStep ==
    ASSUME RoutingInv, NEW r \in Routers, ReadHasNeed(r)
    PROVE  RoutingInv'
<1> USE RoutingAssumption
<1>1. /\ pc[r] = "need"
      /\ UNCHANGED <<exists, records, row, trl, loaded, calls, quiet, current, mixed>>
  BY DEF ReadHasNeed
<1>2. quiet[r] => trl[r] \in TrlReadings
  BY <1>1 DEF RoutingInv, QuietInv
<1>3. CASE (trl[r] = None \/ needs = {}) /\ Computed(r, Pending)
  <2>1. Pending \in AssetRouting /\ IsCrossing(Pending)
    BY CrossingType DEF IsCrossing
  <2>2. Reported(Pending) /\ Pending.status # "ready"
    BY DEF Pending, Reported, Track
  <2>3. quiet[r] => Current(Pending)
    BY <1>2, <1>3, TrlReadingsLemma DEF Current
  <2> QED BY <1>1, <1>3, <2>1, <2>2, <2>3, ComputedStep
<1>4. CASE /\ trl[r] # None /\ needs # {}
           /\ pc' = [pc EXCEPT ![r] = "tracks"] /\ UNCHANGED result
  <2>1. UNCHANGED <<exists, needs, checks, row, trl, result, loaded, calls, quiet, current, mixed>>
    BY <1>1, <1>4 DEF records
  <2>2. RoutingTypeOK'
    <3>1. pc' \in [Routers -> {"idle", "need", "tracks", "load", "save"}]
      BY <1>4 DEF RoutingInv, RoutingTypeOK
    <3>2. \A q \in Routers : /\ pc'[q] = "tracks" => trl'[q] # None
                             /\ pc'[q] \in {"load", "save"} => result'[q] # None
      BY <1>4, <2>1 DEF RoutingInv, RoutingTypeOK
    <3> QED BY <2>1, <3>1, <3>2 DEF RoutingInv, RoutingTypeOK
  <2>3. ReadInv'
    BY <1>4, <2>1, TablesLemma DEF RoutingInv, RoutingTypeOK, ReadInv
  <2>4. WholeInv' /\ UnmixedRowIsCrossing' /\ ReadyNeedsBoth'
    BY <2>1 DEF RoutingInv, WholeInv, UnmixedRowIsCrossing, IsCrossing, ReadyNeedsBoth
  <2>5. QuietInv'
    BY <1>2, <1>4, <2>1, TablesLemma DEF RoutingInv, RoutingTypeOK, QuietInv
  <2>6. QuietRoutingIsCurrent'
    BY <2>1, TablesLemma DEF RoutingInv, QuietRoutingIsCurrent
  <2> QED BY <2>2, <2>3, <2>4, <2>5, <2>6 DEF RoutingInv
<1> QED BY <1>3, <1>4 DEF ReadHasNeed

\* reading its confirmed tracks, which computes the row,
LEMMA ReadConfirmedTracksStep ==
    ASSUME RoutingInv, NEW r \in Routers, ReadConfirmedTracks(r)
    PROVE  RoutingInv'
<1> USE RoutingAssumption
<1>1. /\ pc[r] = "tracks"
      /\ UNCHANGED <<exists, records, row, trl, loaded, calls, quiet, current, mixed>>
  BY DEF ReadConfirmedTracks
<1>2. PICK K \in ConfirmedKeys :
        Computed(r, Crossing(ResolveNeedAxis(TracksOf(K)), trl[r]))
  BY DEF ReadConfirmedTracks
<1> DEFINE need == ResolveNeedAxis(TracksOf(K))
           res  == Crossing(need, trl[r])
<1>3. /\ need \in Need
      /\ need \in Track => \E c \in Companies : MaySayYes(c, need)
      /\ need # "customer" => \A c \in Companies : ~ SaysYes(c, "customer")
      /\ need = "none" => \A c \in Companies : ~ SaysYes(c, "producer")
      /\ need \in Track => \E v \in needs : v.track = need /\ v.outcome = "need_confirmed"
  BY NeedLemma
<1>4. trl[r] \in Trl
  BY <1>1 DEF RoutingInv, RoutingTypeOK
<1>5. Computed(r, res)
  BY <1>2
<1> HIDE DEF need
<1>6. res.status = "ready" /\ res.need = need /\ res.trl = trl[r]
  BY DEF Crossing
<1>7. res \in AssetRouting /\ IsCrossing(res)
  BY <1>3, <1>4, CrossingType DEF IsCrossing
<1>8. exists => Reported(res) /\ needs # {} /\ checks # {}
  <2> SUFFICES ASSUME exists PROVE Reported(res) /\ needs # {} /\ checks # {}
    OBVIOUS
  <2>1. /\ trl[r] = "high" => \E c \in checks : c.band \in HighBands
        /\ trl[r] = "low"  => \E c \in checks : c.band \notin HighBands
        /\ needs # {}
    BY <1>1 DEF RoutingInv, ReadInv
  <2>2. Reported(res)
    BY <1>3, <1>6, <2>1 DEF Reported
  <2> QED BY <1>4, <2>1, <2>2 DEF Trl
<1>9. quiet[r] => Current(res)
  <2> SUFFICES ASSUME quiet[r] PROVE Current(res)
    OBVIOUS
  <2>1. trl[r] \in TrlReadings /\ needs # {}
    BY <1>1 DEF RoutingInv, QuietInv
  <2>2. checks # {} /\ \E c \in Latest(checks) : trl[r] = Axis(c)
    BY <1>4, <2>1, TrlReadingsLemma DEF Trl
  <2> QED BY <1>3, <1>6, <2>1, <2>2 DEF Current
<1> HIDE DEF res
<1> QED BY <1>1, <1>5, <1>7, <1>8, <1>9, ComputedStep

\* loading the stored row,
LEMMA LoadRowStep ==
    ASSUME RoutingInv, NEW r \in Routers, LoadRow(r)
    PROVE  RoutingInv'
<1> USE RoutingAssumption
<1>1. /\ pc[r] = "load" /\ pc' = [pc EXCEPT ![r] = "save"]
      /\ loaded' = [loaded EXCEPT ![r] = row]
      /\ UNCHANGED <<exists, needs, checks, row, trl, result, calls, quiet, current, mixed>>
  BY DEF LoadRow, records
<1>2. RoutingTypeOK'
  <2>1. /\ pc' \in [Routers -> {"idle", "need", "tracks", "load", "save"}]
        /\ loaded' \in [Routers -> AssetRouting \cup {None}]
    BY <1>1 DEF RoutingInv, RoutingTypeOK
  <2>2. \A q \in Routers : /\ pc'[q] = "tracks" => trl'[q] # None
                           /\ pc'[q] \in {"load", "save"} => result'[q] # None
    BY <1>1 DEF RoutingInv, RoutingTypeOK
  <2> QED BY <1>1, <2>1, <2>2 DEF RoutingInv, RoutingTypeOK
<1>3. ReadInv'
  BY <1>1, TablesLemma DEF RoutingInv, RoutingTypeOK, ReadInv
<1>4. WholeInv' /\ UnmixedRowIsCrossing' /\ ReadyNeedsBoth'
  BY <1>1 DEF RoutingInv, WholeInv, UnmixedRowIsCrossing, IsCrossing, ReadyNeedsBoth
<1>5. QuietInv'
  BY <1>1, TablesLemma DEF RoutingInv, RoutingTypeOK, QuietInv
<1>6. QuietRoutingIsCurrent'
  BY <1>1, TablesLemma DEF RoutingInv, QuietRoutingIsCurrent
<1> QED BY <1>2, <1>3, <1>4, <1>5, <1>6 DEF RoutingInv

\* A command that ends leaves nothing behind.
LEMMA EndedLemma ==
    ASSUME RoutingInv, NEW r \in Routers, Ended(r), UNCHANGED <<exists, needs, checks>>
    PROVE  /\ pc' \in [Routers -> {"idle", "need", "tracks", "load", "save"}]
           /\ trl' \in [Routers -> Trl \cup {None}]
           /\ result' \in [Routers -> AssetRouting \cup {None}]
           /\ loaded' \in [Routers -> AssetRouting \cup {None}]
           /\ \A q \in Routers : /\ pc'[q] = "tracks" => trl'[q] # None
                                 /\ pc'[q] \in {"load", "save"} => result'[q] # None
           /\ (row' # None => exists /\ Reported(row')) => ReadInv'
           /\ WholeInv'
           /\ pc'[r] = "idle" /\ \A q \in Routers \ {r} : pc'[q] = pc[q] /\ trl'[q] = trl[q]
                /\ result'[q] = result[q] /\ loaded'[q] = loaded[q]
<1> USE RoutingAssumption
<1>1. /\ pc' = [pc EXCEPT ![r] = "idle"] /\ trl' = [trl EXCEPT ![r] = None]
      /\ result' = [result EXCEPT ![r] = None] /\ loaded' = [loaded EXCEPT ![r] = None]
  BY DEF Ended
<1>2. /\ pc' \in [Routers -> {"idle", "need", "tracks", "load", "save"}]
      /\ trl' \in [Routers -> Trl \cup {None}]
      /\ result' \in [Routers -> AssetRouting \cup {None}]
      /\ loaded' \in [Routers -> AssetRouting \cup {None}]
  BY <1>1 DEF RoutingInv, RoutingTypeOK
<1>3. /\ pc'[r] = "idle" /\ trl'[r] = None /\ result'[r] = None
      /\ \A q \in Routers \ {r} : pc'[q] = pc[q] /\ trl'[q] = trl[q]
                /\ result'[q] = result[q] /\ loaded'[q] = loaded[q]
  BY <1>1 DEF RoutingInv, RoutingTypeOK
<1>4. \A q \in Routers : /\ pc'[q] = "tracks" => trl'[q] # None
                         /\ pc'[q] \in {"load", "save"} => result'[q] # None
  BY <1>3 DEF RoutingInv, RoutingTypeOK
<1>5. WholeInv'
  BY <1>3 DEF RoutingInv, WholeInv, IsCrossing
<1>6. (row' # None => exists /\ Reported(row')) => ReadInv'
  BY <1>3, TablesLemma DEF RoutingInv, ReadInv
<1> QED BY <1>2, <1>3, <1>4, <1>5, <1>6

\* saving the new one
LEMMA SaveStep ==
    ASSUME RoutingInv, NEW r \in Routers, Save(r)
    PROVE  RoutingInv'
<1> USE RoutingAssumption
<1>1. /\ pc[r] = "save" /\ Ended(r)
      /\ \/ loaded[r] = None /\ row = None /\ exists /\ row' = result[r]
         \/ loaded[r] # None /\ row # None /\ row' = Updated(r)
      /\ quiet' = [q \in Routers |-> FALSE] /\ current' = quiet[r]
      /\ mixed' = (loaded[r] # row)
      /\ UNCHANGED <<exists, needs, checks, calls>>
  BY DEF Save, records
<1>2. result[r] \in AssetRouting /\ result[r] # None
  BY <1>1 DEF RoutingInv, RoutingTypeOK
<1>3. row \in AssetRouting \cup {None}
  BY DEF RoutingInv, RoutingTypeOK
<1>4. /\ row' \in AssetRouting /\ exists
      /\ loaded[r] = row => row' = result[r]
      /\ row'.status \in {result[r].status} \cup (IF row = None THEN {} ELSE {row.status})
      /\ row'.need \in {result[r].need} \cup (IF row = None THEN {} ELSE {row.need})
      /\ row'.trl \in {result[r].trl} \cup (IF row = None THEN {} ELSE {row.trl})
  <2>1. CASE loaded[r] = None /\ row = None /\ exists /\ row' = result[r]
    BY <1>2, <2>1
  <2>2. CASE loaded[r] # None /\ row # None /\ row' = Updated(r)
    <3>1. exists
      BY <2>2 DEF RoutingInv, ReadInv
    <3> QED BY <1>2, <1>3, <2>2, <3>1, UpdatedLemma
  <2> QED BY <1>1, <2>1, <2>2
<1>5. /\ Reported(result[r])
      /\ row # None => Reported(row)
      /\ result[r].status = "ready" => needs # {} /\ checks # {}
      /\ row # None /\ row.status = "ready" => needs # {} /\ checks # {}
  BY <1>2, <1>4 DEF RoutingInv, ReadInv, ReadyNeedsBoth
<1>6. Reported(row')
  <2> USE <1>4, <1>5 DEF Reported
  <2>1. row'.need \in Track => \E v \in needs : v.track = row'.need /\ v.outcome = "need_confirmed"
    OBVIOUS
  <2>2. row'.trl = "high" => \E c \in checks : c.band \in HighBands
    OBVIOUS
  <2>3. row'.trl = "low"  => \E c \in checks : c.band \notin HighBands
    OBVIOUS
  <2> QED BY <2>1, <2>2, <2>3
<1>7. ReadInv' /\ WholeInv'
  BY <1>1, <1>4, <1>6, EndedLemma
<1>8. RoutingTypeOK'
  <2>1. quiet' \in [Routers -> BOOLEAN] /\ current' \in BOOLEAN /\ mixed' \in BOOLEAN
    <3>1. quiet[r] \in BOOLEAN
      BY DEF RoutingInv, RoutingTypeOK
    <3> QED BY <1>1, <3>1
  <2>2. /\ pc' \in [Routers -> {"idle", "need", "tracks", "load", "save"}]
        /\ trl' \in [Routers -> Trl \cup {None}]
        /\ result' \in [Routers -> AssetRouting \cup {None}]
        /\ loaded' \in [Routers -> AssetRouting \cup {None}]
        /\ \A q \in Routers : /\ pc'[q] = "tracks" => trl'[q] # None
                              /\ pc'[q] \in {"load", "save"} => result'[q] # None
    BY <1>1, EndedLemma
  <2> QED BY <1>1, <1>4, <2>1, <2>2 DEF RoutingInv, RoutingTypeOK
<1>9. QuietInv'
  BY <1>1 DEF QuietInv
<1>10. ReadyNeedsBoth'
  BY <1>1, <1>4, <1>5 DEF ReadyNeedsBoth
<1>11. UnmixedRowIsCrossing'
  BY <1>1, <1>2, <1>4 DEF RoutingInv, WholeInv, UnmixedRowIsCrossing, IsCrossing
<1>12. QuietRoutingIsCurrent'
  <2>1. quiet[r] => Current(result[r]) /\ row' = result[r]
    BY <1>1, <1>4 DEF RoutingInv, QuietInv
  <2> QED BY <1>1, <2>1, TablesLemma DEF QuietRoutingIsCurrent
<1> QED BY <1>7, <1>8, <1>9, <1>10, <1>11, <1>12 DEF RoutingInv

\* and giving up.
LEMMA AbandonStep ==
    ASSUME RoutingInv, NEW r \in Routers, Abandon(r)
    PROVE  RoutingInv'
<1> USE RoutingAssumption
<1>1. /\ Ended(r) /\ quiet' = [quiet EXCEPT ![r] = FALSE]
      /\ UNCHANGED <<exists, needs, checks, row, calls, current, mixed>>
  BY DEF Abandon, records
<1>2. ReadInv' /\ WholeInv'
  BY <1>1, EndedLemma DEF RoutingInv, ReadInv
<1>3. RoutingTypeOK'
  <2>1. quiet' \in [Routers -> BOOLEAN]
    BY <1>1 DEF RoutingInv, RoutingTypeOK
  <2>2. /\ pc' \in [Routers -> {"idle", "need", "tracks", "load", "save"}]
        /\ trl' \in [Routers -> Trl \cup {None}]
        /\ result' \in [Routers -> AssetRouting \cup {None}]
        /\ loaded' \in [Routers -> AssetRouting \cup {None}]
        /\ \A q \in Routers : /\ pc'[q] = "tracks" => trl'[q] # None
                              /\ pc'[q] \in {"load", "save"} => result'[q] # None
    BY <1>1, EndedLemma
  <2> QED BY <1>1, <2>1, <2>2 DEF RoutingInv, RoutingTypeOK
<1>4. UnmixedRowIsCrossing' /\ ReadyNeedsBoth'
  BY <1>1 DEF RoutingInv, UnmixedRowIsCrossing, IsCrossing, ReadyNeedsBoth
<1>5. QuietInv'
  <2>1. \A q \in Routers : quiet'[q] => q # r /\ quiet[q]
    BY <1>1 DEF RoutingInv, RoutingTypeOK
  <2>2. \A q \in Routers \ {r} : pc'[q] = pc[q] /\ trl'[q] = trl[q]
                /\ result'[q] = result[q] /\ loaded'[q] = loaded[q]
    BY <1>1, EndedLemma
  <2> QED BY <1>1, <2>1, <2>2, TablesLemma DEF RoutingInv, QuietInv
<1>6. QuietRoutingIsCurrent'
  BY <1>1, TablesLemma DEF RoutingInv, QuietRoutingIsCurrent
<1> QED BY <1>2, <1>3, <1>4, <1>5, <1>6 DEF RoutingInv

---------------------------------------------------------------------------
\* RoutingInv is inductive.
THEOREM RoutingInvariant == Spec => []RoutingInv
<1> USE RoutingAssumption
<1>1. Init => RoutingInv
  <2> SUFFICES ASSUME Init PROVE RoutingInv
    OBVIOUS
  <2>1. RoutingTypeOK
    <3>1. exists \in BOOLEAN /\ current \in BOOLEAN /\ mixed \in BOOLEAN
          /\ quiet \in [Routers -> BOOLEAN]
      BY DEF Init
    <3> QED BY <3>1 DEF Init, RoutingTypeOK
  <2>2. ReadInv /\ WholeInv /\ QuietInv
    BY DEF Init, ReadInv, WholeInv, QuietInv
  <2>3. ReadyNeedsBoth /\ UnmixedRowIsCrossing /\ QuietRoutingIsCurrent
    BY DEF Init, ReadyNeedsBoth, UnmixedRowIsCrossing, QuietRoutingIsCurrent
  <2> QED BY <2>1, <2>2, <2>3 DEF RoutingInv
<1>2. RoutingInv /\ [Next]_vars => RoutingInv'
  <2> SUFFICES ASSUME RoutingInv, [Next]_vars
               PROVE  RoutingInv'
    OBVIOUS
  <2>1. ASSUME NEW c \in Companies, NEW t \in Track, NEW o \in Outcome, NEW at \in Times,
               RecordNeedValidation(c, t, o, at)
        PROVE  RoutingInv'
    <3>1. /\ Recorded /\ checks' = checks
          /\ needs' = needs \cup {[company |-> c, track |-> t, outcome |-> o, at |-> at]}
      BY <2>1 DEF RecordNeedValidation
    <3>2. needs \subseteq NeedValidation /\ checks \subseteq InventorTrlCheck
      BY DEF RoutingInv, RoutingTypeOK
    <3>3. needs' \subseteq NeedValidation
      BY <3>1, <3>2 DEF NeedValidation
    <3> QED BY <3>1, <3>2, <3>3, RecordedStep
  <2>2. ASSUME NEW b \in Bands, NEW at \in Times, RecordTrlCheck(b, at)
        PROVE  RoutingInv'
    <3>1. /\ Recorded /\ needs' = needs
          /\ checks' = checks \cup {[band |-> b, at |-> at]}
      BY <2>2 DEF RecordTrlCheck
    <3>2. needs \subseteq NeedValidation /\ checks \subseteq InventorTrlCheck
      BY DEF RoutingInv, RoutingTypeOK
    <3>3. checks' \subseteq InventorTrlCheck
      BY <3>1, <3>2 DEF InventorTrlCheck
    <3> QED BY <3>1, <3>2, <3>3, RecordedStep
  <2>3. CASE DeleteAsset
    BY <2>3, DeleteStep
  <2>4. ASSUME NEW r \in Routers, RouteAsset(r)
        PROVE  RoutingInv'
    BY <2>4, ReadTrlCheckStep, ReadHasNeedStep, ReadConfirmedTracksStep, LoadRowStep, SaveStep,
       AbandonStep DEF RouteAsset
  <2>5. CASE UNCHANGED vars
    <3>1. UNCHANGED <<exists, needs, checks, row, pc, trl, result, loaded, calls, quiet, current,
                      mixed>>
      BY <2>5 DEF vars
    <3>2. RoutingTypeOK' /\ ReadyNeedsBoth'
      BY <3>1 DEF RoutingInv, RoutingTypeOK, ReadyNeedsBoth
    <3>3. ReadInv' /\ QuietInv' /\ QuietRoutingIsCurrent'
      BY <3>1, TablesLemma DEF RoutingInv, ReadInv, QuietInv, QuietRoutingIsCurrent
    <3>4. WholeInv' /\ UnmixedRowIsCrossing'
      BY <3>1 DEF RoutingInv, WholeInv, UnmixedRowIsCrossing, IsCrossing
    <3> QED BY <3>2, <3>3, <3>4 DEF RoutingInv
  <2> QED BY <2>1, <2>2, <2>3, <2>4, <2>5 DEF Next
<1> QED BY <1>1, <1>2, PTL DEF Spec

\* Type correctness of the routing.
THEOREM RoutingTypes == Spec => []RoutingTypeOK
<1>1. RoutingInv => RoutingTypeOK
  BY DEF RoutingInv
<1> QED BY <1>1, RoutingInvariant, PTL

\* No row is ready before both humans have answered.
THEOREM RoutingReadyNeedsBoth == Spec => []ReadyNeedsBoth
<1>1. RoutingInv => ReadyNeedsBoth
  BY DEF RoutingInv
<1> QED BY <1>1, RoutingInvariant, PTL

\* Each axis of the row was reported, however routers overlap.
THEOREM RoutingAxesWereReported == Spec => []AxesWereReported
<1>1. RoutingInv => AxesWereReported
  BY DEF RoutingInv, ReadInv, AxesWereReported
<1> QED BY <1>1, RoutingInvariant, PTL

\* A row saved over the row that was loaded is one crossing.
THEOREM RoutingUnmixedRowIsCrossing == Spec => []UnmixedRowIsCrossing
<1>1. RoutingInv => UnmixedRowIsCrossing
  BY DEF RoutingInv
<1> QED BY <1>1, RoutingInvariant, PTL

\* An undisturbed routing says what the records say.
THEOREM RoutingQuietIsCurrent == Spec => []QuietRoutingIsCurrent
<1>1. RoutingInv => QuietRoutingIsCurrent
  BY DEF RoutingInv
<1> QED BY <1>1, RoutingInvariant, PTL

===========================================================================
