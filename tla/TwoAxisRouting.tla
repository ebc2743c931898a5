---------------------------- MODULE TwoAxisRouting ----------------------------
(***************************************************************************)
(* Two-axis routing of one asset (src/forge/routing.py): the suggestion is *)
(* the crossing of two human validations (validation/repository.py), which *)
(* are append-only, and is recomputed by whoever runs `forge route`.       *)
(*                                                                         *)
(* PostgreSQL runs at READ COMMITTED: each SELECT sees what is committed   *)
(* when it starts, so the routers' queries interleave with the commits of  *)
(* recorders, of other routers and of a deletion.                          *)
(***************************************************************************)
EXTENDS Naturals

CONSTANTS
    Routers,      \* processes that route the asset
    Companies,
    Bands,        \* TrlConfig.bands
    HighBands,    \* TrlConfig.high_bands
    Times,        \* what the clocks of the recording processes may show
    MaxCalls,     \* bound: the number of commands run
    None          \* no record, no axis, no route, no row

ASSUME RoutingAssumption ==
    /\ HighBands \subseteq Bands
    /\ Times \subseteq Nat
    /\ MaxCalls \in Nat
    /\ None \notin {"high", "low", "customer", "producer", "none"}
    /\ None \notin {"venture", "maturation", "licensing", "option", "park"}
    /\ None \notin [status : {"pending", "ready"},
                    need   : {"customer", "producer", "none", None},
                    trl    : {"high", "low", None},
                    route  : {"venture", "maturation", "licensing", "option", "park", None}]

VARIABLES
    exists,    \* the asset is in the store
    needs,     \* need_validation
    checks,    \* inventor_trl_check
    row,       \* asset_routing: the asset's row, None if there is none
    pc,        \* per router: "idle", or the query that comes next
    trl,       \* per router: the axis of the check it has read
    result,    \* per router: the RoutingResult it has computed
    loaded,    \* per router: the row as it was loaded
    calls,     \* number of commands run so far
    quiet,     \* history, per router: nothing else committed since it began
    current,   \* history: nothing recorded since the row was quietly computed
    mixed      \* history: the last save was over a row other than the loaded one

records == <<needs, checks>>
router  == <<pc, trl, result, loaded>>
vars    == <<exists, needs, checks, row, pc, trl, result, loaded, calls, quiet, current, mixed>>

Track   == {"customer", "producer"}
Outcome == {"need_confirmed", "need_denied", "no_response"}
Need    == {"customer", "producer", "none"}
Trl     == {"high", "low"}
Routes  == {"venture", "maturation", "licensing", "option", "park"}

NeedValidation   == [company : Companies, track : Track, outcome : Outcome, at : Times]
InventorTrlCheck == [band : Bands, at : Times]
AssetRouting     == [status : {"pending", "ready"}, need : Need \cup {None},
                     trl : Trl \cup {None}, route : Routes \cup {None}]

RoutingTypeOK ==
    /\ exists \in BOOLEAN
    /\ needs \subseteq NeedValidation
    /\ checks \subseteq InventorTrlCheck
    /\ row \in AssetRouting \cup {None}
    /\ pc \in [Routers -> {"idle", "need", "tracks", "load", "save"}]
    /\ trl \in [Routers -> Trl \cup {None}]
    /\ result \in [Routers -> AssetRouting \cup {None}]
    /\ loaded \in [Routers -> AssetRouting \cup {None}]
    /\ \A r \in Routers :
         /\ pc[r] = "tracks" => trl[r] # None
         /\ pc[r] \in {"load", "save"} => result[r] # None
    /\ calls \in 0 .. MaxCalls
    /\ quiet \in [Routers -> BOOLEAN]
    /\ current \in BOOLEAN
    /\ mixed \in BOOLEAN

Init ==
    /\ exists = TRUE
    /\ needs = {}
    /\ checks = {}
    /\ row = None
    /\ pc = [r \in Routers |-> "idle"]
    /\ trl = [r \in Routers |-> None]
    /\ result = [r \in Routers |-> None]
    /\ loaded = [r \in Routers |-> None]
    /\ calls = 0
    /\ quiet = [r \in Routers |-> FALSE]
    /\ current = FALSE
    /\ mixed = FALSE

---------------------------------------------------------------------------
(***************************************************************************)
(* The crossing.                                                           *)
(***************************************************************************)
ResolveNeedAxis(confirmed) ==
    CASE "customer" \in confirmed -> "customer"
      [] "customer" \notin confirmed /\ "producer" \in confirmed -> "producer"
      [] OTHER -> "none"

Route(need, axis) ==
    CASE need = "customer" -> IF axis = "high" THEN "venture" ELSE "maturation"
      [] need = "producer" -> IF axis = "high" THEN "licensing" ELSE "option"
      [] OTHER -> "park"

Pending == [status |-> "pending", need |-> None, trl |-> None, route |-> None]

Crossing(need, axis) ==
    [status |-> "ready", need |-> need, trl |-> axis, route |-> Route(need, axis)]

---------------------------------------------------------------------------
(***************************************************************************)
(* What humans report: the commands validate-need and trl.  A record gets  *)
(* its time from the clock of the process that records it.                 *)
(***************************************************************************)
Called ==
    /\ exists
    /\ calls < MaxCalls
    /\ calls' = calls + 1

\* A new record makes the stored row out of date and disturbs the routers.
Recorded ==
    /\ Called
    /\ quiet' = [r \in Routers |-> FALSE]
    /\ current' = FALSE
    /\ UNCHANGED <<exists, row, router, mixed>>

RecordNeedValidation(company, track, outcome, at) ==
    /\ Recorded
    /\ needs' = needs \cup {[company |-> company, track |-> track, outcome |-> outcome, at |-> at]}
    /\ UNCHANGED checks

RecordTrlCheck(band, at) ==
    /\ Recorded
    /\ checks' = checks \cup {[band |-> band, at |-> at]}
    /\ UNCHANGED needs

\* Deleting the asset takes its records and its row with it.
DeleteAsset ==
    /\ Called
    /\ exists' = FALSE
    /\ needs' = {}
    /\ checks' = {}
    /\ row' = None
    /\ quiet' = [r \in Routers |-> FALSE]
    /\ current' = FALSE
    /\ UNCHANGED <<router, mixed>>

---------------------------------------------------------------------------
(***************************************************************************)
(* compute_routing, one action per query.                                  *)
(***************************************************************************)
\* The database may return any of the records whose time is the latest.
Latest(recs) == {v \in recs : \A w \in recs : w.at <= v.at}

Axis(check) == IF check.band \in HighBands THEN "high" ELSE "low"

TrlReadings == IF checks = {} THEN {None} ELSE {Axis(c) : c \in Latest(checks)}

OfKey(company, track) == {v \in needs : v.company = company /\ v.track = track}

\* Mutant of Confirms: anything but a denial confirms the need.
ConfirmsUnlessDenied(v) == v.outcome # "need_denied"

Confirms(v) == v.outcome = "need_confirmed"

\* The (company, track) pairs whose latest record is a confirmation, as
\* confirmed_tracks may find them.
ConfirmedKeys ==
    {K \in SUBSET (Companies \X Track) :
       \A c \in Companies, t \in Track :
         IF <<c, t>> \in K THEN \E v \in Latest(OfKey(c, t)) : Confirms(v)
         ELSE OfKey(c, t) = {} \/ \E v \in Latest(OfKey(c, t)) : ~ Confirms(v)}

TracksOf(K) == {t \in Track : \E c \in Companies : <<c, t>> \in K}

\* get_asset, then latest_trl_check.
ReadTrlCheck(r) ==
    /\ pc[r] = "idle"
    /\ Called
    /\ \E axis \in TrlReadings : trl' = [trl EXCEPT ![r] = axis]
    /\ pc' = [pc EXCEPT ![r] = "need"]
    /\ quiet' = [quiet EXCEPT ![r] = TRUE]
    /\ UNCHANGED <<exists, records, row, result, loaded, current, mixed>>

Computed(r, res) ==
    /\ result' = [result EXCEPT ![r] = res]
    /\ pc' = [pc EXCEPT ![r] = "load"]

\* Mutant of ReadHasNeed: pending only while the inventor has not answered.
ReadHasNeedUnasked(r) ==
    /\ pc[r] = "need"
    /\ \/ trl[r] = None /\ Computed(r, Pending)
       \/ /\ trl[r] # None
          /\ pc' = [pc EXCEPT ![r] = "tracks"]
          /\ UNCHANGED result
    /\ UNCHANGED <<exists, records, row, trl, loaded, calls, quiet, current, mixed>>

\* has_any_need_validation, and the gate: pending until both records exist.
ReadHasNeed(r) ==
    /\ pc[r] = "need"
    /\ \/ (trl[r] = None \/ needs = {}) /\ Computed(r, Pending)
       \/ /\ trl[r] # None
          /\ needs # {}
          /\ pc' = [pc EXCEPT ![r] = "tracks"]
          /\ UNCHANGED result
    /\ UNCHANGED <<exists, records, row, trl, loaded, calls, quiet, current, mixed>>

\* Mutant of ReadConfirmedTracks: one confirmation is for ever.
ReadTracksEverConfirmed(r) ==
    /\ pc[r] = "tracks"
    /\ Computed(r, Crossing(ResolveNeedAxis({v.track : v \in {w \in needs : Confirms(w)}}), trl[r]))
    /\ UNCHANGED <<exists, records, row, trl, loaded, calls, quiet, current, mixed>>

\* confirmed_tracks, and the crossing.
ReadConfirmedTracks(r) ==
    /\ pc[r] = "tracks"
    /\ \E K \in ConfirmedKeys :
         Computed(r, Crossing(ResolveNeedAxis(TracksOf(K)), trl[r]))
    /\ UNCHANGED <<exists, records, row, trl, loaded, calls, quiet, current, mixed>>

---------------------------------------------------------------------------
(***************************************************************************)
(* save_routing.                                                           *)
(***************************************************************************)
LoadRow(r) ==
    /\ pc[r] = "load"
    /\ loaded' = [loaded EXCEPT ![r] = row]
    /\ pc' = [pc EXCEPT ![r] = "save"]
    /\ UNCHANGED <<exists, records, row, trl, result, calls, quiet, current, mixed>>

\* Mutant of Updated: the need axis is not assigned.
UpdatedWithoutNeed(r) ==
    [c \in {"status", "need", "trl", "route"} |->
       IF c # "need" /\ result[r][c] # loaded[r][c] THEN result[r][c] ELSE row[c]]

\* The UPDATE writes the columns that differ from the loaded row, no others.
Updated(r) ==
    [c \in {"status", "need", "trl", "route"} |->
       IF result[r][c] # loaded[r][c] THEN result[r][c] ELSE row[c]]

\* The command ends, and with it what the process has read.
Ended(r) ==
    /\ pc' = [pc EXCEPT ![r] = "idle"]
    /\ trl' = [trl EXCEPT ![r] = None]
    /\ result' = [result EXCEPT ![r] = None]
    /\ loaded' = [loaded EXCEPT ![r] = None]

\* The INSERT meets the unique key and the foreign key, the UPDATE a row that may
\* have changed since it was loaded.
Save(r) ==
    /\ pc[r] = "save"
    /\ \/ loaded[r] = None /\ row = None /\ exists /\ row' = result[r]
       \/ loaded[r] # None /\ row # None /\ row' = Updated(r)
    /\ Ended(r)
    /\ quiet' = [q \in Routers |-> FALSE]
    /\ current' = quiet[r]
    /\ mixed' = (loaded[r] # row)
    /\ UNCHANGED <<exists, records, calls>>

\* A constraint refuses the save, the row is gone, the database cannot be
\* reached or the process dies: what was not committed is lost.
Abandon(r) ==
    /\ pc[r] # "idle"
    /\ Ended(r)
    /\ quiet' = [quiet EXCEPT ![r] = FALSE]
    /\ UNCHANGED <<exists, records, row, calls, current, mixed>>

---------------------------------------------------------------------------
RouteAsset(r) ==
    \/ ReadTrlCheck(r)
    \/ ReadHasNeed(r)
    \/ ReadConfirmedTracks(r)
    \/ LoadRow(r)
    \/ Save(r)
    \/ Abandon(r)

Next ==
    \/ \E c \in Companies, t \in Track, o \in Outcome, at \in Times :
         RecordNeedValidation(c, t, o, at)
    \/ \E b \in Bands, at \in Times : RecordTrlCheck(b, at)
    \/ DeleteAsset
    \/ \E r \in Routers : RouteAsset(r)

Spec == Init /\ [][Next]_vars

---------------------------------------------------------------------------
(***************************************************************************)
(* Properties.                                                             *)
(***************************************************************************)
\* "It stays PENDING until BOTH records exist": however routers overlap, no row
\* is ready before a company and the inventor have answered.
ReadyNeedsBoth == row # None /\ row.status = "ready" => needs # {} /\ checks # {}

\* Each axis of x was reported by somebody.
Reported(x) ==
    /\ x.need \in Track => \E v \in needs : v.track = x.need /\ v.outcome = "need_confirmed"
    /\ x.trl = "high" => \E c \in checks : c.band \in HighBands
    /\ x.trl = "low"  => \E c \in checks : c.band \notin HighBands

\* The row "is the crossing of two human validations": each axis, also of a row
\* that two routers wrote together, is somebody's report. A need that was only
\* hypothesised, or met with silence, is no need axis.
AxesWereReported == row # None => Reported(row)

\* x is one routing as a whole: pending and bare, or a route with the two axes it
\* follows from.
IsCrossing(x) == x = Pending \/ \E n \in Need, a \in Trl : x = Crossing(n, a)

\* The row is one routing unless its last save was over another router's row; the
\* next save over the row it loaded repairs it.
UnmixedRowIsCrossing == row # None /\ ~ mixed => IsCrossing(row)

\* A company's latest word on a track is a confirmation, or may count as one.
SaysYes(c, t)   == OfKey(c, t) # {} /\ \A v \in Latest(OfKey(c, t)) : v.outcome = "need_confirmed"
MaySayYes(c, t) == \E v \in Latest(OfKey(c, t)) : v.outcome = "need_confirmed"

\* x says what the records say. Those with the same time may be taken either way.
Current(x) ==
    IF needs = {} \/ checks = {} THEN x = Pending
    ELSE /\ x.status = "ready"
         /\ x.need \in Track => \E c \in Companies : MaySayYes(c, x.need)
         /\ x.need # "customer" => \A c \in Companies : ~ SaysYes(c, "customer")
         /\ x.need = "none" => \A c \in Companies : ~ SaysYes(c, "producer")
         /\ \E c \in Latest(checks) : x.trl = Axis(c)

\* A routing that nothing disturbed says what the records say until one is
\* added: the latest record per company and track is authoritative, "a later
\* denial overrides an earlier confirmation" (confirmed_tracks), the customer
\* comes first, and any company counts.
QuietRoutingIsCurrent == current /\ row # None => Current(row)

===========================================================================
