------------------------------ MODULE Dormancy ------------------------------
(***************************************************************************)
(* assess_asset (src/forge/dormancy.py): is an asset dormant as of a day?  *)
(* Every condition of its type's ruleset passes, fails or is unknown; the  *)
(* asset is a candidate when all pass.  Constant-level operators over the  *)
(* fields of an asset that the rules read.                                 *)
(*                                                                         *)
(* A date is a day number, Unset, or Garbled (an entry of key_dates that   *)
(* date.fromisoformat refuses).                                            *)
(***************************************************************************)
EXTENDS Integers, Sequences

CONSTANTS
    Unset, Garbled,
    PatentAgeDateKeys, ProjectEndDateKeys,   \* the keys consulted, in order
    \* config/dormancy.yaml: patents
    MinAgeYears, MaxAgeYears, FeeStatusIn, RequireNoActiveLicence,
    \* config/dormancy.yaml: project_results
    MinYearsSinceEnd, MaxYearsSinceEnd, RequireNoExploitationEvent, RequireOrgOwnership,
    OrgConfigured                               \* an organisation config was given

ASSUME DormancyAssumption ==
    /\ DOMAIN PatentAgeDateKeys \subseteq Nat /\ DOMAIN ProjectEndDateKeys \subseteq Nat
    /\ Unset \notin Int /\ Garbled \notin Int /\ Unset # Garbled
    /\ {MinAgeYears, MaxAgeYears, MinYearsSinceEnd, MaxYearsSinceEnd} \subseteq Nat
    /\ {RequireNoActiveLicence, RequireNoExploitationEvent, RequireOrgOwnership,
        OrgConfigured} \subseteq BOOLEAN

---------------------------------------------------------------------------
\* The keys that date an asset of this type; dates has an entry for each, or Unset.
KeysOf(type) == IF type = "patent" THEN PatentAgeDateKeys ELSE ProjectEndDateKeys

Parsed(date) == date \notin {Unset, Garbled}

\* Mutant of FirstDate: the first key that has an entry decides.
FirstEntry(dates, keys) ==
    LET entries == {i \in DOMAIN keys : dates[keys[i]] # Unset}
        first   == CHOOSE i \in entries : \A j \in entries : i <= j
    IN  IF entries # {} /\ Parsed(dates[keys[first]]) THEN dates[keys[first]] ELSE Unset

\* _first_date: the first of keys whose entry is a date.
FirstDate(dates, keys) ==
    LET usable == {i \in DOMAIN keys : Parsed(dates[keys[i]])}
    IN  IF usable = {} THEN Unset
        ELSE dates[keys[CHOOSE i \in usable : \A j \in usable : i <= j]]

PassIf(b) == IF b THEN "pass" ELSE "fail"

\* _range_condition over _years_between: a year has 365.25 days.
YearsInRange(date, asOf, lo, hi) ==
    IF date = Unset THEN "unknown"
    ELSE PassIf(1461 * lo <= 4 * (asOf - date) /\ 4 * (asOf - date) <= 1461 * hi)

\* No recorded encumbrance is no active one.
Encumbrance == {Unset, "clear", "active"}
ActiveEncumbrance(asset) == asset.encumbrances = "active"

Conditions(asset, asOf) ==
    IF asset.type = "patent"
    THEN {YearsInRange(FirstDate(asset.dates, KeysOf(asset.type)), asOf, MinAgeYears, MaxAgeYears),
          IF asset.fee = Unset THEN "unknown" ELSE PassIf(asset.fee \in FeeStatusIn)}
         \cup (IF RequireNoActiveLicence THEN {PassIf(~ ActiveEncumbrance(asset))} ELSE {})
    ELSE {YearsInRange(FirstDate(asset.dates, KeysOf(asset.type)), asOf,
                       MinYearsSinceEnd, MaxYearsSinceEnd)}
         \cup (IF RequireNoExploitationEvent
                 THEN {PassIf(~ asset.exploited /\ ~ ActiveEncumbrance(asset))} ELSE {})
         \cup (IF RequireOrgOwnership
                 THEN {IF OrgConfigured THEN PassIf(asset.owned) ELSE "unknown"} ELSE {})

Determinate(asset, asOf) == "unknown" \notin Conditions(asset, asOf)
Candidate(asset, asOf)   == Conditions(asset, asOf) = {"pass"}

==========================================================================
