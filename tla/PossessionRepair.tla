-------------------------- MODULE PossessionRepair --------------------------
(***************************************************************************)
(* scripts/repair_possession_walkforward_v2.py: the replayed rows of the   *)
(* last season are judged again, by the possession simulator's probability *)
(* and under markets that showed a signal in the second half of the season *)
(* before; of each wager family of a game one row is selected.             *)
(***************************************************************************)
EXTENDS HistoricalReplay

CONSTANT
    MaxGood    \* BOUND: rows of the last game whose price is good enough

VARIABLES
    repair,    \* idle, judging, selected, or exited without a result
    good,      \* rows that are fresh, have enough books and a conservative ROI
    chosen     \* the selected rows

repairing == <<repair, good, chosen>>
all == <<replay, repairing>>

Market == {"totals", "h2h", "spreads", "player_points"}

SeasonsOf(games) == {season[g] : g \in games}

\* The later half of the validation season; of one game there is none.
CalibrationGames ==
    LET next == Max(SeasonsOf(raw) \ {Max(SeasonsOf(raw))})
        games == {g \in raw : season[g] = next}
    IN  {g \in games : Cardinality({h \in games : h <= g}) > Cut(Cardinality(games))}

\* main() up to the eligible markets: it needs the candidate of a finished
\* walk-forward run and three seasons of rows.
Repair ==
    /\ stage = "split"
    /\ repair = "idle"
    /\ repair' \in IF Cardinality(SeasonsOf(raw)) < 3 \/ CalibrationGames = {}
                  THEN {"exited"} ELSE {"exited", "judging"}
    /\ UNCHANGED <<replay, good, chosen>>

\* is_settled and is_actionable.  A pushed row has no binary outcome.
Settled(r) == r.result # 0 /\ r.possession
Actionable(r) == Settled(r) /\ r.available /\ ~ r.proxy

\* wager_family_key
Family(r) == <<r.offer.market, r.offer.player>>

\* The rows of the earliest checkpoint at which the family of r is eligible.
Earliest(eligible, r) ==
    {s \in eligible : Family(s) = Family(r) /\ \A t \in eligible : Family(t) = Family(r) => s.cp <= t.cp}

\* compute_roi_and_select: the best price of the earliest checkpoint, one for
\* each family.  Which price is best is free.
Select(eligible) ==
    {pick \in SUBSET eligible :
        /\ \A r \in pick : r \in Earliest(eligible, r)
        /\ \A r \in eligible : Cardinality({s \in pick : Family(s) = Family(r)}) = 1}

\* The rows of the last game; the instances have no other in the last season.
Judge ==
    /\ repair = "judging"
    /\ good' \in UNION {kSubset(n, {r \in rows : r.possession}) : n \in 0 .. MaxGood}
    /\ \E markets \in SUBSET Market \ {{}} :
           chosen' \in Select({r \in good' : Actionable(r) /\ r.offer.market \in markets})
    /\ repair' = "selected"
    /\ UNCHANGED replay

RepairInit == ReplayInit /\ repair = "idle" /\ good = {} /\ chosen = {}

RepairNext == (ReplayNext /\ UNCHANGED repairing) \/ Repair \/ Judge

RepairSpec == RepairInit /\ [][RepairNext]_all
-----------------------------------------------------------------------------
(***************************************************************************)
(* Property.                                                               *)
(***************************************************************************)

\* The selected row of a family is one of its first qualifying checkpoint: no
\* earlier row of the family that could be bet on then, at a good price, was
\* passed over (README_POSSESSION_REPAIR_V2.md:12).  The code violates this:
\* what qualifies depends on how the bet ended.
NoHindsight ==
    \A r \in chosen, s \in good :
        Family(s) = Family(r) /\ s.available /\ ~ s.proxy => r.cp <= s.cp
=============================================================================
