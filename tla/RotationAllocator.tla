------------------------- MODULE RotationAllocator -------------------------
(***************************************************************************)
(* rotation.py: how many of the remaining seconds each player of one team  *)
(* gets in a simulated path.  Every player's share is proportional to a    *)
(* weight, nobody gets more than the horizon, and what a full player       *)
(* cannot take is shared out again among the others, round by round.  The  *)
(* shares are then rounded to whole seconds by largest remainders.         *)
(*                                                                         *)
(* The floats of the code are exact fractions here: `values` counts parts  *)
(* of a second, `unit` parts to the second.  Where a share is a whole      *)
(* number the float may lie just below it; the rounding leaves that open.  *)
(* No caller sets minimum_remaining_seconds, so all floors are zero.       *)
(***************************************************************************)
EXTENDS Integers, FiniteSets, Functions

CONSTANTS
    LineupSize,    \* players of a team on court: 5 in the code
    Weight         \* the weights a player can have, as small naturals

ASSUME SomeLineup == LineupSize \in Nat \ {0}
ASSUME PositiveWeights == Weight \subseteq Nat \ {0}

VARIABLES
    horizon,    \* seconds left to play: the cap of every player
    weight,     \* weight of each eligible player, by his place in the roster
    values,     \* his share so far, in parts of a second
    unit,       \* parts to the second
    active,     \* the players who can still take more
    seconds,    \* the rounded shares
    stage       \* where _sample_team is

allocation == <<horizon, weight, values, unit, active, seconds, stage>>

Roster == DOMAIN weight
Required == LineupSize * horizon
Total(f) == SumFunctionOnSet(f, DOMAIN f)

AllocationTypeOK ==
    /\ horizon \in Nat
    /\ weight \in [Roster -> Weight]
    /\ values \in [Roster -> Nat]
    /\ unit \in Nat \ {0}
    /\ active \subseteq Roster
    /\ seconds \in [Roster -> Nat]
    /\ stage \in {"idle", "sharing", "done", "refused", "stuck"}

-----------------------------------------------------------------------------
\* _sample_team up to its checks.  An empty horizon needs no players.
Sample(h, w) ==
    /\ horizon' = h
    /\ weight' = w
    /\ values' = [i \in DOMAIN w |-> 0]
    /\ seconds' = [i \in DOMAIN w |-> 0]
    /\ unit' = 1
    /\ active' = DOMAIN w
    /\ stage' = IF h = 0 THEN "done"
                ELSE IF Cardinality(DOMAIN w) < LineupSize THEN "refused"
                ELSE "sharing"

Left == Required * unit - Total(values)
ActiveWeight == SumFunctionOnSet(weight, active)

\* What player i takes in a round, in the finer parts of the next round.
Addition(i) ==
    IF i \notin active THEN 0
    ELSE LET share == Left * weight[i]
             available == (horizon * unit - values[i]) * ActiveWeight
         IN  IF share < available THEN share ELSE available

\* One pass of the loop in _capped_proportional_allocation.
Share ==
    /\ stage = "sharing"
    /\ Left > 0
    /\ active # {}
    /\ values' = [i \in Roster |-> values[i] * ActiveWeight + Addition(i)]
    /\ unit' = unit * ActiveWeight
    /\ active' = {i \in active : values'[i] < horizon * unit'}
    /\ UNCHANGED <<horizon, weight, seconds, stage>>

-----------------------------------------------------------------------------
\* The rounded shares when the floats of the players in `low` lie just below
\* the whole number they stand for.
Floor(low) == [i \in Roster |-> values[i] \div unit - IF i \in low THEN 1 ELSE 0]
Rest(low) == [i \in Roster |-> IF i \in low THEN unit ELSE values[i] % unit]

\* MUTANT of Precedes: the smallest remainders first.
SmallestPrecedes(rest, i, j) == rest[i] < rest[j] \/ (rest[i] = rest[j] /\ i < j)

\* The sort is stable: equal remainders keep the order of the roster.
Precedes(rest, i, j) == rest[i] > rest[j] \/ (rest[i] = rest[j] /\ i < j)

\* The players who get one of the missing seconds: the first so many of those
\* below their cap.
ToppedUp(floor, rest, missing) ==
    LET open == {i \in Roster : floor[i] < horizon}
    IN  {i \in open : Cardinality({j \in open : Precedes(rest, j, i)}) < missing}

\* _largest_remainder, and the checks that follow it.
Round ==
    /\ stage = "sharing"
    /\ Left = 0 \/ active = {}
    /\ \E low \in SUBSET {i \in Roster : values[i] > 0 /\ values[i] % unit = 0} :
           LET floor == Floor(low)
               missing == Required - Total(floor)
               up == ToppedUp(floor, Rest(low), missing)
           IN  /\ seconds' = [i \in Roster |-> floor[i] + IF i \in up THEN 1 ELSE 0]
               /\ stage' = IF Left = 0 /\ Cardinality(up) = missing
                           THEN "done" ELSE "stuck"
    /\ UNCHANGED <<horizon, weight, values, unit, active>>

-----------------------------------------------------------------------------
\* What a finished allocation owes the simulator: the team is on court with a
\* full lineup for every second, nobody plays longer than the game, every
\* player is within a second of his share, and of two players the one with the
\* larger weight plays no less, whatever rounding did to them
\* (rotation.py:283-344).
AllocationSound ==
    stage = "done" =>
        /\ Total(seconds) = Required
        /\ \A i \in Roster :
               /\ seconds[i] \in 0 .. horizon
               /\ seconds[i] * unit - values[i] \in -unit + 1 .. unit - 1
        /\ \A i, j \in Roster : weight[i] > weight[j] => seconds[i] >= seconds[j]
=============================================================================
