--------------------------- MODULE CalibrationFit ---------------------------
(***************************************************************************)
(* The calibration of one slice of the resolver (resolver/calibrate.py).   *)
(* Observations of probes, each a raw confidence and whether the choice    *)
(* was right, fall into bins; thin bins are merged with a neighbour until  *)
(* each group is large enough; a group is given its share of right choices *)
(* made monotone; and the threshold is the lowest value above that of each *)
(* wrong choice, or the slice is shut down.  Shares are kept as fractions, *)
(* which six decimals tell apart at these numbers.                         *)
(***************************************************************************)
EXTENDS Naturals, Sequences, FiniteSets

CONSTANTS
    BinCount,       \* number of bins of the confidence range
    MinPerGroup,    \* observations a group needs
    MaxRows         \* bound: observations

ASSUME FitAssumption == BinCount \in Nat \ {0} /\ MinPerGroup \in Nat \ {0}

VARIABLES
    rows,       \* [1..BinCount -> [right, wrong]]: observations per bin
    groups,     \* sequence of [first, last]: bins from first to last
    fitting,    \* "collect", "merge" or "done"
    threshold   \* the fitted tau: a fraction, or Shutdown

fitVars == <<rows, groups, fitting, threshold>>

Shutdown == [num |-> 0, den |-> 0]

FitInit ==
    /\ rows = [b \in 1..BinCount |-> [right |-> 0, wrong |-> 0]]
    /\ groups = [b \in 1..BinCount |-> [first |-> b, last |-> b]]
    /\ fitting = "collect"
    /\ threshold = Shutdown

\* The observations of a kind in some bins, numbered within each
Observed(kind, bins) == UNION {{b} \X (1..rows[b][kind]) : b \in bins}
Amount(kind, bins) == Cardinality(Observed(kind, bins))
BinsOf(g) == g.first..g.last
Size(g) == Amount("right", BinsOf(g)) + Amount("wrong", BinsOf(g))
RowCount == Size([first |-> 1, last |-> BinCount])

\* The share of right choices of a group, and comparisons of such fractions.
Share(g) == [num |-> Amount("right", BinsOf(g)), den |-> Size(g)]
Below(x, y) == x.num * y.den < y.num * x.den
AtMost(x, y) == x.num * y.den <= y.num * x.den

-----------------------------------------------------------------------------
Observe(b, how) ==
    /\ fitting = "collect" /\ RowCount < MaxRows
    /\ rows' = [rows EXCEPT ![b][how] = @ + 1]
    /\ UNCHANGED <<groups, fitting, threshold>>

\* No rows, no slice.
CloseRows ==
    /\ fitting = "collect" /\ RowCount > 0
    /\ fitting' = "merge"
    /\ UNCHANGED <<rows, groups, threshold>>

Thin(i) == Size(groups[i]) < MinPerGroup

\* The first thin group joins its right neighbour, the last one its left.
MergeFirstThin ==
    LET i == CHOOSE j \in DOMAIN groups : Thin(j) /\ \A k \in 1..j - 1 : ~Thin(k)
        left == IF i < Len(groups) THEN i ELSE i - 1
        joined == [first |-> groups[left].first, last |-> groups[left + 1].last]
    IN  /\ fitting = "merge"
        /\ Len(groups) > 1 /\ \E j \in DOMAIN groups : Thin(j)
        /\ groups' = SubSeq(groups, 1, left - 1) \o <<joined>>
                      \o SubSeq(groups, left + 2, Len(groups))
        /\ UNCHANGED <<rows, fitting, threshold>>

\* The running maximum of the shares.
ValueOf(i) == CHOOSE v \in {Share(groups[j]) : j \in 1..i} :
                  \A j \in 1..i : AtMost(Share(groups[j]), v)
Values == {ValueOf(i) : i \in DOMAIN groups}
WrongValues == {ValueOf(i) : i \in {j \in DOMAIN groups : Amount("wrong", BinsOf(groups[j])) > 0}}
\* Mutant: a threshold may equal the value of a wrong choice.
RungsOfWrong == {v \in Values : \A w \in WrongValues : AtMost(w, v)}

Rungs == {v \in Values : \A w \in WrongValues : Below(w, v)}

FitThreshold ==
    /\ fitting = "merge"
    /\ Len(groups) = 1 \/ \A j \in DOMAIN groups : ~Thin(j)
    /\ threshold' = IF Rungs = {} THEN Shutdown
                    ELSE CHOOSE v \in Rungs : \A w \in Rungs : AtMost(v, w)
    /\ fitting' = "done"
    /\ UNCHANGED <<rows, groups>>

FitNext ==
    \/ \E b \in 1..BinCount, how \in {"right", "wrong"} : Observe(b, how)
    \/ CloseRows \/ MergeFirstThin \/ FitThreshold

FitSpec == FitInit /\ [][FitNext]_fitVars

-----------------------------------------------------------------------------
(* What the fit promises.                                                  *)

\* ResolverEngine._calibrate: the value of the bin a confidence falls into.
Calibrated(b) == ValueOf(CHOOSE i \in DOMAIN groups : b \in BinsOf(groups[i]))

\* A fitted slice passes the checks of _validate_slice, none of its wrong
\* observations would pass its threshold in the engine, and some right one would,
\* however the bins were merged (fit_slice, _validate_slice, _calibrate).
FittedSliceIsSound ==
    fitting = "done" =>
        /\ groups[1].first = 1 /\ groups[Len(groups)].last = BinCount
        /\ \A i \in 1..Len(groups) - 1 :
               /\ groups[i + 1].first = groups[i].last + 1
               /\ AtMost(ValueOf(i), ValueOf(i + 1))
        /\ threshold # Shutdown =>
               /\ threshold \in Values
               /\ \A b \in 1..BinCount : rows[b].wrong > 0 => Below(Calibrated(b), threshold)
               /\ \E b \in 1..BinCount : rows[b].right > 0 /\ AtMost(threshold, Calibrated(b))

=============================================================================
