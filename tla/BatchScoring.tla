----------------------------- MODULE BatchScoring -----------------------------
(***************************************************************************)
(* How validator/agent_v1 pays the miners of a batch: the score of each on *)
(* each paper against its Silver record, the mean over the papers, the     *)
(* ranks, and the payout of one of three modes.                            *)
(*                                                                         *)
(* A miner's work on a paper is the Silver units it covers, the findings   *)
(* against it and the candidates that were judged invalid.  Scores are in  *)
(* units of 1/10000, rounded as round(x, 4) does; payouts are exact, in    *)
(* units of 1/Whole.                                                       *)
(***************************************************************************)
EXTENDS ArtifactChecks

CONSTANTS
    Miners, \* in the order of their ids, from 1
    Papers,
    Units,  \* the units of each paper's Silver record
    Works,  \* bound: what a miner may submit for each paper
    Modes,  \* payout_mode
    Lanes,  \* bound: the sets of miners that may be in the qualification lane
    WinnerPercent, RunnerUpSlots, \* winner_share, runner_up_slots
    Factors,         \* runner_factors: Factors[r][i] is the power of
                     \* runner_up_decay for rank i when r runner-ups are paid,
                     \* in a unit in which those of r are whole
    NewcomerPercent, \* newcomer_share
    NewcomerMinScore, \* newcomer_min_score, once it is clipped
    Whole            \* the whole payout, in a unit that all shares divide

VARIABLES
    batchPhase, \* "submitted", "scored", "ranked", "paid"
    mode, newcomers,
    work,       \* what each miner submitted for each paper
    paperScore, batchScore, rank,
    payout

batchVars ==
    <<batchPhase, mode, newcomers, work, paperScore, batchScore, rank, payout>>

\* round(n / d, 0), to even when it lies in the middle.
Round(n, d) ==
    LET q == n \div d
        r == n % d
    IN  IF 2 * r > d \/ (2 * r = d /\ q % 2 = 1) THEN q + 1 ELSE q

-----------------------------------------------------------------------------
(* silver_scoring.py                                                       *)

IMPORTANCE_WEIGHTS == [central |-> 70, supporting |-> 30, minor |-> 10]
WeightOf(S) == SumFunction([u \in S |-> IMPORTANCE_WEIGHTS[u.importance]])
\* _scored_units
Scored(p) == {u \in Units[p] : u.required \/ u.improvement}
MinorOf(S) == {u \in S : u.importance = "minor"}

\* _coverage: all minor units together count at most 5 % of the whole.
Coverage(p, covered) ==
    LET scored == Scored(p)
        total == WeightOf(scored \ MinorOf(scored))
        minor == WeightOf(MinorOf(scored))
        minorCovered == WeightOf(MinorOf(scored) \intersect covered)
        capped(w) == Min({95 * w, 5 * total})
    IN  IF total > 0
        THEN Round(10000 * (95 * WeightOf((scored \ MinorOf(scored))
                                          \intersect covered)
                            + capped(minorCovered)),
                   95 * total + capped(minor))
        ELSE IF minor = 0 THEN 10000 ELSE Round(10000 * minorCovered, minor)

\* _adjudication_quality: what is missing is no matter of quality.
AdjudicationQuality(w) == Max({0, 10000 - Penalty(w.invalid)})
\* No scored unit and no invalid candidate of anyone.
EmptyRecord(p) ==
    Scored(p) = {} /\ \A m \in Miners : work[m][p].invalid = {}

\* score_miner_against_silver; a paper that was not submitted scores 0.
ScoreOf(m, p) ==
    LET w == work[m][p]
    IN  IF ~w.submitted \/ EmptyRecord(p) THEN 0
        ELSE Round(Coverage(p, w.covered)
                   * Round(Quality(w.findings) * AdjudicationQuality(w), 10000),
                   10000)

-----------------------------------------------------------------------------
(* batch_scoring.py                                                        *)

Positive == {m \in Miners : batchScore[m] > 0}
Submitted(m) == \E p \in Papers : work[m][p].submitted
Better(m) == {n \in Miners : batchScore[n] > batchScore[m]}
Level(m) == {n \in Miners : batchScore[n] = batchScore[m]}

\* How many ranks below the first are paid.
Runners == Min({RunnerUpSlots, Cardinality(Positive) - 1})
RunnerUps(r) == 2..(r + 1)
\* runner_total
FactorTotal(r) == SumFunctionOnSet(Factors[r], RunnerUps(r))
Percent == Whole \div 100

\* The weight of the i-th rank.  When no runner-up is paid the weights are
\* divided by their total, which leaves the winner everything: but nothing when
\* the winner's share is 0 and it is not alone.
SlotWeight(i) ==
    IF i = 1
    THEN IF Runners = 0 /\ (WinnerPercent > 0 \/ Cardinality(Positive) = 1)
         THEN Whole ELSE Percent * WinnerPercent
    ELSE IF i > Runners + 1 THEN 0
    ELSE ((Percent * (100 - WinnerPercent)) \div FactorTotal(Runners))
         * Factors[Runners][i]

\* Mutant: miners of one score do not share the ranks they occupy.
RankPayout(m) ==
    IF m \notin Positive THEN 0
    ELSE SlotWeight(Cardinality(Better(m))
                    + Cardinality({n \in Level(m) : n <= m}))
\* winner_takes_most_weights: miners of one score share the ranks they occupy.
WinnerTakesMost(m) ==
    IF m \notin Positive THEN 0
    ELSE LET ahead == Cardinality(Better(m))
             level == Cardinality(Level(m))
         IN  SumFunction([i \in (ahead + 1)..(ahead + level) |-> SlotWeight(i)])
             \div level

\* Each one's part of the sum of the scores, rounded down.
Proportional(m) ==
    IF m \notin Positive THEN 0
    ELSE (Whole * batchScore[m]) \div SumFunctionOnSet(batchScore, Positive)

\* bucket_payout_weights: the best of the newcomers with more than the least
\* score share a part of at most 40 %; without one nothing is taken off.
NewcomerWinners ==
    LET valid == {m \in newcomers :
                     Submitted(m) /\ batchScore[m] > NewcomerMinScore}
    IN  {m \in valid : \A n \in valid : batchScore[n] <= batchScore[m]}
NewcomerShare == IF NewcomerWinners = {} THEN 0 ELSE Min({40, NewcomerPercent})
Bonus(m) ==
    IF m \in NewcomerWinners
    THEN (Percent * NewcomerShare) \div Cardinality(NewcomerWinners) ELSE 0
\* Mutant: the bonus is not taken off the rest.
BucketOnTop(m) == WinnerTakesMost(m) + Bonus(m)
Bucket(m) == (WinnerTakesMost(m) \div 100) * (100 - NewcomerShare) + Bonus(m)

Payout(m) == CASE mode = "proportional" -> Proportional(m)
               [] mode = "bucket" -> Bucket(m)
               [] OTHER -> WinnerTakesMost(m)

-----------------------------------------------------------------------------
NoScore == [m \in Miners |-> 0]

BatchInit ==
    /\ batchPhase = "submitted"
    /\ mode \in Modes
    /\ newcomers \in (IF mode = "bucket" THEN Lanes ELSE {{}})
    /\ paperScore = [m \in Miners |-> [p \in Papers |-> 0]]
    /\ batchScore = NoScore
    /\ rank = NoScore
    /\ payout = NoScore

ScorePapers ==
    /\ batchPhase = "submitted"
    /\ paperScore' = [m \in Miners |-> [p \in Papers |-> ScoreOf(m, p)]]
    /\ batchPhase' = "scored"
    /\ UNCHANGED <<mode, newcomers, work, batchScore, rank, payout>>

\* score_batch: the mean over the papers, and ranks in which equal scores are
\* equal.
RankMiners ==
    /\ batchPhase = "scored"
    /\ batchScore' = [m \in Miners |->
           Round(SumFunctionOnSet(paperScore[m], Papers), Cardinality(Papers))]
    /\ rank' = [m \in Miners |->
           1 + Cardinality({n \in Miners : batchScore'[n] > batchScore'[m]})]
    /\ batchPhase' = "ranked"
    /\ UNCHANGED <<mode, newcomers, work, paperScore, payout>>

Pay ==
    /\ batchPhase = "ranked"
    /\ payout' = [m \in Miners |-> Payout(m)]
    /\ batchPhase' = "paid"
    /\ UNCHANGED <<mode, newcomers, work, paperScore, batchScore, rank>>

BatchNext == ScorePapers \/ RankMiners \/ Pay

BatchSpec ==
    /\ work \in [Miners -> [Papers -> Works]]
    /\ BatchInit
    /\ [][BatchNext]_batchVars

-----------------------------------------------------------------------------
(* The assumptions on the constants.                                       *)

\* Findings are finitely many, each of a severity there is.
Judged(F) == IsFiniteSet(F) /\ \A f \in F : f.severity \in DOMAIN PENALTIES

\* The records and what is submitted for them, a few of each.
IsBatch ==
    /\ IsFiniteSet(Miners) /\ Miners = 1..Cardinality(Miners)
    /\ IsFiniteSet(Papers) /\ Papers # {}
    /\ \A p \in Papers :
          /\ IsFiniteSet(Units[p])
          /\ \A u \in Units[p] : u.importance \in DOMAIN IMPORTANCE_WEIGHTS
    /\ \A w \in Works : Judged(w.findings) /\ Judged(w.invalid)
    /\ Lanes \subseteq SUBSET Miners

RunnerCounts == 1..(Cardinality(Miners) - 1)

\* Each factor is the decay times the one before it, for any number of
\* runner-ups the same decay.
IsDecay ==
    \A r \in RunnerCounts :
        /\ Factors[r] \in [RunnerUps(r) -> Nat \ {0}]
        /\ \A s \in RunnerCounts : \A i \in 3..(r + 1), j \in 3..(s + 1) :
              Factors[r][i] * Factors[s][j - 1] = Factors[r][i - 1] * Factors[s][j]

\* Whole shares, in percents of percents, for any number of miners of one score
\* and any number of runner-ups.
IsDivisible ==
    /\ Whole \in Nat \ {0}
    /\ \A k \in Miners :
          /\ Whole % (10000 * k) = 0
          /\ \A r \in RunnerCounts : Whole % (10000 * k * FactorTotal(r)) = 0

ASSUME BatchAssumption ==
    /\ IsBatch
    /\ WinnerPercent \in 0..100
    /\ RunnerUpSlots \in Nat
    /\ IsDecay
    /\ NewcomerPercent \in Nat
    /\ NewcomerMinScore \in 0..10000
    /\ IsDivisible

-----------------------------------------------------------------------------
(* Properties.                                                             *)

\* The work v is no better than w: it covers nothing w does not, and all that
\* was held against w was held against it.
NoBetter(v, w) ==
    \/ ~v.submitted
    \/ /\ w.submitted
       /\ v.covered \subseteq w.covered
       /\ w.findings \subseteq v.findings
       /\ w.invalid \subseteq v.invalid

\* Who submits no worse work on any paper is paid no less, through the weights
\* and the cap of the coverage, the penalties and their ceilings, four
\* roundings, ties and the three modes; only a newcomer may be paid for less.
BetterWorkIsPaidNoLess ==
    batchPhase = "paid" =>
        \A m, n \in Miners :
            /\ \A p \in Papers : NoBetter(work[n][p], work[m][p])
            /\ n \in newcomers => m \in newcomers
            => payout[m] >= payout[n] /\ rank[m] <= rank[n]

\* The whole payout is handed out when anyone has a score, to no one else, and
\* never twice.  (Proportional payouts are rounded down.)
PayoutAddsUp ==
    batchPhase = "paid" =>
        LET sum == SumFunctionOnSet(payout, Miners)
        IN  IF Positive = {} THEN sum = 0
            ELSE /\ \A m \in Miners \ Positive : payout[m] = 0
                 /\ sum \in (Whole - Cardinality(Miners))..Whole

=============================================================================
