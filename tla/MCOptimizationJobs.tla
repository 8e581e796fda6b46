------------------------ MODULE MCOptimizationJobs ------------------------
(* Requests that reach every end of the two runners: an empty range list,  *)
(* one that fails validation, one above the limit, a random draw, a        *)
(* missing artifact, windows of which some are skipped, and a walk-forward *)
(* that runs three more folds than the one it announced.                   *)
EXTENDS OptimizationJobs

Range1(lo, hi) == [min |-> lo, max |-> hi, step |-> 1]

Grid(ranges, method, artifact) ==
    [kind |-> "grid", ranges |-> ranges, method |-> method, count |-> 2,
     artifact |-> artifact, loop |-> TRUE, metric |-> "supported", shape |-> "full"]

Folds(bars, anchor, artifact) ==
    [kind |-> "walk_forward", ranges |-> <<Range1(1, 2)>>, method |-> "grid",
     count |-> 2, artifact |-> artifact, loop |-> TRUE, metric |-> "supported",
     shape |-> "full", bars |-> bars, folds |-> 2,
     ratio |-> 7, anchor |-> anchor, minTrain |-> 2, minTest |-> 2]

MCRequests == <<
    {Grid(<<Range1(1, 2), Range1(1, 2)>>, "grid", "there"),
     Grid(<<Range1(1, 3)>>, "random", "there"),
     [Grid(<<[min |-> 1, max |-> 2, step |-> 0]>>, "grid", "there")
          EXCEPT !.shape = "no_step"],
     Grid(<<Range1(1, 2)>>, "grid", "missing"),
     Folds(5, "anchored", "there"), Folds(2, "rolling", "there"),
     Folds(5, "rolling", "missing"),
     [Folds(12, "rolling", "there")
          EXCEPT !.folds = 4, !.ranges = <<Range1(1, 1)>>, !.minTest = 4]},
    {Grid(<<Range1(1, 2)>>, "random", "missing"),
     [Grid(<<Range1(2, 1)>>, "grid", "there") EXCEPT !.loop = FALSE]} >>

MCRaw == {None, 0 - 1}
=============================================================================
