--------------------------- MODULE MCIndicatorJobs ---------------------------
(***************************************************************************)
(* Two jobs with one request, so that an artifact can be reused, or with   *)
(* requests that differ in their enrichment mode, so that it must not be:  *)
(* the second asks for live parity, the first may have batch bars.         *)
(***************************************************************************)
EXTENDS IndicatorJobs

MCContents == {"aapl"}
MCRequest(mode) == [content |-> "aapl", mode |-> mode]
MCRequestChoices ==
    {<<MCRequest(mode), MCRequest("live_parity_streaming")>> : mode \in Modes}
=============================================================================
