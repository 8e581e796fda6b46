---------------------------- MODULE MCPriceFetch ----------------------------
(* Requests: the full history, open and closed ranges, one shorter than a  *)
(* chunk, one of several chunks, and one that is empty.                    *)
EXTENDS PriceFetch

MCRequests ==
    { [start |-> None, end |-> None], [start |-> None, end |-> 3],
      [start |-> 1, end |-> None], [start |-> 2, end |-> 3],
      [start |-> 3, end |-> 3] }
=============================================================================
