------------------------- MODULE MCWorkerSelection --------------------------
(***************************************************************************)
(* Small instance of WorkerSelection: three workers, so that the preferred *)
(* one may change twice, with equal and different scores, penalties, risks *)
(* of one level and of two.                                                *)
(***************************************************************************)
EXTENDS WorkerSelection

MCOffers ==
    {[eligible |-> FALSE, base |-> 3]}
    \cup [eligible : {TRUE}, base : 1 .. 3]

MCEstimates ==
    {[fresh |-> FALSE, penalty |-> 0, risk |-> 0],
     [fresh |-> FALSE, penalty |-> 2, risk |-> 60],
     [fresh |-> TRUE, penalty |-> 0, risk |-> 90],
     [fresh |-> TRUE, penalty |-> 2, risk |-> 60],
     [fresh |-> TRUE, penalty |-> 1, risk |-> 55]}
=============================================================================
