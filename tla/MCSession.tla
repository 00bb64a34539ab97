------------------------------ MODULE MCSession ------------------------------
(* One request and its forward; three adapters, two of which only dial.    *)
EXTENDS Session

MCRun == {Request, Forward}

=============================================================================
