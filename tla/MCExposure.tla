------------------------------ MODULE MCExposure ------------------------------
(* One request for a document and one for the API, with a quota that the    *)
(* first request may already exceed.                                        *)
EXTENDS Exposure

CONSTANTS x1, x2

OneDocument == [x \in Exchanges |-> IF x = x2 THEN "doc" ELSE "api"]
=============================================================================
