--------------------------- MODULE MCDatasourceSync ---------------------------
(* DatasourceSync with two addresses, a page of one address, and two pages a   *)
(* run: a cycle takes two runs.                                               *)
EXTENDS DatasourceSync
=============================================================================
