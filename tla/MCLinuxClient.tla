--------------------------- MODULE MCLinuxClient ---------------------------
(* An instance of LinuxClient for TLC.                                       *)
EXTENDS LinuxClient
ThreeLaunches == 1..3
TwoRequests == 1..2
WindowThenRegion == <<"window", "region">>
=============================================================================
