--------------------------- MODULE MCDailyReport ---------------------------
(***************************************************************************)
(* Model checking of DailyReport with the sources of Reports.                *)
(***************************************************************************)
EXTENDS DailyReport, Reports

CONSTANTS k1, k2
MCKeys == {k1, k2}
=============================================================================
