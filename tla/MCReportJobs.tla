---------------------------- MODULE MCReportJobs ----------------------------
(***************************************************************************)
(* Small instances of ReportJobs.                                          *)
(***************************************************************************)
EXTENDS ReportJobs

CONSTANTS k1, k2, \* reports
          w1      \* another window

MCScoped == <<k1, k2>>
=============================================================================
