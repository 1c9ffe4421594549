------------------------- MODULE MCReportSchedules -------------------------
EXTENDS ReportSchedules

CONSTANTS s1, w1, w2
=============================================================================
