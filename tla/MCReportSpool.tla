---------------------------- MODULE MCReportSpool ----------------------------
(* Three clients of two users and two reports: one user polls a report from  *)
(* two clients at once, and the other asks for the number in between.        *)
EXTENDS ReportSpool

CONSTANTS c1, c2, c3, u1, u2

ThreeClients == [c \in {c1, c2, c3} |-> IF c = c3 THEN u2 ELSE u1]
=============================================================================
