--------------------------- MODULE MCInputControl ---------------------------
(* An instance of InputControl for TLC: a dashboard and a service.         *)
EXTENDS InputControl

CONSTANTS dash1, service

OneDashboard == {dash1}
DashboardAndService == {dash1, service}
=============================================================================
