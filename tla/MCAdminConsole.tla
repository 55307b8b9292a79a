---------------------------- MODULE MCAdminConsole ----------------------------
(* Instance of AdminConsole for TLC: requests of a tab are interchangeable; tokens expire while   *)
(* a list is read, through the shared client and past it, and while rows are changed.             *)
EXTENDS AdminConsole

AnyCall == Permutations(Call)

WideScreens == {PointsConfig, RechargeConfig}

LastingScreens == Screens \ {Dashboard, Networks, Fraud}
=============================================================================
