----------------------------- MODULE MCConsole -----------------------------
(***************************************************************************)
(* Console for TLC: a browser with a session to come back to.  Alone, a    *)
(* tab changes whatever the platform has.  Beside another one it changes   *)
(* the flag, as tabs meet in the token and in the flag and nowhere else,   *)
(* and no connection breaks at the server: both keep the instance small.   *)
(***************************************************************************)
EXTENDS Console

AllButRevoke == (Settings \cup OnUser) \ {"revoke"}   \* here reveal and revoke are alike

SecondTabChangesFlag ==
  \/ tab[2].screen = "closed"
  \/ /\ override = Null /\ ~suspended
     /\ \A t \in Tabs : /\ net[t]["stray"].at = "none"
                        /\ net[t]["change"].kind \notin Permitted \ {"flag"}

MCSpec == ConsoleInit /\ [][ConsoleNext /\ SecondTabChangesFlag']_consoleVars /\ Fairness
==============================================================================
