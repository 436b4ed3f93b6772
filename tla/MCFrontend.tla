------------------------------ MODULE MCFrontend ------------------------------
(***************************************************************************)
(* tokac in one run: the driver on small disks (MCDriver), and beside a    *)
(* driver that only prints its version the single passes on small inputs.  *)
(***************************************************************************)
EXTENDS MCDriver, MCPasses

JustVersion == [disk |-> Lib, sources |-> <<>>, args |-> <<"--version">>]
FrontWorlds == UNION {MCWorlds, {JustVersion}}
FrontInit ==
    \/ DriverInit /\ item = Idle /\ outcome = <<>>
    \/ /\ DriverInit /\ opts.quit = 0 /\ fs = Lib /\ PassInit
FrontNext == \/ DriverNext /\ UNCHANGED stepVars
             \/ PassNext /\ UNCHANGED driverVars
FrontSpec == FrontInit /\ [][FrontNext]_<<driverVars, stepVars>> /\ WF_driverVars(DriverNext)
=============================================================================
