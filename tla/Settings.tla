------------------------------ MODULE Settings ------------------------------
(***************************************************************************)
(* The environment variables the stages are started with.  They are read   *)
(* once, so a run has one setting; Settings holds the ones looked at.      *)
(***************************************************************************)
EXTENDS Naturals

CONSTANT Settings

ASSUME SettingsAssumption ==
  Settings \subseteq [passive   : BOOLEAN,      \* PASSIVE=1
                      waitset   : BOOLEAN,      \* WAIT_MODE=waitset
                      maxOrders : Nat \ {0},    \* MAX_ORDERS; 0, for no limit, is left out
                      maxFills  : Nat,          \* MAX_FILLS, 0 for no limit
                      timeCap   : BOOLEAN]      \* MAX_SECONDS is not 0

VARIABLE env

EnvInit == env \in Settings
=============================================================================
