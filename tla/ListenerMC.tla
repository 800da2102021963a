----------------------------- MODULE ListenerMC -----------------------------
(***************************************************************************)
(* Listener for TLC: three connections arrive.  Two workers at once, in a  *)
(* run that ends with the third connection, or one worker at a time, so    *)
(* that connections are dropped in a run that goes on.                     *)
(***************************************************************************)
EXTENDS Listener

MCConfigs == {[max_concurrent |-> 2, max_connections |-> 3],
              [max_concurrent |-> 1, max_connections |-> 4]}
=============================================================================
