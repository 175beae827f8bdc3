---------------------------- MODULE MCEditorLink ----------------------------
(* Constants for checking EditorLink. *)
EXTENDS EditorLink

\* Five players have the number of one at the player start, which is what the
\* IDE may ask for.
MCUserSettings ==
    {[PlayMode |-> "InViewport", NumberOfClients |-> 1,
      bNetDedicated |-> FALSE, bSpawnAtPlayerStart |-> FALSE],
     [PlayMode |-> "InEditorFloating", NumberOfClients |-> 5,
      bNetDedicated |-> FALSE, bSpawnAtPlayerStart |-> FALSE]}
MCRiderModes == {36}
=============================================================================
