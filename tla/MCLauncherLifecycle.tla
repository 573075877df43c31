------------------------ MODULE MCLauncherLifecycle ------------------------
(***************************************************************************)
(* Two launchers of one app for TLC.                                       *)
(***************************************************************************)
EXTENDS LauncherLifecycle

CONSTANTS l1, l2
=============================================================================
