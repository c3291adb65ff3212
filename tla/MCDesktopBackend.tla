-------------------------- MODULE MCDesktopBackend --------------------------
(* Instances of DesktopBackend for TLC; all its constants are numbers.          *)
EXTENDS DesktopBackend, TLC
=============================================================================
