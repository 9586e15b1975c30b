------------------------------- MODULE MCServer -------------------------------
(* Constants of Server.cfg.                                                *)
EXTENDS Server

\* the main thread, which Linux prefers, and a checker
MCStruck == {Main, Turns}
=============================================================================
