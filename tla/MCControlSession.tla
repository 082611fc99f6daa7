-------------------------- MODULE MCControlSession --------------------------
(* TLC instances of ControlSession, with small channels.                    *)
EXTENDS ControlSession
=============================================================================
