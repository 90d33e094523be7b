----------------------------- MODULE MCKeyStore -----------------------------
(* Startup with two utilities, keys of two numbers, a power failure that     *)
(* takes the key file, and a program that is replaced once.                  *)
EXTENDS Startup

MCUtilities == <<"smartctl", "megactl">>
=============================================================================
