---------------------------- MODULE MCLifecycle ----------------------------
(* An instance of Lifecycle with every file: two cameras want one port, one *)
(* has its own, one takes what is free, be it the port of the first two, and *)
(* one asks for a port number that does not exist.                          *)
EXTENDS Lifecycle
Clash == <<8080, 8080, 8081, AnyPort, 70000>>
AllFiles == FileType
=============================================================================
