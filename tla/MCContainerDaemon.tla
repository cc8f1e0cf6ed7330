-------------------------- MODULE MCContainerDaemon --------------------------
(* Time in units of five seconds: the monitor and the sessions act every second *)
(* unit, out of step with each other.                                           *)
EXTENDS ContainerDaemon
=============================================================================
