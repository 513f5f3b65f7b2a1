------------------------------ MODULE MCSandbox ------------------------------
(* A Linux machine whose libc lets a process install a seccomp filter.      *)
EXTENDS Sandbox

MCPlatforms == [limits : {{"memory", "processes"}}, unshare : BOOLEAN, prctl : {TRUE}]
=============================================================================
