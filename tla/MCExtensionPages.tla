-------------------------- MODULE MCExtensionPages --------------------------
(* An instance of ExtensionPages for TLC with captures and the popup only.   *)
EXTENDS ExtensionPages
CONSTANTS o1, host
OneHost == [o \in {o1} |-> host]
=============================================================================
