---------------------------- MODULE MCDeviceKeys ----------------------------
(* Tabs and tasks are alike. *)
EXTENDS DeviceKeys, TLC

MCSymmetry == Permutations(Tab) \cup Permutations(Task)

\* Nothing is said of a browser whose tabs have overwritten each other's keys.
OnlyUntilRaced == ~raced
=============================================================================
