---------------------------- MODULE MCTunnelStream ----------------------------
(***************************************************************************)
(* Instances of TunnelStream.  A message of two chunks can be cut between  *)
(* them; one of a single chunk cannot, and keeps two requests affordable.  *)
(***************************************************************************)
EXTENDS TunnelStream

CONSTANTS r1, r2

OneRequest  == {r1}
TwoRequests == {r1, r2}

\* An edge of this build, and one of another.
SomeVersions == {VERSION, VERSION + 1}
SameVersion  == {VERSION}
==============================================================================
