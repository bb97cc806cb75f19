------------------------------ MODULE CaContract ------------------------------
(***************************************************************************)
(* What the CA promises (the head of ca.rs), without its files: "Created   *)
(* once and persisted; every share's leaf certificate is minted from it.   *)
(* Trust the CA once per device and every share gets a clean padlock."     *)
(* A CA is a pair <<certificate, key>> whose halves belong together.       *)
(* CaStore implements this, if a machine's first use is alone.             *)
(***************************************************************************)
CONSTANTS Processes,   \* the commands run on the machine
          None         \* no certificate, or no key

VARIABLES ca,       \* the machine's CA, or NoCa
          mints,    \* the CA a command mints its leaf certificates from, or NoCa
          trusted   \* the certificate its devices trust, or None

vars == <<ca, mints, trusted>>

NoCa == <<None, None>>

Init ==
  /\ ca      = NoCa
  /\ mints   = [p \in Processes |-> NoCa]
  /\ trusted = None

\* A first use.
Create ==
  /\ ca = NoCa
  /\ ca' = <<ca'[1], ca'[1]>> /\ ca' # NoCa
  /\ UNCHANGED <<mints, trusted>>

\* A command gets the CA ...
Obtain(p) ==
  /\ ca # NoCa
  /\ mints' = [mints EXCEPT ![p] = ca]
  /\ UNCHANGED <<ca, trusted>>

\* ... and fails with it.
Release(p) ==
  /\ mints' = [mints EXCEPT ![p] = NoCa]
  /\ UNCHANGED <<ca, trusted>>

\* A command that has the CA installs it.
Trust ==
  /\ \E p \in Processes : mints[p] = ca
  /\ ca # NoCa
  /\ trusted' = ca[1]
  /\ UNCHANGED <<ca, mints>>

Next == Create \/ Trust \/ \E p \in Processes : Obtain(p) \/ Release(p)

Spec == Init /\ [][Next]_vars
==============================================================================
