--------------------------- MODULE MCShareLifecycle ---------------------------
(***************************************************************************)
(* Instances of ShareLifecycle: command lines that meet on the same ports. *)
(***************************************************************************)
EXTENDS ShareLifecycle

CommandLine(kind, localOnly, port) ==
  [kind |-> kind, localOnly |-> localOnly, port |-> port]

\* Every kind of share without --port; a serve and a local open that name the
\* edge's ports, and an open that names the helper's.
MCConfigs ==
  {CommandLine(kind, localOnly, AutoPort) :
     kind \in {"serve", "open"}, localOnly \in BOOLEAN}
    \cup {CommandLine("serve", FALSE, 4433), CommandLine("open", TRUE, 443),
          CommandLine("open", FALSE, HelperPort)}
==============================================================================
