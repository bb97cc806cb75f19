------------------------------- MODULE CaStore -------------------------------
(***************************************************************************)
(* The certificate authority kept in two files of the config directory     *)
(* (ca.rs), the commands that load or create it (main.rs) and the one that *)
(* installs it in the machine's trust store (trust.rs).                    *)
(*                                                                         *)
(* Each command is a process.  load_or_create is a run of separate system  *)
(* calls: two existence checks, two reads or two writes, and std::fs::write*)
(* itself first truncates its file and then fills it.  A process may be    *)
(* killed, and any call may fail, between any two of them; what is in the  *)
(* files stays.  With Concurrent FALSE a first use is alone: commands      *)
(* overlap only once there is a CA on disk.                                *)
(*                                                                         *)
(* A CA is a number: the certificate and the key generated together carry  *)
(* the same one.  Modes, validity dates and names are left out.            *)
(***************************************************************************)
EXTENDS Integers

CONSTANTS Processes,   \* commands that run, each once
          Concurrent   \* whether first uses may overlap

ASSUME ConcurrentAssumption == Concurrent \in BOOLEAN

VARIABLES
  certFile,   \* content of rootCA.pem
  keyFile,    \* content of rootCA-key.pem
  made,       \* how many CAs have been generated
  pc,         \* where a process stands
  cmd,        \* the command it runs
  cert, key,  \* the CA it holds in memory
  anchor,     \* the certificate copied to the trust store's directory
  trusted     \* the certificate the store trusts

files == <<certFile, keyFile, made>>
store == <<anchor, trusted>>
vars  == <<files, store, pc, cmd, cert, key>>

\* A file holds a CA (a positive number), nothing yet, or does not exist.
Absent == -1
Torn   == 0

Commands == {"serve", "open", "trust"}
Loading  == {"certExists", "keyExists", "readCert", "readKey", "parse"}
Creating == {"generate", "truncateCert", "writeCert", "truncateKey",
             "writeKey", "setPermissions"}
Trusting == {"copy", "update"}
Running  == Loading \cup Creating \cup Trusting
Phases   == {"off", "sharing", "done", "failed"} \cup Running

\* load_or_create has returned a CA to the process.
Holds(p) == pc[p] \in {"sharing", "done"} \cup Trusting

Init ==
  /\ certFile = Absent
  /\ keyFile  = Absent
  /\ made     = 0
  /\ pc       = [p \in Processes |-> "off"]
  /\ cmd      \in [Processes -> Commands]
  /\ cert     = [p \in Processes |-> Absent]
  /\ key      = [p \in Processes |-> Absent]
  /\ anchor   = Absent
  /\ trusted  = Absent

Goto(p, phase) == pc' = [pc EXCEPT ![p] = phase]

\* What a command does with the CA: share it until stopped, or install it.
Proceed(p) == Goto(p, IF cmd[p] = "trust" THEN "copy" ELSE "sharing")

\* A command may start: alone, or beside others if there is a CA on disk.
MayStart == Concurrent \/ keyFile > Torn \/ \A q \in Processes : pc[q] \notin Running
------------------------------------------------------------------------------
\* Mutant of Start: trust installs what is there without load_or_create.
StartTrusting(p) ==
  /\ pc[p] = "off"
  /\ MayStart
  /\ Goto(p, IF cmd[p] = "trust" THEN "copy" ELSE "certExists")
  /\ UNCHANGED <<files, store, cmd, cert, key>>

Start(p) ==
  /\ pc[p] = "off"
  /\ MayStart
  /\ Goto(p, "certExists")
  /\ UNCHANGED <<files, store, cmd, cert, key>>

\* Mutant of CertExists: what is there is never looked for.
CertIgnored(p) ==
  /\ pc[p] = "certExists"
  /\ Goto(p, "generate")
  /\ UNCHANGED <<files, store, cmd, cert, key>>

\* cert_path.exists() && key_path.exists(), the second only after the first.
CertExists(p) ==
  /\ pc[p] = "certExists"
  /\ Goto(p, IF certFile # Absent THEN "keyExists" ELSE "generate")
  /\ UNCHANGED <<files, store, cmd, cert, key>>

KeyExists(p) ==
  /\ pc[p] = "keyExists"
  /\ Goto(p, IF keyFile # Absent THEN "readCert" ELSE "generate")
  /\ UNCHANGED <<files, store, cmd, cert, key>>

ReadCert(p) ==
  /\ pc[p] = "readCert"
  /\ cert' = [cert EXCEPT ![p] = certFile]
  /\ Goto(p, "readKey")
  /\ UNCHANGED <<files, store, cmd, key>>

ReadKey(p) ==
  /\ pc[p] = "readKey"
  /\ key' = [key EXCEPT ![p] = keyFile]
  /\ Goto(p, "parse")
  /\ UNCHANGED <<files, store, cmd, cert>>

\* Both PEM texts parse, or "parsing CA key" or "parsing CA cert" is the
\* command's error.  That they belong together is not looked at.
Parse(p) ==
  /\ pc[p] = "parse"
  /\ IF key[p] > Torn /\ cert[p] > Torn THEN Proceed(p) ELSE Goto(p, "failed")
  /\ UNCHANGED <<files, store, cmd, cert, key>>

\* Mutant of Generate: a certificate found is kept, only the key is new.
GenerateKey(p) ==
  /\ pc[p] = "generate"
  /\ made' = made + 1
  /\ cert' = [cert EXCEPT ![p] = IF certFile > Torn THEN certFile ELSE made + 1]
  /\ key'  = [key EXCEPT ![p] = made + 1]
  /\ Goto(p, IF certFile > Torn THEN "truncateKey" ELSE "truncateCert")
  /\ UNCHANGED <<certFile, keyFile, store, cmd>>

\* Mutant of Generate: one key pair signs the certificate, a second one,
\* counted as none, is returned and written.
GenerateTwoKeys(p) ==
  /\ pc[p] = "generate"
  /\ made' = made + 1
  /\ cert' = [cert EXCEPT ![p] = made + 1]
  /\ key'  = [key EXCEPT ![p] = made + 2]
  /\ Goto(p, "truncateCert")
  /\ UNCHANGED <<certFile, keyFile, store, cmd>>

Generate(p) ==
  /\ pc[p] = "generate"
  /\ made' = made + 1
  /\ cert' = [cert EXCEPT ![p] = made + 1]
  /\ key'  = [key EXCEPT ![p] = made + 1]
  /\ Goto(p, "truncateCert")
  /\ UNCHANGED <<certFile, keyFile, store, cmd>>

\* The two halves of std::fs::write on rootCA.pem.
TruncateCert(p) ==
  /\ pc[p] = "truncateCert"
  /\ certFile' = Torn
  /\ Goto(p, "writeCert")
  /\ UNCHANGED <<keyFile, made, store, cmd, cert, key>>

WriteCert(p) ==
  /\ pc[p] = "writeCert"
  /\ certFile' = cert[p]
  /\ Goto(p, "truncateKey")
  /\ UNCHANGED <<keyFile, made, store, cmd, cert, key>>

\* write_private: the same two halves on rootCA-key.pem, then its mode.
TruncateKey(p) ==
  /\ pc[p] = "truncateKey"
  /\ keyFile' = Torn
  /\ Goto(p, "writeKey")
  /\ UNCHANGED <<certFile, made, store, cmd, cert, key>>

WriteKey(p) ==
  /\ pc[p] = "writeKey"
  /\ keyFile' = key[p]
  /\ Goto(p, "setPermissions")
  /\ UNCHANGED <<certFile, made, store, cmd, cert, key>>

SetPermissions(p) ==
  /\ pc[p] = "setPermissions"
  /\ Proceed(p)
  /\ UNCHANGED <<files, store, cmd, cert, key>>

\* trust::install copies the file at the path, not the CA just loaded ...
CopyToStore(p) ==
  /\ pc[p] = "copy"
  /\ anchor' = certFile
  /\ Goto(p, "update")
  /\ UNCHANGED <<files, trusted, cmd, cert, key>>

\* ... and update-ca-certificates makes the store trust what is there.
UpdateStore(p) ==
  /\ pc[p] = "update"
  /\ trusted' = IF anchor > Torn THEN anchor ELSE trusted
  /\ Goto(p, "done")
  /\ UNCHANGED <<files, anchor, cmd, cert, key>>

\* Any call of a running command fails, or the process is killed there; a
\* share ends when it is stopped.
Stop(p) ==
  /\ pc[p] \in Running \cup {"sharing"}
  /\ Goto(p, IF pc[p] = "sharing" THEN "done" ELSE "failed")
  /\ UNCHANGED <<files, store, cmd, cert, key>>

Load(p)   == CertExists(p) \/ KeyExists(p) \/ ReadCert(p) \/ ReadKey(p) \/ Parse(p)
Create(p) == \/ Generate(p) \/ TruncateCert(p) \/ WriteCert(p)
             \/ TruncateKey(p) \/ WriteKey(p) \/ SetPermissions(p)
Install(p) == CopyToStore(p) \/ UpdateStore(p)

Next == \E p \in Processes :
          Start(p) \/ Load(p) \/ Create(p) \/ Install(p) \/ Stop(p)

Spec == Init /\ [][Next]_vars
------------------------------------------------------------------------------
\* server_config: the leaf is signed with the key in memory and sent with the
\* certificate in memory, so it verifies for a device that trusts `ca` if
\* both are that CA's.
Verifies(p, ca) == key[p] = ca /\ cert[p] = ca

TypeOK ==
  /\ made     \in Nat
  /\ certFile \in Absent .. made
  /\ keyFile  \in Absent .. made
  /\ pc       \in [Processes -> Phases]
  /\ cmd      \in [Processes -> Commands]
  /\ cert     \in [Processes -> Absent .. made]
  /\ key      \in [Processes -> Absent .. made]
  /\ anchor   \in Absent .. made
  /\ trusted  \in Absent .. made

\* A share's leaf verifies against the CA certificate the share itself sends
\* and offers for download: load_or_create never pairs a certificate with
\* another CA's key, whatever an interrupted command left in the files.
CaPairMatches ==
  \A p \in Processes : Holds(p) => cert[p] > Torn /\ Verifies(p, cert[p])

\* All shares of a machine are minted from one CA.
OneCa ==
  \A p, q \in Processes : Holds(p) /\ Holds(q) => cert[p] = cert[q]

\* Trust the CA once and every share verifies: those running, those started
\* later, and those that had started before.
TrustedDevicesAccept ==
  trusted > Torn => \A p \in Processes : Holds(p) => Verifies(p, trusted)

\* The CA is created once: when a command has got one, no later command
\* writes the files again.
CreatedOnce ==
  [][(\E p \in Processes : Holds(p)) => UNCHANGED <<certFile, keyFile>>]_vars

\* The machine's CA is there once both files hold it; a command mints from
\* what load_or_create has returned.
Contract == INSTANCE CaContract WITH
  None  <- Absent,
  ca    <- IF keyFile > Torn THEN <<certFile, keyFile>> ELSE <<Absent, Absent>>,
  mints <- [p \in Processes |-> IF Holds(p) THEN <<cert[p], key[p]>> ELSE <<Absent, Absent>>]

\* The two files, the checks and the writes amount to the one CA the doc
\* describes.
KeepsCaContract == Contract!Spec

\* "Load the persisted CA, creating it on first use": what load_or_create
\* finds in the files can be loaded, or is created again.
PersistedLoads ==
  \A p \in Processes : pc[p] = "parse" => cert[p] > Torn /\ key[p] > Torn
==============================================================================
