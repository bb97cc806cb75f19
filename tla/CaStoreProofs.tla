---------------------------- MODULE CaStoreProofs ----------------------------
(***************************************************************************)
(* What load_or_create guarantees when a machine's first use is alone, for *)
(* any number of commands, overlapping in any way once there is a CA, and  *)
(* any of them cut short at any system call.                               *)
(***************************************************************************)
EXTENDS CaStore, TLAPS

LEMMA CaTypesStep == TypeOK /\ [Next]_vars => TypeOK'
<1> SUFFICES ASSUME TypeOK, [Next]_vars PROVE TypeOK'
  OBVIOUS
<1> USE DEF TypeOK, Absent, Torn, Phases, Running, Loading, Creating, Trusting,
            Commands, Goto, Proceed, files, store
<1>1. ASSUME NEW p \in Processes, Start(p) PROVE TypeOK'
  BY <1>1 DEF Start
<1>2. ASSUME NEW p \in Processes, Load(p) PROVE TypeOK'
  BY <1>2 DEF Load, CertExists, KeyExists, ReadCert, ReadKey, Parse
<1>3. ASSUME NEW p \in Processes, Create(p) PROVE TypeOK'
  <2>1. CASE Generate(p)
    <3>1. /\ made + 1 \in Nat /\ made + 1 \in Absent .. made + 1
          /\ Absent .. made \subseteq Absent .. made + 1
      OBVIOUS
    <3>2. QED BY <1>3, <2>1, <3>1 DEF Generate
  <2>2. CASE TruncateCert(p) \/ WriteCert(p)
    BY <1>3, <2>2 DEF TruncateCert, WriteCert
  <2>3. CASE TruncateKey(p) \/ WriteKey(p) \/ SetPermissions(p)
    BY <1>3, <2>3 DEF TruncateKey, WriteKey, SetPermissions
  <2>4. QED BY <1>3, <2>1, <2>2, <2>3 DEF Create
<1>4. ASSUME NEW p \in Processes, Install(p) \/ Stop(p) PROVE TypeOK'
  BY <1>4 DEF Install, CopyToStore, UpdateStore, Stop
<1>5. CASE UNCHANGED vars
  BY <1>5 DEF vars
<1>6. QED BY <1>1, <1>2, <1>3, <1>4, <1>5 DEF Next

LEMMA CaTypesInit == Init => TypeOK
BY DEF Init, TypeOK, Absent, Phases, Commands

\* No file, no process and no trust store ever holds a CA that was not
\* generated, whether or not commands overlap.
THEOREM CaTypes == Spec => []TypeOK
BY CaTypesInit, CaTypesStep, PTL DEF Spec
------------------------------------------------------------------------------
(***************************************************************************)
(* The inductive invariant when a first use is alone: one command runs at  *)
(* a time until the key file is whole, the key file exists only beside a   *)
(* whole certificate, and a whole key only beside its own; each phase      *)
(* knows what it has found or written so far.                              *)
(***************************************************************************)
AloneUntilCreated ==
  \A p, q \in Processes :
    pc[p] \in Running /\ pc[q] \in Running => p = q \/ keyFile > Torn

FilesInv ==
  /\ keyFile # Absent => certFile > Torn
  /\ keyFile > Torn   => certFile = keyFile
  /\ anchor  > Torn   => certFile = anchor  /\ keyFile = anchor
  /\ trusted > Torn   => certFile = trusted /\ keyFile = trusted

PhaseInv(p) ==
  /\ pc[p] = "keyExists" => certFile # Absent
  /\ pc[p] \in {"readCert", "readKey", "parse"} => keyFile # Absent
  /\ pc[p] \in {"readKey", "parse"} => cert[p] = certFile
  /\ pc[p] = "parse" => key[p] = keyFile
  /\ pc[p] \in {"generate", "truncateCert", "writeCert", "truncateKey"}
       => keyFile = Absent
  /\ pc[p] \in Creating \ {"generate"} => cert[p] > Torn /\ key[p] = cert[p]
  /\ pc[p] \in {"truncateKey", "writeKey", "setPermissions"} => certFile = cert[p]
  /\ pc[p] = "writeKey" => keyFile = Torn
  /\ pc[p] = "setPermissions" => keyFile = key[p]
  /\ pc[p] = "update" => anchor = certFile
  /\ Holds(p) => /\ cert[p] > Torn /\ key[p] = cert[p]
                 /\ certFile = cert[p] /\ keyFile = cert[p]

CaInv == TypeOK /\ AloneUntilCreated /\ FilesInv /\ \A p \in Processes : PhaseInv(p)

\* Until there is a CA only the command that acts is running, and no other
\* phase speaks of the files; from then on nobody writes them.
LEMMA CaStep ==
  ASSUME ~Concurrent, CaInv, TypeOK', NEW p \in Processes,
         Start(p) \/ Load(p) \/ Create(p) \/ Install(p) \/ Stop(p)
  PROVE  CaInv'
<1> USE DEF CaInv, TypeOK, AloneUntilCreated, FilesInv, PhaseInv, Holds, Absent, Torn,
            Phases, Running, Loading, Creating, Trusting, Commands, Goto,
            Proceed, files, store
<1>1. CASE Start(p)
  BY <1>1 DEF Start, MayStart
<1>2. CASE CertExists(p)
  BY <1>2 DEF CertExists
<1>3. CASE KeyExists(p)
  BY <1>3 DEF KeyExists
<1>4. CASE ReadCert(p)
  BY <1>4 DEF ReadCert
<1>5. CASE ReadKey(p)
  BY <1>5 DEF ReadKey
<1>6. CASE Parse(p)
  BY <1>6 DEF Parse
<1>7. CASE Generate(p)
  BY <1>7 DEF Generate
<1>8. CASE TruncateCert(p)
  BY <1>8 DEF TruncateCert
<1>9. CASE WriteCert(p)
  BY <1>9 DEF WriteCert
<1>10. CASE TruncateKey(p)
  BY <1>10 DEF TruncateKey
<1>11. CASE WriteKey(p)
  BY <1>11 DEF WriteKey
<1>12. CASE SetPermissions(p)
  BY <1>12 DEF SetPermissions
<1>13. CASE CopyToStore(p)
  BY <1>13 DEF CopyToStore
<1>14. CASE UpdateStore(p)
  BY <1>14 DEF UpdateStore
<1>15. CASE Stop(p)
  BY <1>15 DEF Stop
<1>16. QED
  BY <1>1, <1>2, <1>3, <1>4, <1>5, <1>6, <1>7, <1>8, <1>9, <1>10, <1>11, <1>12, <1>13, <1>14, <1>15
  DEF Load, Create, Install

LEMMA CaInvariance ==
  ASSUME ~Concurrent
  PROVE  Spec => []CaInv
<1>1. Init => CaInv
  BY CaTypesInit DEF Init, CaInv, AloneUntilCreated, FilesInv, PhaseInv, Holds, Running,
     Loading, Creating, Trusting, Absent, Torn
<1>2. CaInv /\ [Next]_vars => CaInv'
  <2> SUFFICES ASSUME CaInv, [Next]_vars PROVE CaInv'
    OBVIOUS
  <2>1. TypeOK'
    BY CaTypesStep DEF CaInv
  <2>2. CASE Next
    BY <2>1, <2>2, CaStep DEF Next
  <2>3. CASE UNCHANGED vars
    BY <2>1, <2>3 DEF vars, files, store, CaInv, AloneUntilCreated, FilesInv, PhaseInv, Holds
  <2>4. QED BY <2>2, <2>3
<1>3. QED BY <1>1, <1>2, PTL DEF Spec

\* If a first use is alone, commands never pair a certificate with another CA's
\* key, all get the same CA, and the one a device trusts is the one every
\* share of the machine is minted from.
THEOREM FirstUseAloneIsSafe ==
  ASSUME ~Concurrent
  PROVE  Spec => [](CaPairMatches /\ OneCa /\ TrustedDevicesAccept)
<1>1. CaInv => CaPairMatches /\ OneCa /\ TrustedDevicesAccept
  BY DEF CaInv, FilesInv, PhaseInv, CaPairMatches, OneCa, TrustedDevicesAccept,
         Verifies
<1>2. QED BY <1>1, CaInvariance, PTL

\* ... and the files that hold it are written once.
THEOREM FirstUseAloneCreatesOnce ==
  ASSUME ~Concurrent
  PROVE  Spec => CreatedOnce
<1>1. CaInv /\ [Next]_vars
        => [(\E p \in Processes : Holds(p)) => UNCHANGED <<certFile, keyFile>>]_vars
  <2> SUFFICES ASSUME CaInv, Next, NEW h \in Processes, Holds(h)
               PROVE  UNCHANGED <<certFile, keyFile>>
    BY DEF vars, files
  <2>1. keyFile > Torn
    BY DEF CaInv, PhaseInv, TypeOK
  <2>2. \A p \in Processes :
          pc[p] \notin {"truncateCert", "writeCert", "truncateKey", "writeKey"}
    <3>1. keyFile # Absent /\ keyFile # Torn
      BY <2>1 DEF Absent, Torn
    <3>2. QED BY <3>1 DEF CaInv, PhaseInv
  <2>3. QED
    BY <2>2 DEF Next, Start, Load, Create, Install, Stop, CertExists, KeyExists,
       ReadCert, ReadKey, Parse, Generate, TruncateCert, WriteCert, TruncateKey,
       WriteKey, SetPermissions, CopyToStore, UpdateStore, files
<1>2. QED BY <1>1, CaInvariance, PTL DEF Spec, CreatedOnce
------------------------------------------------------------------------------
(***************************************************************************)
(* The refinement.  The CA comes to be with the write that completes the   *)
(* key file; a command mints from it once its checks, or its writes, are   *)
(* through; every other step of a command stutters.                        *)
(***************************************************************************)
TheCa == IF keyFile > Torn THEN <<certFile, keyFile>> ELSE <<Absent, Absent>>
Mints == [p \in Processes |-> IF Holds(p) THEN <<cert[p], key[p]>> ELSE <<Absent, Absent>>]

LEMMA CaInitMaps == Init => Contract!Init
BY DEF Init, Contract!Init, Contract!NoCa, Holds, Trusting, Absent, Torn

\* A command that holds a CA holds the one of the files, which is there.
LEMMA HolderHasTheCa ==
  ASSUME CaInv, NEW p \in Processes, Holds(p)
  PROVE  keyFile > Torn /\ TheCa = <<cert[p], key[p]>> /\ Mints[p] = TheCa
BY DEF CaInv, PhaseInv, TheCa, Mints, Holds

\* What a step of p does to the commands' CAs: nothing, unless p gets it or
\* gives it up.
LEMMA MintsOf ==
  ASSUME CaInv', NEW p \in Processes,
         \A q \in Processes \ {p} :
           pc'[q] = pc[q] /\ cert'[q] = cert[q] /\ key'[q] = key[q]
  PROVE  /\ ~Holds(p) /\ ~Holds(p)' => Mints' = Mints
         /\ Holds(p) /\ Holds(p)' /\ cert'[p] = cert[p] /\ key'[p] = key[p]
               => Mints' = Mints
         /\ Holds(p)'  => Mints' = [Mints EXCEPT ![p] = TheCa']
         /\ ~Holds(p)' => Mints' = [Mints EXCEPT ![p] = <<Absent, Absent>>]
<1>1. \A q \in Processes \ {p} : Mints'[q] = Mints[q]
  BY DEF Mints, Holds
<1>2. Holds(p)' => Mints'[p] = TheCa'
  BY DEF CaInv, PhaseInv, TheCa, Mints, Holds
<1>3. ~Holds(p)' => Mints'[p] = <<Absent, Absent>>
  BY DEF Mints
<1>4. Mints = [q \in Processes |-> Mints[q]] /\ Mints' = [q \in Processes |-> Mints'[q]]
  BY DEF Mints
<1>5. ASSUME Holds(p), Holds(p)', cert'[p] = cert[p], key'[p] = key[p]
      PROVE  Mints'[p] = Mints[p]
  BY <1>5 DEF Mints
<1>6. ASSUME ~Holds(p), ~Holds(p)' PROVE Mints'[p] = Mints[p]
  BY <1>6 DEF Mints
<1>7. QED BY <1>1, <1>2, <1>3, <1>4, <1>5, <1>6

\* Of p's own step only p's phase and CA are written.
LEMMA OthersKeep ==
  ASSUME TypeOK, NEW p \in Processes,
         Start(p) \/ Load(p) \/ Create(p) \/ Install(p) \/ Stop(p)
  PROVE  \A q \in Processes \ {p} :
           pc'[q] = pc[q] /\ cert'[q] = cert[q] /\ key'[q] = key[q]
BY DEF TypeOK, Start, Load, Create, Install, Stop, CertExists, KeyExists, ReadCert,
   ReadKey, Parse, Generate, TruncateCert, WriteCert, TruncateKey, WriteKey,
   SetPermissions, CopyToStore, UpdateStore, Goto, Proceed

\* The contract's state, as the refinement maps to it.
LEMMA ContractState ==
  /\ Contract!vars = <<TheCa, Mints, trusted>>
  /\ Contract!vars' = <<TheCa', Mints', trusted'>>
BY DEF Contract!vars, TheCa, Mints

\* The steps that the contract does not see.
LEMMA QuietSteps ==
  ASSUME CaInv, CaInv', NEW p \in Processes,
         \/ Start(p) \/ CertExists(p) \/ KeyExists(p) \/ ReadCert(p) \/ ReadKey(p)
         \/ Generate(p) \/ TruncateCert(p) \/ WriteCert(p) \/ TruncateKey(p)
         \/ CopyToStore(p)
  PROVE  UNCHANGED Contract!vars
<1> USE DEF CaInv, TypeOK, Goto, Holds, Trusting, files, store, Absent, Torn
<1>1. Mints' = Mints
  <2>1. \A q \in Processes \ {p} :
          pc'[q] = pc[q] /\ cert'[q] = cert[q] /\ key'[q] = key[q]
    BY OthersKeep DEF Load, Create, Install
  <2>2. CASE CopyToStore(p)
    BY <2>1, <2>2, MintsOf DEF CopyToStore
  <2>3. CASE ~CopyToStore(p)
    <3>1. ~Holds(p) /\ ~Holds(p)'
      BY <2>3 DEF Start, CertExists, KeyExists, ReadCert, ReadKey, Generate,
         TruncateCert, WriteCert, TruncateKey
    <3>2. QED BY <2>1, <3>1, MintsOf
  <2>4. QED BY <2>2, <2>3
<1>2. TheCa' = TheCa
  BY DEF TheCa, PhaseInv, Start, CertExists, KeyExists, ReadCert, ReadKey, Generate,
     TruncateCert, WriteCert, TruncateKey, CopyToStore, Creating
<1>3. trusted' = trusted
  BY DEF Start, CertExists, KeyExists, ReadCert, ReadKey, Generate, TruncateCert,
     WriteCert, TruncateKey, CopyToStore
<1>4. QED BY <1>1, <1>2, <1>3, ContractState

\* The other steps, one by one.
LEMMA CaSimulates ==
  ASSUME CaInv, CaInv', NEW p \in Processes,
         Start(p) \/ Load(p) \/ Create(p) \/ Install(p) \/ Stop(p)
  PROVE  [Contract!Next]_(Contract!vars)
<1> USE DEF CaInv, TypeOK, Goto, Proceed, files, store, Absent, Torn
<1>a. \A q \in Processes \ {p} :
        pc'[q] = pc[q] /\ cert'[q] = cert[q] /\ key'[q] = key[q]
  BY OthersKeep
<1>1. CASE \/ Start(p) \/ CertExists(p) \/ KeyExists(p) \/ ReadCert(p) \/ ReadKey(p)
           \/ Generate(p) \/ TruncateCert(p) \/ WriteCert(p) \/ TruncateKey(p)
           \/ CopyToStore(p)
  BY <1>1, QuietSteps
<1>2. CASE WriteKey(p)
  <2>1. Mints' = Mints
    <3>1. ~Holds(p) /\ ~Holds(p)'
      BY <1>2 DEF WriteKey, Holds, Trusting
    <3>2. QED BY <1>a, <3>1, MintsOf
  <2>2. /\ TheCa = <<Absent, Absent>>
        /\ TheCa' = <<cert[p], cert[p]>> /\ cert[p] > Torn
    BY <1>2 DEF WriteKey, TheCa, PhaseInv, Creating
  <2>3. trusted' = trusted
    BY <1>2 DEF WriteKey
  <2>4. Contract!Create
    BY <2>1, <2>2, <2>3 DEF Contract!Create, Contract!NoCa, TheCa, Mints
  <2>5. QED BY <2>4 DEF Contract!Next
<1>3. CASE Parse(p) \/ SetPermissions(p)
  <2>1. TheCa' = TheCa /\ trusted' = trusted
    BY <1>3 DEF Parse, SetPermissions, TheCa
  <2>2. CASE Holds(p)'
    <3>1. Mints' = [Mints EXCEPT ![p] = TheCa]
      BY <1>a, <2>1, <2>2, MintsOf
    <3>2. TheCa # <<Absent, Absent>>
      <4>1. (keyFile > Torn)'
        BY <2>2 DEF PhaseInv
      <4>2. TheCa' = <<certFile', keyFile'>> /\ keyFile' # Absent
        BY <4>1 DEF TheCa
      <4>3. QED BY <2>1, <4>2
    <3>3. Contract!Obtain(p)
      BY <2>1, <3>1, <3>2 DEF Contract!Obtain, Contract!NoCa, TheCa, Mints
    <3>4. QED BY <3>3 DEF Contract!Next
  <2>3. CASE ~Holds(p)'
    <3>1. ~Holds(p)
      BY <1>3 DEF Parse, SetPermissions, Holds, Trusting
    <3>2. Mints' = Mints
      BY <1>a, <2>3, <3>1, MintsOf
    <3>3. QED BY <2>1, <3>2, ContractState
  <2>4. QED BY <2>2, <2>3
<1>4. CASE UpdateStore(p)
  <2>1. Holds(p) /\ Holds(p)' /\ anchor = certFile
    BY <1>4 DEF UpdateStore, Holds, Trusting, PhaseInv
  <2>2. Mints' = Mints
    BY <1>4, <1>a, <2>1, MintsOf DEF UpdateStore
  <2>3. TheCa' = TheCa
    BY <1>4 DEF UpdateStore, TheCa
  <2>4. Mints[p] = TheCa /\ TheCa # <<Absent, Absent>> /\ trusted' = TheCa[1]
    BY <1>4, <2>1, HolderHasTheCa DEF UpdateStore, TheCa, PhaseInv
  <2>5. Contract!Trust
    BY <2>2, <2>3, <2>4 DEF Contract!Trust, Contract!NoCa, TheCa, Mints
  <2>6. QED BY <2>5 DEF Contract!Next
<1>5. CASE Stop(p)
  <2>1. TheCa' = TheCa /\ trusted' = trusted
    BY <1>5 DEF Stop, TheCa
  <2>2. CASE Holds(p)'
    <3>1. Holds(p) /\ cert'[p] = cert[p] /\ key'[p] = key[p]
      BY <1>5, <2>2 DEF Stop, Holds, Trusting
    <3>2. Mints' = Mints
      BY <1>a, <2>2, <3>1, MintsOf
    <3>3. QED BY <2>1, <3>2, ContractState
  <2>3. CASE ~Holds(p)'
    <3>1. Mints' = [Mints EXCEPT ![p] = <<Absent, Absent>>]
      BY <1>a, <2>3, MintsOf
    <3>2. Contract!Release(p)
      BY <2>1, <3>1 DEF Contract!Release, Contract!NoCa, TheCa, Mints
    <3>3. QED BY <3>2 DEF Contract!Next
  <2>4. QED BY <2>2, <2>3
<1>6. QED
  BY <1>1, <1>2, <1>3, <1>4, <1>5 DEF Load, Create, Install

\* If a first use is alone, the files and the trust store keep the contract of
\* the CA: it is created at most once, and every command that gets it, and
\* every device that trusts it, has that one, whatever is interrupted.
THEOREM FirstUseAloneKeepsContract ==
  ASSUME ~Concurrent
  PROVE  Spec => KeepsCaContract
<1>1. CaInv /\ CaInv' /\ [Next]_vars => [Contract!Next]_(Contract!vars)
  <2> SUFFICES ASSUME CaInv, CaInv', [Next]_vars
               PROVE  [Contract!Next]_(Contract!vars)
    OBVIOUS
  <2>1. CASE Next
    BY <2>1, CaSimulates DEF Next
  <2>2. CASE UNCHANGED vars
    <3>1. TheCa' = TheCa /\ Mints' = Mints /\ trusted' = trusted
      BY <2>2 DEF vars, files, store, TheCa, Mints, Holds
    <3>2. QED BY <3>1, ContractState
  <2>3. QED BY <2>1, <2>2
<1>2. QED
  BY <1>1, CaInitMaps, CaInvariance, PTL DEF Spec, KeepsCaContract, Contract!Spec
==============================================================================
