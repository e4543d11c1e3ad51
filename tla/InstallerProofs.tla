--------------------------- MODULE InstallerProofs ---------------------------
(***************************************************************************)
(* The installer's safety properties, for every set of tracked files and   *)
(* of wheels, and for any number of runs, each of which may be cut short   *)
(* anywhere.                                                               *)
(***************************************************************************)
EXTENDS Installer, TLAPS

Deploying == pc \in {"backup", "copy"}
Patching == pc \in {"wrap", "import"}
InRun == Deploying \/ Patching \/ pc = "build"

\* What the run still has to copy: what `deploy` was not called on yet, and
\* the file it is at.
Pending == todo \cup (IF Deploying THEN {file} ELSE {})

\* The run deploys the tracked files first, then the extension, which it is at
\* only when none is left and it was not told to skip it.
InOrder ==
  /\ Deploying => \/ file \in Files \ todo
                  \/ file = So /\ todo = {} /\ ~ skip
  /\ Patching => file = Wrapper /\ todo = {} /\ ~ skip
  /\ pc = "build" => todo = {}

\* What is no longer pending is ours.
DeployedSoFar ==
  /\ InRun => \A f \in Files \ Pending : content[f] = Ours
  /\ Patching \/ (pc = "build" /\ ~ skip) => content[So] = Ours
  /\ pc = "build" /\ ~ skip => content[Wrapper] \in Importable

\* We never write a file before it has a backup, whole or not.
BackedBeforeWritten == pc = "copy" => backup[file] # NoCopy

\* The inductive invariant.
IInv ==
  /\ TypeOK /\ InOrder /\ DeployedSoFar /\ BackedBeforeWritten
  /\ CompleteMeansPatched /\ BackupIsOriginal

-------------------------------------------------------------------------------
\* The files differ, and so do their possible contents.
LEMMA Distinct ==
  /\ So \notin Files /\ Wrapper \notin Files /\ So # Wrapper
  /\ NoCopy \notin Wheels /\ NoCopy # TornBackup /\ Ours \in Importable
BY InstallerAssumption DEF Ours, TornBackup, NoCopy, Importable

LEMMA Bounds == MaxCrashes \in Nat /\ MaxRuns \in Nat
BY InstallerAssumption

LEMMA InitInv == Init => IInv
<1> SUFFICES ASSUME Init PROVE IInv
  OBVIOUS
<1>1. TypeOK
  <2>1. crashes \in 0 .. MaxCrashes /\ runs \in 0 .. MaxRuns
    BY Bounds DEF Init
  <2> QED
    BY <2>1 DEF Init, TypeOK, Installed
<1>2. InOrder /\ DeployedSoFar /\ CompleteMeansPatched
  BY DEF Init, InOrder, DeployedSoFar, CompleteMeansPatched, InRun, Deploying, Patching
<1>3. BackedBeforeWritten /\ BackupIsOriginal
  BY DEF Init, BackedBeforeWritten, BackupIsOriginal, Backed, Installed
<1> QED
  BY <1>1, <1>2, <1>3 DEF IInv

LEMMA InstallWheelInv ==
  ASSUME IInv, NEW w \in Wheels, InstallWheel(w)
  PROVE  IInv'
<1>1. /\ pc' = "idle" /\ wheel' = w /\ content' = [f \in Installed |-> w]
      /\ UNCHANGED <<backup, file, crashes, todo, skip, runs>>
  BY DEF InstallWheel, run
<1>2. TypeOK'
  BY <1>1 DEF IInv, TypeOK
<1>3. (InOrder /\ DeployedSoFar /\ CompleteMeansPatched)'
  BY <1>1 DEF InOrder, DeployedSoFar, CompleteMeansPatched, InRun, Deploying, Patching
<1>4. (BackedBeforeWritten /\ BackupIsOriginal)'
  BY <1>1 DEF IInv, BackedBeforeWritten, BackupIsOriginal, Backed, Installed
<1> QED
  BY <1>2, <1>3, <1>4 DEF IInv

LEMMA StartInv == IInv /\ Start => IInv'
<1> SUFFICES ASSUME IInv, Start PROVE IInv'
  OBVIOUS
<1>1. /\ runs < MaxRuns /\ runs' = runs + 1 /\ pc' = "backup" /\ file' \in Files
      /\ todo' = Files \ {file'} /\ skip' \in BOOLEAN
      /\ UNCHANGED <<content, backup, wheel, crashes>>
  BY DEF Start
<1>2. TypeOK'
  <2>1. runs' \in 0 .. MaxRuns
    BY <1>1, Bounds DEF IInv, TypeOK
  <2> QED
    BY <1>1, <2>1 DEF IInv, TypeOK, Installed, Backed
<1>3. (InOrder /\ DeployedSoFar /\ CompleteMeansPatched)'
  BY <1>1 DEF InOrder, DeployedSoFar, CompleteMeansPatched, InRun, Deploying, Patching, Pending
<1>4. (BackedBeforeWritten /\ BackupIsOriginal)'
  BY <1>1 DEF IInv, BackedBeforeWritten, BackupIsOriginal
<1> QED
  BY <1>2, <1>3, <1>4 DEF IInv

LEMMA BackupInv == IInv /\ Backup => IInv'
<1> SUFFICES ASSUME IInv, Backup PROVE IInv'
  OBVIOUS
<1>1. /\ pc = "backup" /\ pc' = "copy"
      /\ backup' = [backup EXCEPT ![file] = IF backup[file] = NoCopy THEN content[file]
                                            ELSE backup[file]]
      /\ UNCHANGED <<content, wheel, file, crashes, todo, skip, runs>>
  BY DEF Backup, run
<1>2. file \in Backed
  BY <1>1 DEF IInv, InOrder, Deploying, Backed
<1>3. backup'[file] # NoCopy /\ backup'[file] \in Wheels \cup {TornBackup}
  BY <1>1, <1>2, Distinct DEF IInv, TypeOK, BackedBeforeWritten, BackupIsOriginal
<1>4. TypeOK'
  BY <1>1, <1>2, <1>3 DEF IInv, TypeOK
<1>5. (InOrder /\ DeployedSoFar /\ CompleteMeansPatched)'
  BY <1>1 DEF IInv, InOrder, DeployedSoFar, CompleteMeansPatched, InRun, Deploying, Patching,
              Pending
<1>6. (BackedBeforeWritten /\ BackupIsOriginal)'
  BY <1>1, <1>2, <1>3 DEF IInv, TypeOK, BackedBeforeWritten, BackupIsOriginal
<1> QED
  BY <1>4, <1>5, <1>6 DEF IInv

LEMMA CopyInv == IInv /\ Copy => IInv'
<1> SUFFICES ASSUME IInv, Copy PROVE IInv'
  OBVIOUS
<1>1. /\ pc = "copy" /\ Advance
      /\ content' = [content EXCEPT ![file] = Ours]
      /\ UNCHANGED <<backup, wheel, crashes, skip, runs>>
  BY DEF Copy
<1>2. \/ file \in Files \ todo
      \/ file = So /\ todo = {} /\ ~ skip
  BY <1>1 DEF IInv, InOrder, Deploying
<1>3. /\ content' \in [Installed -> Wheels \cup {Ours} \cup TornWrappers]
      /\ content'[file] = Ours
      /\ \A f \in Files \ todo : content'[f] = Ours
  BY <1>1, <1>2 DEF IInv, TypeOK, Installed, Backed, DeployedSoFar, InRun, Pending, Deploying
<1>4. \/ pc' = "backup" /\ file' \in todo /\ todo' = todo \ {file'}
      \/ pc' = "build" /\ skip /\ todo = {} /\ todo' = {} /\ file' = So
      \/ pc' = "backup" /\ ~ skip /\ todo = {} /\ todo' = {} /\ file' = So
      \/ pc' = "wrap" /\ ~ skip /\ file = So /\ todo = {} /\ todo' = {} /\ file' = Wrapper
  BY <1>1, <1>2, Distinct DEF Advance
<1>5. TypeOK'
  BY <1>1, <1>3, <1>4 DEF IInv, TypeOK, Installed, Backed
<1>6. InOrder'
  BY <1>1, <1>4 DEF IInv, TypeOK, InOrder, Deploying, Patching
<1>7. DeployedSoFar'
  BY <1>1, <1>3, <1>4 DEF DeployedSoFar, InRun, Deploying, Patching, Pending
<1>8. CompleteMeansPatched'
  BY <1>4 DEF CompleteMeansPatched
<1>9. (BackedBeforeWritten /\ BackupIsOriginal)'
  <2>1. pc' # "copy" /\ backup[file] # NoCopy
    BY <1>1, <1>4 DEF IInv, BackedBeforeWritten, BackupIsOriginal
  <2>2. \A f \in Backed : f # file => content'[f] = content[f]
    BY <1>1 DEF IInv, TypeOK, Installed
  <2> QED
    BY <1>1, <2>1, <2>2 DEF IInv, BackedBeforeWritten, BackupIsOriginal
<1> QED
  BY <1>5, <1>6, <1>7, <1>8, <1>9 DEF IInv

LEMMA WrapInv == IInv /\ (Wrap \/ WrapRefuses) => IInv'
<1> SUFFICES ASSUME IInv, Wrap \/ WrapRefuses PROVE IInv'
  OBVIOUS
<1>1. /\ pc = "wrap" /\ pc' \in {"import", "died"}
      /\ \/ content' = content
         \/ content' = [content EXCEPT ![Wrapper] = Ours]
      /\ UNCHANGED <<backup, wheel, file, crashes, todo, skip, runs>>
  <2>1. CASE Wrap
    <3>1. content' = [content EXCEPT ![Wrapper] = content[Wrapper]] => content' = content
      BY DEF IInv, TypeOK
    <3> QED
      BY <2>1, <3>1 DEF Wrap, run
  <2> QED
    BY <2>1 DEF WrapRefuses, run
<1>2. \A f \in Backed : content'[f] = content[f]
  BY <1>1, Distinct DEF IInv, TypeOK, Backed, Installed
<1>3. TypeOK'
  BY <1>1 DEF IInv, TypeOK
<1>4. (InOrder /\ DeployedSoFar /\ CompleteMeansPatched)'
  BY <1>1, <1>2 DEF IInv, InOrder, DeployedSoFar, CompleteMeansPatched, InRun, Deploying,
                    Patching, Pending, Backed
<1>5. (BackedBeforeWritten /\ BackupIsOriginal)'
  BY <1>1, <1>2 DEF IInv, BackedBeforeWritten, BackupIsOriginal
<1> QED
  BY <1>3, <1>4, <1>5 DEF IInv

LEMMA ImportInv == IInv /\ Import => IInv'
<1> SUFFICES ASSUME IInv, Import PROVE IInv'
  OBVIOUS
<1>1. /\ pc = "import" /\ pc' \in {"build", "died"}
      /\ pc' = "build" => content[Wrapper] \in Importable
      /\ UNCHANGED <<content, backup, wheel, file, crashes, todo, skip, runs>>
  BY DEF Import, run
<1>2. TypeOK'
  BY <1>1 DEF IInv, TypeOK
<1>3. (InOrder /\ DeployedSoFar /\ CompleteMeansPatched)'
  BY <1>1 DEF IInv, InOrder, DeployedSoFar, CompleteMeansPatched, InRun, Deploying, Patching,
              Pending
<1>4. (BackedBeforeWritten /\ BackupIsOriginal)'
  BY <1>1 DEF IInv, BackedBeforeWritten, BackupIsOriginal
<1> QED
  BY <1>2, <1>3, <1>4 DEF IInv

LEMMA BuildInv == IInv /\ Build => IInv'
<1> SUFFICES ASSUME IInv, Build PROVE IInv'
  OBVIOUS
<1>1. /\ pc = "build" /\ pc' \in {"complete", "died"}
      /\ UNCHANGED <<content, backup, wheel, file, crashes, todo, skip, runs>>
  BY DEF Build, run
<1>2. TypeOK'
  BY <1>1 DEF IInv, TypeOK
<1>3. (InOrder /\ DeployedSoFar)'
  BY <1>1 DEF IInv, InOrder, DeployedSoFar, InRun, Deploying, Patching
<1>4. CompleteMeansPatched'
  BY <1>1 DEF IInv, InOrder, DeployedSoFar, CompleteMeansPatched, InRun, Deploying, Pending,
              Installed, Backed
<1>5. (BackedBeforeWritten /\ BackupIsOriginal)'
  BY <1>1 DEF IInv, BackedBeforeWritten, BackupIsOriginal
<1> QED
  BY <1>2, <1>3, <1>4, <1>5 DEF IInv

LEMMA CrashInv == IInv /\ Crash => IInv'
<1> SUFFICES ASSUME IInv, Crash PROVE IInv'
  OBVIOUS
<1>1. /\ pc' = "died" /\ crashes < MaxCrashes /\ crashes' = crashes + 1
      /\ UNCHANGED <<wheel, file, todo, skip, runs>>
      /\ \/ UNCHANGED <<content, backup>>
         \/ /\ pc = "backup" /\ backup' = [backup EXCEPT ![file] = TornBackup]
            /\ UNCHANGED content
         \/ /\ pc = "copy" /\ content' = [content EXCEPT ![file] = Torn]
            /\ UNCHANGED backup
         \/ /\ \E cut \in TornWrappers : content' = [content EXCEPT ![Wrapper] = cut]
            /\ UNCHANGED backup
  BY DEF Crash, run
<1>2. TypeOK'
  <2>1. crashes' \in 0 .. MaxCrashes
    BY <1>1, Bounds DEF IInv, TypeOK
  <2> QED
    BY <1>1, <2>1 DEF IInv, TypeOK, TornWrappers
<1>3. (InOrder /\ DeployedSoFar /\ CompleteMeansPatched)'
  BY <1>1 DEF InOrder, DeployedSoFar, CompleteMeansPatched, InRun, Deploying, Patching
<1>4. \A f \in Backed : \/ backup'[f] = backup[f] /\ content'[f] = content[f]
                        \/ backup'[f] = backup[f] /\ backup[f] # NoCopy
                        \/ backup'[f] = TornBackup
  BY <1>1, Distinct DEF IInv, TypeOK, BackedBeforeWritten, Backed, Installed
<1>5. (BackedBeforeWritten /\ BackupIsOriginal)'
  BY <1>1, <1>4 DEF IInv, BackedBeforeWritten, BackupIsOriginal
<1> QED
  BY <1>2, <1>3, <1>5 DEF IInv

LEMMA StepInv == IInv /\ [Next]_vars => IInv'
<1> SUFFICES ASSUME IInv, [Next]_vars PROVE IInv'
  OBVIOUS
<1>1. CASE UNCHANGED vars
  <2>1. (TypeOK /\ InOrder)'
    BY <1>1 DEF IInv, TypeOK, InOrder, Deploying, Patching, vars
  <2>2. (DeployedSoFar /\ BackedBeforeWritten /\ CompleteMeansPatched /\ BackupIsOriginal)'
    BY <1>1 DEF IInv, DeployedSoFar, BackedBeforeWritten, BackupIsOriginal,
                CompleteMeansPatched, InRun, Deploying, Patching, Pending, vars
  <2> QED
    BY <2>1, <2>2 DEF IInv
<1> QED
  BY <1>1, InstallWheelInv, StartInv, BackupInv, CopyInv, WrapInv, ImportInv, BuildInv, CrashInv
  DEF Next

LEMMA Invariant == Spec => []IInv
BY InitInv, StepInv, PTL DEF Spec

-------------------------------------------------------------------------------
\* Every variable stays in its type.
THEOREM TypeCorrect == Spec => []TypeOK
<1>1. IInv => TypeOK
  BY DEF IInv
<1> QED
  BY <1>1, Invariant, PTL

\* A run that reports success has left every file it deploys whole and ours,
\* and a wrapper that imports with is_e4m3 in it, however many runs were cut
\* short before it, and wherever.
THEOREM SuccessIsWhole == Spec => []CompleteMeansPatched
<1>1. IInv => CompleteMeansPatched
  BY DEF IInv
<1> QED
  BY <1>1, Invariant, PTL

\* The wrapper is edited, and the kernels are built, over deployed files only.
THEOREM FilesDeployedFirst == Spec => []DeployedFirst
<1>1. IInv => DeployedFirst
  BY DEF IInv, InOrder, DeployedSoFar, DeployedFirst, InRun, Deploying, Patching, Pending
<1> QED
  BY <1>1, Invariant, PTL

\* No backup is ever of one of our files, whole or torn, and a file without a
\* backup is still a wheel's.
THEOREM OriginalsAreSafe == Spec => []BackupIsOriginal
<1>1. IInv => BackupIsOriginal
  BY DEF IInv
<1> QED
  BY <1>1, Invariant, PTL
===============================================================================
