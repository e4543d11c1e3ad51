------------------------------- MODULE Installer -------------------------------
(***************************************************************************)
(* skinny_install_stack (scripts/lib-install.sh), which both installers    *)
(* source: it backs up and overwrites the tracked files in site-packages,  *)
(* replaces the attention extension, edits its Python wrapper in place and *)
(* builds the kernels through the shim it has just deployed.               *)
(*                                                                         *)
(* Every copy truncates its target and then writes it, so a machine or a   *)
(* shell that dies in between leaves a torn file; the operator may run the *)
(* installer again, and may first install another wheel, which replaces    *)
(* the package's own files and leaves the backups (pip never recorded      *)
(* them).  The wheel, pip, nvcc and git are external.                      *)
(***************************************************************************)
EXTENDS Naturals

CONSTANTS
  Files,        \* the tracked files, the ones `deploy` is called on
  So,           \* the extension flash_attn_v100_cuda*.so
  Wrapper,      \* flash_attn_interface.py
  Wheels,       \* the wheels an operator may install
  MaxCrashes,   \* bound: how often a run is cut short
  MaxRuns       \* bound: how many runs there are

ASSUME InstallerAssumption ==
  /\ So \notin Files /\ Wrapper \notin Files /\ So # Wrapper
  /\ Wheels \cap {"ours", "none", "torn", "torn, with is_e4m3",
                   "torn, and imports", "torn backup"} = {}
  /\ MaxCrashes \in Nat /\ MaxRuns \in Nat

Backed == Files \cup {So}
Installed == Backed \cup {Wrapper}

\* What a file may hold: a wheel's own version, ours, or a copy of ours that was
\* cut short.  The wrapper may be cut before is_e4m3 appears in it, after that,
\* or so late that what is left is a module with all the names the import check
\* asks for.  A backup may be missing, or a wheel's file cut short.
Ours == "ours"
Torn == "torn"
TornMarked == "torn, with is_e4m3"
TornImports == "torn, and imports"
TornBackup == "torn backup"
NoCopy == "none"
TornWrappers == {Torn, TornMarked, TornImports}

\* The import check finds both functions, and is_e4m3 among the parameters of
\* the one it inspects.
Importable == {Ours, TornImports}

VARIABLES
  content,   \* content[f]: what site-packages has for f
  backup,    \* backup[f]: its .pre_bootstrap (or .pre_e4m3) copy
  wheel,     \* the wheel installed last
  pc,        \* "idle", the step of the run, and how it ended
  file,      \* the file the step is about
  todo,      \* the `deploy` calls this run has still to make
  skip,      \* SKINNY_SKIP_FA_PATCH=1 in this run
  crashes, runs
vars == <<content, backup, wheel, pc, file, todo, skip, crashes, runs>>
run == <<todo, skip, runs>>

Init ==
  /\ wheel \in Wheels
  /\ content = [f \in Installed |-> wheel]
  /\ backup = [f \in Backed |-> NoCopy]
  /\ pc = "idle" /\ file = Wrapper
  /\ todo = {} /\ skip = FALSE
  /\ crashes = 0 /\ runs = 0

-------------------------------------------------------------------------------
\* pip replaces the package's own files.  It does so only for a version that
\* is not the installed one.
InstallWheel(w) ==
  /\ pc \in {"idle", "complete", "died"}
  /\ w # wheel
  /\ wheel' = w
  /\ content' = [f \in Installed |-> w]
  /\ pc' = "idle"
  /\ UNCHANGED <<backup, file, crashes, run>>

(* A run starts with the first `deploy`.                                   *)
Start ==
  /\ pc \in {"idle", "complete", "died"}
  /\ runs < MaxRuns
  /\ runs' = runs + 1
  /\ pc' = "backup"
  /\ file' \in Files
  /\ todo' = Files \ {file'}
  /\ skip' \in BOOLEAN
  /\ UNCHANGED <<content, backup, wheel, crashes>>

\* A plausible slip: the backup taken on every run.
BackupAlways ==
  /\ pc = "backup"
  /\ backup' = [backup EXCEPT ![file] = content[file]]
  /\ pc' = "copy"
  /\ UNCHANGED <<content, wheel, file, crashes, run>>

(* [ -f dst.pre_bootstrap ] || cp -p dst dst.pre_bootstrap, and the same   *)
(* for the extension.                                                      *)
Backup ==
  /\ pc = "backup"
  /\ backup' = [backup EXCEPT ![file] = IF @ = NoCopy THEN content[file] ELSE @]
  /\ pc' = "copy"
  /\ UNCHANGED <<content, wheel, file, crashes, run>>

(* The next `deploy` (they touch different files, so any order will do),   *)
(* the extension, or the wrapper.                                          *)
Advance ==
  \/ /\ todo # {}
     /\ pc' = "backup" /\ file' \in todo /\ todo' = todo \ {file'}
  \/ /\ todo = {} /\ file \in Files
     /\ pc' = IF skip THEN "build" ELSE "backup"
     /\ file' = So /\ UNCHANGED todo
  \/ file = So /\ pc' = "wrap" /\ file' = Wrapper /\ UNCHANGED todo

\* A plausible slip: what an earlier run left of a copy taken for one made.
CopyOnce ==
  /\ pc = "copy"
  /\ content' = [content EXCEPT ![file] = IF @ = Torn THEN @ ELSE Ours]
  /\ Advance
  /\ UNCHANGED <<backup, wheel, crashes, skip, runs>>

(* cp over the installed file.                                             *)
Copy ==
  /\ pc = "copy"
  /\ content' = [content EXCEPT ![file] = Ours]
  /\ Advance
  /\ UNCHANGED <<backup, wheel, crashes, skip, runs>>

(* is_e4m3 is in the wrapper already, or it is threaded through.           *)
Wrap ==
  /\ pc = "wrap"
  /\ content[Wrapper] # Torn
  /\ content' = [content EXCEPT ![Wrapper] = IF @ \in Wheels THEN Ours ELSE @]
  /\ pc' = "import"
  /\ UNCHANGED <<backup, wheel, file, crashes, run>>

(* ... or it has not the shape the edit expects.                           *)
WrapRefuses ==
  /\ pc = "wrap"
  /\ content[Wrapper] = Torn
  /\ pc' = "died"
  /\ UNCHANGED <<content, backup, wheel, file, crashes, run>>

\* A plausible slip: the import check dropped.
ImportUnchecked ==
  /\ pc = "import"
  /\ pc' = "build"
  /\ UNCHANGED <<content, backup, wheel, file, crashes, run>>

(* The package is imported and one signature is inspected ...              *)
Import ==
  /\ pc = "import"
  /\ pc' = IF content[Wrapper] \in Importable THEN "build" ELSE "died"
  /\ UNCHANGED <<content, backup, wheel, file, crashes, run>>

(* ... and the kernels are built through the deployed shim.                *)
Build ==
  /\ pc = "build"
  /\ pc' \in {"complete", "died"}
  /\ UNCHANGED <<content, backup, wheel, file, crashes, run>>

(* The run is cut short: between two steps, or inside one that writes.     *)
Crash ==
  /\ pc \in {"backup", "copy", "wrap", "import", "build"}
  /\ crashes < MaxCrashes
  /\ crashes' = crashes + 1
  /\ pc' = "died"
  /\ \/ UNCHANGED <<content, backup>>
     \/ /\ pc = "backup" /\ backup[file] = NoCopy
        /\ backup' = [backup EXCEPT ![file] = TornBackup]
        /\ UNCHANGED content
     \/ /\ pc = "copy"
        /\ content' = [content EXCEPT ![file] = Torn]
        /\ UNCHANGED backup
     \/ /\ pc = "wrap" /\ content[Wrapper] \in Wheels
        /\ \E cut \in TornWrappers :
             content' = [content EXCEPT ![Wrapper] = cut]
        /\ UNCHANGED backup
  /\ UNCHANGED <<wheel, file, run>>

Next ==
  \/ \E w \in Wheels : InstallWheel(w)
  \/ Start \/ Backup \/ Copy \/ Wrap \/ WrapRefuses \/ Import \/ Build \/ Crash

Spec == Init /\ [][Next]_vars

-------------------------------------------------------------------------------
TypeOK ==
  /\ content \in [Installed -> Wheels \cup {Ours} \cup TornWrappers]
  /\ backup \in [Backed -> Wheels \cup {Ours, Torn, TornBackup, NoCopy}]
  /\ wheel \in Wheels
  /\ pc \in {"idle", "backup", "copy", "wrap", "import", "build", "complete", "died"}
  /\ file \in Installed /\ todo \subseteq Files /\ skip \in BOOLEAN
  /\ crashes \in 0 .. MaxCrashes /\ runs \in 0 .. MaxRuns

(* A run that reports success has repaired what earlier ones left: every   *)
(* tracked file is whole and ours, and unless it was told to skip them so  *)
(* is the extension, and the wrapper imports with is_e4m3 in it.           *)
CompleteMeansPatched ==
  pc = "complete" =>
    /\ \A f \in IF skip THEN Files ELSE Backed : content[f] = Ours
    /\ skip \/ content[Wrapper] \in Importable

(* The kernels are built, and the wrapper edited, over deployed files only *)
(* ("Calling the shim also proves the fork-patch deploy above landed").    *)
DeployedFirst ==
  pc \in {"wrap", "import", "build"} => \A f \in Files : content[f] = Ours

(* What the package had is never lost to a copy of ours: a file without a  *)
(* backup is still a wheel's, and a backup holds a wheel's file, or what a *)
(* run cut short wrote of one.  Nothing marks an installed file as ours, so*)
(* this rests on what earlier runs, whole or not, have left.               *)
BackupIsOriginal ==
  \A f \in Backed :
    \/ backup[f] = NoCopy /\ content[f] \in Wheels
    \/ backup[f] \in Wheels \cup {TornBackup}

(* What the import check is there for: "prove the E4M3 plumbing is present"*)
(* (lib-install.sh:123-124).                                               *)
PlumbingPresent == pc = "complete" /\ ~ skip => content[Wrapper] = Ours

(* What deploy says of itself: "keeping a .pre_bootstrap backup of whatever*)
(* was there" (lib-install.sh:25-26).                                      *)
BackupOfReplaced == pc = "complete" => \A f \in Files : backup[f] = wheel
===============================================================================
