--------------------------- MODULE KernelModules ---------------------------
(***************************************************************************)
(* mkfli4l puts kernel modules into two archives: the root file system,    *)
(* which is there from the start, and the opt archive, which is unpacked   *)
(* later (ziplist/kernmod.c).  A module needs its dependencies in its own  *)
(* archive or an earlier one; compute_modules_used() adds and moves        *)
(* modules until nothing changes any more.                                 *)
(***************************************************************************)
EXTENDS Integers

CONSTANTS
  NumModules,  \* module_array, in the order of modules.dep
  Unlisted     \* a module file modules.dep does not know

VARIABLES
  deps,     \* module->deps of each module
  files,    \* files_array: archive of each module file, or ZIP_TGT_UNKNOWN
  ziptgt,   \* module->ziptgt
  pc, i,    \* where resolve_dependencies() is, and the module it looks at
  loop, res,
  chosen    \* history: the files the packages have asked for

vars == <<deps, files, ziptgt, pc, i, loop, res, chosen>>

ZIP_TGT_UNKNOWN == 0
ZIP_TGT_ROOTFS == 1
ZIP_TGT_OPT == 2
Archives == {ZIP_TGT_ROOTFS, ZIP_TGT_OPT}
Targets == Archives \cup {ZIP_TGT_UNKNOWN}

Modules == 1 .. NumModules
Files == Modules \cup {Unlisted}

TypeOK ==
  /\ deps \in [Modules -> SUBSET Modules]
  /\ files \in [Files -> Targets] /\ chosen \in [Files -> Targets]
  /\ ziptgt \in [Modules -> Targets]
  /\ pc \in {"read", "compute", "add", "done"}
  /\ i \in 1 .. NumModules + 1
  /\ loop \in BOOLEAN /\ res \in {"OK", "ERR"}

Init ==
  /\ deps \in [Modules -> SUBSET Modules] /\ \A m \in Modules : m \notin deps[m]
  /\ files \in [Files -> Targets] /\ chosen = files
  /\ ziptgt = [m \in Modules |-> ZIP_TGT_UNKNOWN]
  /\ pc = "read" /\ i = 1
  /\ loop = TRUE /\ res = "OK"

(* compute_modules_used: the modules packages have asked for; a file        *)
(* modules.dep does not know is an error, reported at the end.             *)
ReadFiles ==
  /\ pc = "read" /\ pc' = "compute"
  /\ ziptgt' = [m \in Modules |-> files[m]]
  /\ res' = IF files[Unlisted] = ZIP_TGT_UNKNOWN THEN "OK" ELSE "ERR"
  /\ loop' = FALSE
  /\ UNCHANGED <<deps, files, i, chosen>>

(* Faulty variant: a module that is in an archive stays there. *)
FaultyMustMove(dep) ==
  ziptgt[i] # ZIP_TGT_UNKNOWN /\ dep \in deps[i] /\ ziptgt[dep] = ZIP_TGT_UNKNOWN

(* Adds or moves the dependencies of module i. *)
MustMove(dep) ==
  /\ ziptgt[i] # ZIP_TGT_UNKNOWN /\ dep \in deps[i]
  /\ ziptgt[dep] = ZIP_TGT_UNKNOWN \/ ziptgt[i] < ziptgt[dep]

PlaceDependencies ==
  /\ pc = "compute" /\ i <= NumModules
  /\ ziptgt' = [m \in Modules |-> IF MustMove(m) THEN ziptgt[i] ELSE ziptgt[m]]
  /\ loop' = (loop \/ \E m \in Modules : MustMove(m))
  /\ i' = i + 1
  /\ UNCHANGED <<deps, files, pc, res, chosen>>

(* while (loop) *)
NextRound ==
  /\ pc = "compute" /\ i > NumModules
  /\ i' = 1 /\ loop' = FALSE
  /\ pc' = IF loop THEN "compute" ELSE IF res = "OK" THEN "add" ELSE "done"
  /\ UNCHANGED <<deps, files, ziptgt, res, chosen>>

(* add_missing_modules; a file that is in the list already is moved if it   *)
(* must be in an earlier archive.  One that cannot be added, for its name, *)
(* its source or its options, is an error, but the others are added.       *)
add_zip_list_entry(m, tgt) ==
  files' = [files EXCEPT ![m] = IF @ = ZIP_TGT_UNKNOWN \/ tgt < @ THEN tgt ELSE @]

AddMissing ==
  /\ pc = "add" /\ i <= NumModules
  /\ i' = i + 1
  /\ \/ ziptgt[i] = ZIP_TGT_UNKNOWN /\ UNCHANGED <<files, res>>
     \/ ziptgt[i] # ZIP_TGT_UNKNOWN /\ add_zip_list_entry(i, ziptgt[i]) /\ UNCHANGED res
     \/ ziptgt[i] # ZIP_TGT_UNKNOWN /\ UNCHANGED files /\ res' = "ERR"
  /\ UNCHANGED <<deps, ziptgt, pc, loop, chosen>>

Finish ==
  /\ pc = "add" /\ i > NumModules
  /\ pc' = "done"
  /\ UNCHANGED <<deps, files, ziptgt, i, loop, res, chosen>>

Next == ReadFiles \/ PlaceDependencies \/ NextRound \/ AddMissing \/ Finish

(* mkfli4l runs on. *)
FairSpec == Init /\ [][Next]_vars /\ WF_vars(Next)

-----------------------------------------------------------------------------
(* Properties *)

(* What a module needs: it is in every set that holds the module and the    *)
(* dependencies of its members.                                            *)
Needs(m) ==
  {n \in Modules :
     \A S \in SUBSET Modules :
       m \in S /\ (\A s \in S : deps[s] \subseteq S) => n \in S}

Earliest(S) == IF S = {} THEN ZIP_TGT_UNKNOWN ELSE CHOOSE t \in S : \A u \in S : t <= u

(* The module belongs into the earliest archive a chosen module needs it in. *)
Wanted(m) == Earliest({chosen[n] : n \in {c \in Modules : chosen[c] # ZIP_TGT_UNKNOWN
                                                          /\ m \in Needs(c)}})

(* Every module lies in the earliest archive some chosen module needs it    *)
(* in, and modules nobody needs lie in none.                               *)
PlacedRight == res = "OK" => \A m \in Modules : files[m] = Wanted(m)

(* The search ends, and then the modules are where they belong unless an    *)
(* error was reported: whatever the order of modules.dep, and although     *)
(* modules are moved while the list is gone through, even in cycles.       *)
ModulesPlaced == <>(pc = "done" /\ PlacedRight)
=============================================================================
