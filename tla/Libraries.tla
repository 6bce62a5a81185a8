----------------------------- MODULE Libraries -----------------------------
(***************************************************************************)
(* mkfli4l adds the shared libraries the chosen programs need, in the      *)
(* archive of the program or an earlier one (ziplist/optlibs.c).  It goes  *)
(* down the dependencies of each primary ELF file, and every file keeps    *)
(* what its dependencies were resolved to, for the programs after it.      *)
(* Files have one place each, and one file of a directory has a soname.    *)
(* No library needs itself, directly or not: the code would not return.    *)
(***************************************************************************)
EXTENDS Integers, FiniteSets, Sequences

CONSTANTS
  ElfFiles,   \* ELF files that may be in the archives
  Symlinks,   \* and symbolic links
  DirOf, SonameOf,
  RpathOf,    \* RPATH of an ELF file, or None
  NeededBy,   \* the sonames a file needs, in their order
  Shipped,    \* the ELF files there are below opt/
  None,       \* NULL
  Choices     \* what the packages may choose: functions from files to archives

VARIABLES
  files_array,  \* the archive list, in its order
  ziptgt, secondary,
  file,         \* dep->file of each needed entry of each file
  root,         \* the place of the file whose dependencies are resolved
  stack,        \* calls of resolve_dependencies(): file, next need, result
  failed,       \* result of resolve_library_dependencies()
  chosen        \* history: the archives the packages have chosen

vars == <<files_array, ziptgt, secondary, file, root, stack, failed, chosen>>

ZIP_TGT_UNKNOWN == 0
Files == ElfFiles \cup Symlinks
Targets == 0 .. 2   \* ROOTFS is 1, OPT is 2
Listed == {f \in Files : ziptgt[f] # ZIP_TGT_UNKNOWN}

TypeOK ==
  /\ files_array \in Seq(Files)
  /\ ziptgt \in [Files -> Targets] /\ chosen \in [Files -> Targets]
  /\ secondary \in [Files -> BOOLEAN]
  /\ \A f \in Files : file[f] \in [DOMAIN NeededBy[f] -> Files \cup {None}]
  /\ root \in 1 .. Len(files_array) + 1
  /\ stack \in Seq([entry : Files, i : Nat \ {0}, result : BOOLEAN])
  /\ failed \in BOOLEAN

(* The list as the packages have filled it, in any order. *)
Orders(S) ==
  {s \in [1 .. Cardinality(S) -> S] : \A j, k \in DOMAIN s : s[j] = s[k] => j = k}

Init ==
  /\ ziptgt \in Choices /\ chosen = ziptgt
  /\ files_array \in Orders(Listed)
  /\ secondary = [f \in Files |-> FALSE]
  /\ file = [f \in Files |-> [j \in DOMAIN NeededBy[f] |-> None]]
  /\ root = 1
  /\ stack = <<>>
  /\ failed = FALSE

-----------------------------------------------------------------------------
(* Look-ups *)

GlobalPath == <<"/lib", "/usr/lib">>
SearchPath(r) == (IF RpathOf[r] = None THEN <<>> ELSE <<RpathOf[r]>>) \o GlobalPath

(* The file of S in the first directory of the path that holds one. *)
FirstIn(path, S) ==
  LET hits == {j \in DOMAIN path : \E f \in S : DirOf[f] = path[j]}
  IN IF hits = {} THEN None
     ELSE LET first == CHOOSE j \in hits : \A k \in hits : j <= k
          IN CHOOSE f \in S : DirOf[f] = path[first]

Named(soname, S) == {f \in S : SonameOf[f] = soname}

(* try_to_resolve_dependency: a file of the archives, or a link. *)
try_to_resolve(r, soname) ==
  LET f == FirstIn(SearchPath(r), Named(soname, Listed \cap ElfFiles))
  IN IF f # None THEN f
     ELSE FirstIn(<<"/usr/lib", "/lib">>, Named(soname, Listed \cap Symlinks))

(* add_dependency: the file that is added to them. *)
to_add(r, soname) == FirstIn(SearchPath(r), Named(soname, Shipped))

-----------------------------------------------------------------------------
(* resolve_library_dependencies *)

AtRoots == stack = <<>> /\ root <= Len(files_array)
IsPrimary(f) == f \in ElfFiles /\ ~secondary[f]

StartRoot ==
  /\ AtRoots /\ IsPrimary(files_array[root])
  /\ stack' = <<[entry |-> files_array[root], i |-> 1, result |-> TRUE]>>
  /\ UNCHANGED <<files_array, ziptgt, secondary, file, root, failed, chosen>>

SkipRoot ==
  /\ AtRoots /\ ~IsPrimary(files_array[root])
  /\ root' = root + 1
  /\ UNCHANGED <<files_array, ziptgt, secondary, file, stack, failed, chosen>>

(* resolve_dependencies *)
Depth == Len(stack)
Depender == stack[Depth].entry
Need == stack[Depth].i
Root == files_array[root]

Working == stack # <<>> /\ Need <= Len(NeededBy[Depender])
Soname == NeededBy[Depender][Need]
Resolved == IF file[Depender][Need] # None THEN file[Depender][Need]
                                           ELSE try_to_resolve(Root, Soname)

(* Goes on with the dependencies of f. *)
Descend(f) ==
  /\ file' = [file EXCEPT ![Depender][Need] = f]
  /\ stack' = Append([stack EXCEPT ![Depth].i = @ + 1],
                     [entry |-> f, i |-> 1, result |-> TRUE])
  /\ UNCHANGED <<root, failed, chosen>>

(* Faulty variant: does not go through the dependencies of a file that is   *)
(* in the archive already.                                                 *)
FaultyPresent ==
  /\ Working /\ Resolved # None
  /\ ziptgt' = IF stack[Depth].result /\ ziptgt[Root] < ziptgt[Resolved]
               THEN [ziptgt EXCEPT ![Resolved] = ziptgt[Root]] ELSE ziptgt
  /\ file' = [file EXCEPT ![Depender][Need] = Resolved]
  /\ stack' = [stack EXCEPT ![Depth].i = @ + 1]
  /\ UNCHANGED <<files_array, secondary, root, failed, chosen>>

(* Moves it if the root is in an earlier archive. *)
Present ==
  /\ Working /\ Resolved # None
  /\ ziptgt' = IF stack[Depth].result /\ ziptgt[Root] < ziptgt[Resolved]
               THEN [ziptgt EXCEPT ![Resolved] = ziptgt[Root]] ELSE ziptgt
  /\ Descend(Resolved)
  /\ UNCHANGED <<files_array, secondary>>

Added ==
  /\ Working /\ Resolved = None
  /\ LET f == to_add(Root, Soname)
     IN /\ f # None
        /\ files_array' = Append(files_array, f)
        /\ ziptgt' = [ziptgt EXCEPT ![f] = ziptgt[Root]]
        /\ secondary' = [secondary EXCEPT ![f] = TRUE]
        /\ Descend(f)

Missing ==
  /\ Working /\ Resolved = None /\ to_add(Root, Soname) = None
  /\ stack' = [stack EXCEPT ![Depth].i = @ + 1, ![Depth].result = FALSE]
  /\ UNCHANGED <<files_array, ziptgt, secondary, file, root, failed, chosen>>

Return ==
  /\ stack # <<>> /\ ~Working
  /\ LET below == SubSeq(stack, 1, Depth - 1)
         result == stack[Depth].result
     IN IF below # <<>>
        THEN /\ stack' = [below EXCEPT ![Depth - 1].result = @ /\ result]
             /\ UNCHANGED <<root, failed>>
        ELSE /\ stack' = below
             /\ root' = root + 1
             /\ failed' = (failed \/ ~result)
  /\ UNCHANGED <<files_array, ziptgt, secondary, file, chosen>>

Next == StartRoot \/ SkipRoot \/ Present \/ Added \/ Missing \/ Return

(* mkfli4l runs on. *)
FairSpec == Init /\ [][Next]_vars /\ WF_vars(Next)

-----------------------------------------------------------------------------
(* Properties *)

(* The files f brings with it, itself included. *)
Brings(f) ==
  {g \in Files :
     \A S \in SUBSET Files :
       f \in S /\ (\A s \in S : \A j \in DOMAIN file[s] : file[s][j] \in S \cup {None})
         => g \in S}

Done == stack = <<>> /\ root > Len(files_array)

(* The chosen files a file is in the archives for. *)
For(g) == {f \in Files : chosen[f] # ZIP_TGT_UNKNOWN
                          /\ (g = f \/ (f \in ElfFiles /\ g \in Brings(f)))}

(* All that a chosen ELF file needs has been found, and a file lies in an   *)
(* archive exactly if it was chosen or a chosen ELF file needs it, in the  *)
(* earliest archive one of these lies in.                                  *)
PlacedRight ==
  ~failed =>
    \A g \in Files :
      IF For(g) = {} THEN ziptgt[g] = ZIP_TGT_UNKNOWN
      ELSE /\ ziptgt[g] \in {chosen[f] : f \in For(g)}
           /\ \A f \in For(g) : ziptgt[g] <= chosen[f]
           /\ \A j \in DOMAIN file[g] : g \in ElfFiles => file[g][j] # None

(* The search ends, and then the files are where they belong unless it has  *)
(* failed: whatever the order of the list, and although files are added to *)
(* it and programs are moved, as dependencies of others, after their turn. *)
LibrariesPlaced == <>(Done /\ PlacedRight)
=============================================================================
