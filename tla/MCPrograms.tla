----------------------------- MODULE MCPrograms -----------------------------
(***************************************************************************)
(* Bounded instances of the parts written in C, which run in programs, or  *)
(* at times, of their own and share nothing: a behaviour is one of         *)
(* `program', and the others stand still in their initial state.           *)
(***************************************************************************)
EXTENDS Imond

CONSTANTS
  isdn1, isdn2, dsl, isp, peer,               \* imond
  MAX_CLIENTS, Passwords, NoPass, Years,
  key1, key2, key3, a1, a2, b1, b2, c1, Hole,          \* the hash map
  NumModules, Unlisted,                       \* the archives
  pppd, ip, libc, libcrypt, libcrypt_own, libz, libm, link, None

VARIABLES
  program,
  imond_pass, imond_admin_pass, open, password_state, salted, local, given,
  last_year, holidays,
  entries, home, free_entries, num_entries, destroyed, destructs, in_destroy,
  deps, files, ziptgt, pc, i, loop, res, chosen,
  files_array, file_ziptgt, secondary, file, root, stack, failed, file_chosen

(* isdn1 may use both channels and is dialled in to as well; isdn2 belongs  *)
(* to the same provider; dsl takes over in hour 1, and nothing in hour 2.  *)
MCLines == <<
  [circuit |-> isdn1, is_pppoe |-> FALSE, is_lcr |-> TRUE, hours |-> {0},
   outgoing_phone |-> {isp}, incoming_phone |-> {peer}, interval |-> 2],
  [circuit |-> isdn2, is_pppoe |-> FALSE, is_lcr |-> FALSE, hours |-> {0, 1},
   outgoing_phone |-> {isp}, incoming_phone |-> {}, interval |-> 1],
  [circuit |-> dsl, is_pppoe |-> TRUE, is_lcr |-> TRUE, hours |-> {1},
   outgoing_phone |-> {}, incoming_phone |-> {}, interval |-> 2] >>

MCCalls == {
  [circuit |-> isdn1, phone |-> isp, out |-> TRUE, up |-> FALSE],
  [circuit |-> isdn1, phone |-> isp, out |-> TRUE, up |-> TRUE],
  [circuit |-> isdn1, phone |-> peer, out |-> FALSE, up |-> TRUE],
  [circuit |-> isdn2, phone |-> isp, out |-> TRUE, up |-> TRUE] }

MCHourOf == [t \in 1 .. MaxTime |-> IF t < 5 THEN 0 ELSE IF t < 6 THEN 1 ELSE 2]

MCBudgets == {
  [kernel |-> 3, client |-> 0, measure |-> FALSE],
  [kernel |-> 2, client |-> 1, measure |-> FALSE],
  [kernel |-> 1, client |-> 1, measure |-> TRUE],
  [kernel |-> 0, client |-> 2, measure |-> FALSE] }

Clients == INSTANCE ImondClients

MCYears == 1970 .. 2199
Holiday == INSTANCE Calendar

(* Three keys meet in one bucket. *)
MCKeyOf == [e \in {a1, a2, b1, b2, c1} |->
              IF e \in {a1, a2} THEN key1 ELSE IF e \in {b1, b2} THEN key2 ELSE key3]
Map == INSTANCE HashMap WITH
  Entries <- DOMAIN MCKeyOf, KeyOf <- MCKeyOf, Hash <- [k \in {key1, key2, key3} |-> 0]

Modules == INSTANCE KernelModules

(* pppd has a libcrypt of its own; the mathematics libc needs are missing   *)
(* unless a package makes a link.  Packages choose up to three files.      *)
MCElfFiles == {pppd, ip, libc, libcrypt, libcrypt_own, libz}
MCFiles == MCElfFiles \cup {link}
MCDirOf == [f \in MCFiles |->
  IF f \in {pppd, ip} THEN "/sbin"
  ELSE IF f = libcrypt_own THEN "/usr/lib/pppd"
  ELSE IF f = libcrypt THEN "/usr/lib" ELSE "/lib"]

MCSonameOf == [f \in MCFiles |->
  IF f = libcrypt_own THEN libcrypt ELSE IF f = link THEN libm ELSE f]

MCRpathOf == [f \in MCFiles |-> IF f = pppd THEN "/usr/lib/pppd" ELSE None]

MCNeededBy == [f \in MCFiles |->
  IF f = pppd THEN <<libc>>
  ELSE IF f = ip THEN <<libz, libc>>
  ELSE IF f = libc THEN <<libcrypt, libm>>
  ELSE IF f = libcrypt THEN <<libz>> ELSE <<>>]

MCChoices ==
  {t \in [MCFiles -> 0 .. 2] :
     /\ \A f \in {libcrypt_own, libz} : t[f] = 0
     /\ Cardinality({f \in MCFiles : t[f] # 0}) \in 1 .. 3}

Libs == INSTANCE Libraries WITH
  ElfFiles <- MCElfFiles, Symlinks <- {link}, DirOf <- MCDirOf, SonameOf <- MCSonameOf,
  RpathOf <- MCRpathOf, NeededBy <- MCNeededBy, Shipped <- MCElfFiles \ {pppd, ip},
  Choices <- MCChoices, ziptgt <- file_ziptgt, chosen <- file_chosen

(* NULL is no password, no entry and no file; clients ask for years of our  *)
(* era; and a module is listed or not.                                     *)
ASSUME ProgramsAssumption ==
  /\ NoPass \notin Passwords
  /\ Years \subseteq Nat \ {0}
  /\ Hole \notin DOMAIN MCKeyOf
  /\ NumModules \in Nat /\ Unlisted \notin 1 .. NumModules
  /\ None \notin MCFiles

-----------------------------------------------------------------------------

ClientVars == <<imond_pass, imond_admin_pass, open, password_state, salted, local, given>>
HolidayVars == <<last_year, holidays>>
MapVars == <<entries, home, free_entries, num_entries, destroyed, destructs, in_destroy>>
ModuleVars == <<deps, files, ziptgt, pc, i, loop, res, chosen>>
LibVars == <<files_array, file_ziptgt, secondary, file, root, stack, failed, file_chosen>>
PVars == <<program, vars, ClientVars, HolidayVars, MapVars, ModuleVars, LibVars>>

(* The programs that do not run stand in one of their initial states.       *)
PInit ==
  /\ program \in {"imond", "clients", "calendar", "hashmap", "kernmod", "optlibs"}
  /\ IF program = "imond" THEN TRUE ELSE budget = CHOOSE x \in Budgets : TRUE
  /\ Init
  /\ IF program = "clients" THEN TRUE ELSE imond_pass = NoPass /\ imond_admin_pass = NoPass
  /\ Clients!Init
  /\ Holiday!Init
  /\ IF program = "hashmap" THEN TRUE ELSE destructs = TRUE
  /\ Map!Init
  /\ IF program = "kernmod" THEN TRUE
     ELSE deps = [m \in Modules!Modules |-> {}] /\ files = [m \in Modules!Files |-> 0]
  /\ Modules!Init
  /\ IF program = "optlibs" THEN TRUE
     ELSE file_ziptgt = [f \in MCFiles |-> IF f = pppd THEN 1 ELSE 0]
  /\ Libs!Init

Imond == program = "imond" /\ Next
         /\ UNCHANGED <<program, ClientVars, HolidayVars, MapVars, ModuleVars, LibVars>>
ImondsClients == program = "clients" /\ Clients!Next
         /\ UNCHANGED <<program, vars, HolidayVars, MapVars, ModuleVars, LibVars>>
ImondsCalendar == program = "calendar" /\ Holiday!Next
         /\ UNCHANGED <<program, vars, ClientVars, MapVars, ModuleVars, LibVars>>
MkfliMap == program = "hashmap" /\ Map!Next
         /\ UNCHANGED <<program, vars, ClientVars, HolidayVars, ModuleVars, LibVars>>
MkfliModules == program = "kernmod" /\ Modules!Next
         /\ UNCHANGED <<program, vars, ClientVars, HolidayVars, MapVars, LibVars>>
MkfliLibraries == program = "optlibs" /\ Libs!Next
         /\ UNCHANGED <<program, vars, ClientVars, HolidayVars, MapVars, ModuleVars>>

PNext == Imond \/ ImondsClients \/ ImondsCalendar \/ MkfliMap \/ MkfliModules \/ MkfliLibraries

(* The fairness of Imond, KernelModules and Libraries, for the program that *)
(* runs.                                                                   *)
PSpec ==
  /\ PInit /\ [][PNext]_PVars
  /\ WF_vars(program = "imond" /\ ReadInfo)
  /\ WF_vars(program = "imond" /\ ReadChannel)
  /\ WF_vars(program = "imond" /\ Poll)
  /\ WF_PVars(MkfliModules)
  /\ WF_PVars(MkfliLibraries)

-----------------------------------------------------------------------------
(* Properties *)

(* Every variable keeps its type, and the free list of the hash map names   *)
(* exactly the holes of the array, each once, at its present address.      *)
WellFormed ==
  /\ TypeOK
  /\ program = "clients" => Clients!TypeOK
  /\ program = "calendar" => Holiday!TypeOK
  /\ program = "hashmap" => Map!TypeOK /\ Map!FreeListExact
  /\ program = "kernmod" => Modules!TypeOK
  /\ program = "optlibs" => Libs!TypeOK

(* A client of imond may do exactly what its own connection has earned.     *)
RightsEarned == Clients!RightsEarned

(* The holidays of imond are those of the church's calendar.                *)
HolidaysRight == Holiday!HolidaysRight

(* The hash map of mkfli4l implements the abstract map.                     *)
MapAgrees ==
  Map!Abs!Init /\ [][program = "hashmap" => [Map!Abs!Next]_(Map!Abs!vars)]_MapVars

(* Kernel modules end in the earliest archive a chosen one needs them in.   *)
ModulesPlaced == program = "kernmod" => Modules!ModulesPlaced

(* Libraries end in the earliest archive a chosen file needs them in.       *)
LibrariesPlaced == program = "optlibs" => Libs!LibrariesPlaced
=============================================================================
