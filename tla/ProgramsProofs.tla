---------------------------- MODULE ProgramsProofs ----------------------------
(***************************************************************************)
(* The parts written in C: a connection to imond has the rights it has     *)
(* earned; imond's holidays are those of the church's calendar; kernel     *)
(* modules and libraries end in the right archive; the hash map implements *)
(* the abstract map; and all variables keep their types.                   *)
(*                                                                         *)
(* The proofs use nothing of the instances of MCPrograms but               *)
(* ProgramsAssumption: the theorems hold for any number of slots and       *)
(* kernel modules, any passwords and any years.  Those about the hash map  *)
(* and the libraries are taken from MkfliProofs, where they are proved for *)
(* any entries and files.                                                  *)
(*                                                                         *)
(* A slot that is free may keep the rights of its last connection          *)
(* (WriteFails), so nothing is claimed of it; that the next connection     *)
(* does not inherit them is what the step of Accept shows.                 *)
(***************************************************************************)
EXTENDS MCPrograms, ImondProofs


-----------------------------------------------------------------------------
(* The programs share nothing *)

LEMMA ProgramsBegin ==
  PInit => Init /\ Clients!Init /\ Holiday!Init /\ Map!Init /\ Modules!Init /\ Libs!Init
BY DEF PInit

LEMMA ProgramsStep ==
  [PNext]_PVars =>
    /\ program' = program
    /\ [Next]_vars
    /\ [Clients!Next]_(Clients!vars)
    /\ [Holiday!Next]_(Holiday!vars)
    /\ [Map!Next]_(Map!vars)
    /\ [Modules!Next]_(Modules!vars)
    /\ [Libs!Next]_(Libs!vars)
<1> SUFFICES ASSUME [PNext]_PVars
             PROVE  /\ program' = program
                    /\ [Next]_vars
                    /\ [Clients!Next]_(Clients!vars)
                    /\ [Holiday!Next]_(Holiday!vars)
                    /\ [Map!Next]_(Map!vars)
                    /\ [Modules!Next]_(Modules!vars)
                    /\ [Libs!Next]_(Libs!vars)
  OBVIOUS
<1>1. Clients!vars = ClientVars /\ Clients!vars' = ClientVars'
  BY DEF Clients!vars, ClientVars
<1>2. Holiday!vars = HolidayVars /\ Holiday!vars' = HolidayVars'
  BY DEF Holiday!vars, HolidayVars
<1>3. UNCHANGED MapVars => UNCHANGED Map!vars
  BY DEF Map!vars, MapVars, Map!buckets
<1>4. UNCHANGED ModuleVars => UNCHANGED Modules!vars
  BY DEF Modules!vars, ModuleVars
<1>5. UNCHANGED LibVars => UNCHANGED Libs!vars
  BY DEF Libs!vars, LibVars
<1> QED BY <1>1, <1>2, <1>3, <1>4, <1>5
        DEF PNext, PVars, Imond, ImondsClients, ImondsCalendar, MkfliMap, MkfliModules,
            MkfliLibraries

-----------------------------------------------------------------------------
(* The clients of imond *)

(* The two passwords differ, since main() drops an admin password that is  *)
(* the same as the other.                                                  *)
Distinct == imond_pass # NoPass => imond_admin_pass # imond_pass

ClientsInv == Clients!TypeOK /\ Distinct /\ Clients!RightsEarned

LEMMA InitClients == Clients!Init => ClientsInv
<1> SUFFICES ASSUME Clients!Init PROVE ClientsInv
  OBVIOUS
<1>1. Clients!TypeOK
  BY DEF Clients!Init, Clients!TypeOK
<1>2. Distinct /\ Clients!RightsEarned
  BY DEF Clients!Init, Distinct, Clients!RightsEarned, Clients!PASS_REQUIRED
<1> QED BY <1>1, <1>2 DEF ClientsInv

(* The rights of a new connection are those of its origin. *)
LEMMA AcceptedEarned ==
  ASSUME ClientsInv, NEW s \in Clients!Slots, NEW is_local \in BOOLEAN, Clients!Accept(s, is_local)
  PROVE  ClientsInv'
<1>0. /\ password_state \in [Clients!Slots -> SUBSET Clients!Rights]
      /\ given \in [Clients!Slots -> SUBSET Passwords]
      /\ local \in [Clients!Slots -> BOOLEAN] /\ open \in [Clients!Slots -> BOOLEAN]
      /\ salted \in [Clients!Slots -> BOOLEAN]
  BY DEF ClientsInv, Clients!TypeOK
<1>1. /\ open' = [open EXCEPT ![s] = TRUE]
      /\ password_state' = [password_state EXCEPT ![s] = Clients!AcceptedRights(is_local)]
      /\ local' = [local EXCEPT ![s] = is_local]
      /\ given' = [given EXCEPT ![s] = {}]
      /\ salted' = [salted EXCEPT ![s] = FALSE]
      /\ UNCHANGED <<imond_pass, imond_admin_pass>>
  BY DEF Clients!Accept
<1>2. Clients!AcceptedRights(is_local) \in SUBSET Clients!Rights
  BY DEF Clients!AcceptedRights, Clients!Rights
<1>3. Clients!TypeOK' /\ Distinct'
  BY <1>0, <1>1, <1>2 DEF ClientsInv, Clients!TypeOK, Distinct
<1>4. password_state'[s] = Clients!Earned(s)'
  BY <1>0, <1>1
     DEF Clients!AcceptedRights, Clients!Earned, Clients!Knows, Clients!Rights,
         Clients!PASS_REQUIRED, Clients!ADMIN_PASS_REQUIRED, Clients!ADMIN, Clients!NORMAL
<1>5. ASSUME NEW j \in Clients!Slots \ {s}, open'[j]
      PROVE  password_state'[j] = Clients!Earned(j)'
  <2>1. open[j] /\ password_state'[j] = password_state[j]
    BY <1>0, <1>1, <1>5
  <2>2. Clients!Earned(j)' = Clients!Earned(j)
    BY <1>0, <1>1 DEF Clients!Earned, Clients!Knows, Clients!PASS_REQUIRED,
                      Clients!ADMIN_PASS_REQUIRED
  <2> QED BY <2>1, <2>2 DEF ClientsInv, Clients!RightsEarned
<1> QED BY <1>3, <1>4, <1>5 DEF ClientsInv, Clients!RightsEarned

(* A password earns what it adds. *)
LEMMA SentEarned ==
  ASSUME ClientsInv, NEW s \in Clients!Slots, NEW arg \in Passwords, NoPass \notin Passwords,
         open[s], Clients!Sends(s, arg),
         UNCHANGED <<imond_pass, imond_admin_pass, open, salted, local>>
  PROVE  ClientsInv'
<1>0. /\ password_state \in [Clients!Slots -> SUBSET Clients!Rights]
      /\ given \in [Clients!Slots -> SUBSET Passwords]
      /\ imond_pass # NoPass => imond_admin_pass # imond_pass
      /\ password_state[s] = Clients!Earned(s)
  BY DEF ClientsInv, Clients!TypeOK, Distinct, Clients!RightsEarned
<1>1. /\ password_state' =
           [password_state EXCEPT ![s] = password_state[s] \cup Clients!GainedBy(arg)]
      /\ given' = [given EXCEPT ![s] = given[s] \cup {arg}]
  BY DEF Clients!Sends
<1>2. Clients!GainedBy(arg) \in SUBSET Clients!Rights
  BY DEF Clients!GainedBy, Clients!Rights
<1>3. Clients!TypeOK' /\ Distinct'
  BY <1>0, <1>1, <1>2 DEF ClientsInv, Clients!TypeOK, Distinct
<1>4. Clients!Earned(s)' = Clients!Earned(s) \cup Clients!GainedBy(arg)
  BY <1>0, <1>1
     DEF Clients!GainedBy, Clients!Earned, Clients!Knows, Clients!Rights,
         Clients!PASS_REQUIRED, Clients!ADMIN_PASS_REQUIRED, Clients!ADMIN, Clients!NORMAL
<1>5. ASSUME NEW j \in Clients!Slots \ {s}
      PROVE  password_state'[j] = password_state[j] /\ Clients!Earned(j)' = Clients!Earned(j)
  BY <1>0, <1>1 DEF Clients!Earned, Clients!Knows, Clients!PASS_REQUIRED,
                    Clients!ADMIN_PASS_REQUIRED
<1>6. password_state'[s] = Clients!Earned(s)'
  BY <1>0, <1>1, <1>4
<1> QED BY <1>3, <1>5, <1>6 DEF ClientsInv, Clients!RightsEarned

(* What does not touch an open connection changes nothing it has earned. *)
LEMMA OthersEarned ==
  ASSUME ClientsInv,
         UNCHANGED <<imond_pass, imond_admin_pass, local, given>>,
         open' \in [Clients!Slots -> BOOLEAN], salted' \in [Clients!Slots -> BOOLEAN],
         password_state' \in [Clients!Slots -> SUBSET Clients!Rights],
         \A s \in Clients!Slots : open'[s] => open[s] /\ password_state'[s] = password_state[s]
  PROVE  ClientsInv'
BY DEF ClientsInv, Clients!TypeOK, Distinct, Clients!RightsEarned, Clients!Earned,
       Clients!Knows, Clients!PASS_REQUIRED, Clients!ADMIN_PASS_REQUIRED

LEMMA NextClients ==
  ASSUME NoPass \notin Passwords
  PROVE  ClientsInv /\ [Clients!Next]_(Clients!vars) => ClientsInv'
<1> SUFFICES ASSUME ClientsInv, [Clients!Next]_(Clients!vars) PROVE ClientsInv'
  OBVIOUS
<1>0. /\ open \in [Clients!Slots -> BOOLEAN] /\ salted \in [Clients!Slots -> BOOLEAN]
      /\ password_state \in [Clients!Slots -> SUBSET Clients!Rights]
  BY DEF ClientsInv, Clients!TypeOK
<1>1. ASSUME NEW s \in Clients!Slots, NEW is_local \in BOOLEAN, Clients!Accept(s, is_local)
      PROVE  ClientsInv'
  BY <1>1, AcceptedEarned
<1>2. ASSUME NEW s \in Clients!Slots, NEW arg \in Passwords,
             Clients!Pass(s, arg) \/ Clients!Md5Pass(s, arg)
      PROVE  ClientsInv'
  BY <1>2, SentEarned DEF Clients!Pass, Clients!Md5Pass
<1>3. ASSUME NEW s \in Clients!Slots, Clients!Salt(s)
      PROVE  ClientsInv'
  BY <1>0, <1>3, OthersEarned DEF Clients!Salt
<1>4. ASSUME NEW s \in Clients!Slots, Clients!Quit(s) \/ Clients!WriteFails(s)
      PROVE  ClientsInv'
  BY <1>0, <1>4, OthersEarned DEF Clients!Quit, Clients!WriteFails
<1>5. CASE UNCHANGED Clients!vars
  BY <1>0, <1>5, OthersEarned DEF Clients!vars
<1> QED BY <1>1, <1>2, <1>3, <1>4, <1>5 DEF Clients!Next

-----------------------------------------------------------------------------
(* The holidays *)

(* Division leaves a remainder, for the divisors of the calendar. *)
LEMMA Divided ==
  /\ \A x \in Int : (x \div 4) \in Int /\ x % 4 \in 0 .. 3 /\ x = 4 * (x \div 4) + (x % 4)
  /\ \A x \in Int : (x \div 7) \in Int /\ x % 7 \in 0 .. 6 /\ x = 7 * (x \div 7) + (x % 7)
  /\ \A x \in Int : (x \div 19) \in Int /\ x % 19 \in 0 .. 18 /\ x = 19 * (x \div 19) + (x % 19)
  /\ \A x \in Int : (x \div 30) \in Int /\ x % 30 \in 0 .. 29 /\ x = 30 * (x \div 30) + (x % 30)
OBVIOUS

(* A century is a fourth of four hundred years. *)
LEMMA Centuries ==
  \A y \in Nat : y \div 400 = (y \div 100) \div 4 /\ y \div 100 \in Nat /\ y \div 400 \in Nat
OBVIOUS

(* The day of the full moon Gauss's rule computes is the one of the epact. *)
LEMMA FullMoonRight ==
  ASSUME NEW year \in Nat
  PROVE  /\ Holiday!Epact(year) \in 0 .. 29
         /\ Holiday!FullMoon(year) \in 0 .. 28
         /\ Holiday!FullMoon(year) =
              (IF 44 - Holiday!Epact(year) < 21 THEN 44 - Holiday!Epact(year) + 30
                                               ELSE 44 - Holiday!Epact(year)) - 21
<1> DEFINE a == year % 19
           century == year \div 100
           solar == century - century \div 4
           lunar == (8 * century + 13) \div 25
           M == (15 + (century - year \div 400 - 2) - (lunar - 2)) % 30
           d == (M + 19 * a) % 30
           f == (11 * a + 8 - solar + lunar) % 30
<1>1. /\ a \in 0 .. 18 /\ solar \in Int /\ lunar \in Int
      /\ 15 + (century - year \div 400 - 2) - (lunar - 2) = 15 + solar - lunar
  BY Centuries, Divided
<1>2. d + f = 23 \/ d + f = 53
  <2> DEFINE p == (15 + solar - lunar) \div 30
             q == (M + 19 * a) \div 30
             r == (11 * a + 8 - solar + lunar) \div 30
  <2>1. p \in Int /\ M \in 0 .. 29 /\ 15 + solar - lunar = 30 * p + M
    BY <1>1, Divided
  <2>2. q \in Int /\ d \in 0 .. 29 /\ M + 19 * a = 30 * q + d
    BY <1>1, <2>1, Divided
  <2>3. r \in Int /\ f \in 0 .. 29 /\ 11 * a + 8 - solar + lunar = 30 * r + f
    BY <1>1, Divided
  <2> HIDE DEF p, q, r, M, d, f, a, solar, lunar
  <2>4. d + f = 23 + 30 * (a - p - q - r)
    BY <1>1, <2>1, <2>2, <2>3
  <2>5. a - p - q - r \in Int
    BY <1>1, <2>1, <2>2, <2>3
  <2> QED BY <2>2, <2>3, <2>4, <2>5
<1>3. d \in 0 .. 29 /\ f \in 0 .. 29
  BY <1>1, Divided
<1>4. Holiday!FullMoon(year) = IF d = 29 THEN 28 ELSE IF d = 28 /\ a >= 11 THEN 27 ELSE d
  BY DEF Holiday!FullMoon
<1>5. Holiday!Epact(year) = IF f = 25 /\ a > 10 THEN 26 ELSE IF f = 24 THEN 25 ELSE f
  BY DEF Holiday!Epact
<1> HIDE DEF d, f, a
<1> QED BY <1>1, <1>2, <1>3, <1>4, <1>5

LEMMA LeapDays ==
  ASSUME NEW year \in Nat \ {0}
  PROVE  year \div 4 - year \div 100 + year \div 400 =
         (year - 1) \div 4 - (year - 1) \div 100 + (year - 1) \div 400
           + IF Holiday!IS_LEAP_YEAR(year) THEN 1 ELSE 0
BY DEF Holiday!IS_LEAP_YEAR

LEMMA Equinox ==
  ASSUME NEW year \in Nat \ {0}
  PROVE  Holiday!DayNumber(21, 3, year) =
           365 * (year - 1) + year \div 4 - year \div 100 + year \div 400 + 79
<1>1. Holiday!DayNumber(21, 3, year) =
        365 * (year - 1) + (year - 1) \div 4 - (year - 1) \div 100 + (year - 1) \div 400
          + 79 + IF Holiday!IS_LEAP_YEAR(year) THEN 1 ELSE 0
  BY DEF Holiday!DayNumber
<1> DEFINE leap == IF Holiday!IS_LEAP_YEAR(year) THEN 1 ELSE 0
<1>2. leap \in Int
  OBVIOUS
<1> HIDE DEF leap
<1> QED BY <1>1, <1>2, LeapDays DEF leap

(* The day Gauss's rule computes is a sunday. *)
LEMMA SundayRight ==
  ASSUME NEW year \in Nat \ {0}
  PROVE  /\ (Holiday!DayNumber(21, 3, year) + Holiday!EasterOffset(year)) % 7 = 6
         /\ Holiday!EasterOffset(year) - Holiday!FullMoon(year) \in 1 .. 7
         /\ Holiday!EasterOffset(year) \in 1 .. 35
<1> DEFINE b == year % 4
           c == year % 7
           u == year \div 4
           v == year \div 7
           century == year \div 100
           fourth == year \div 400
           x == century - fourth - 2
           N == (6 + x) % 7
           D == Holiday!FullMoon(year)
           e == (2 * b + 4 * c + 6 * D + N) % 7
           p == (2 * b + 4 * c + 6 * D + N) \div 7
           q == (6 + x) \div 7
           n == Holiday!DayNumber(21, 3, year) + Holiday!EasterOffset(year)
<1>1. Holiday!EasterOffset(year) = D + e + 1
  BY DEF Holiday!EasterOffset
<1>2. Holiday!DayNumber(21, 3, year) = 365 * (year - 1) + u - century + fourth + 79
  BY Equinox
<1>3. /\ u \in Int /\ b \in 0 .. 3 /\ year = 4 * u + b
      /\ v \in Int /\ c \in 0 .. 6 /\ year = 7 * v + c
      /\ century \in Int /\ fourth \in Int /\ x \in Int /\ x = century - fourth - 2
      /\ D \in 0 .. 28
  BY Divided, Centuries, FullMoonRight
<1>4. q \in Int /\ N \in 0 .. 6 /\ 6 + x = 7 * q + N
  BY <1>3, Divided
<1> HIDE DEF b, c, u, v, century, fourth, x, N, D, q
<1>5. p \in Int /\ e \in 0 .. 6 /\ 2 * b + 4 * c + 6 * D + N = 7 * p + e
  <2>1. 2 * b + 4 * c + 6 * D + N \in Int
    BY <1>3, <1>4
  <2> QED BY <2>1, Divided
<1> HIDE DEF e, p
<1>6. n = 7 * (53 * year - u - 4 * v + D - q - p - 41) + 6
  BY <1>1, <1>2, <1>3, <1>4, <1>5
<1>7. \A k \in Int : (7 * k + 6) % 7 = 6
  OBVIOUS
<1>8. 53 * year - u - 4 * v + D - q - p - 41 \in Int
  BY <1>3, <1>4, <1>5
<1>9. n % 7 = 6
  BY <1>6, <1>7, <1>8
<1> QED BY <1>1, <1>3, <1>5, <1>9 DEF D

(* Easter is the day Gauss's rule computes, and no other. *)
LEMMA EasterIs ==
  ASSUME NEW year \in Nat \ {0}, NEW n \in Int
  PROVE  Holiday!IsEaster(n, year)
           <=> n = Holiday!DayNumber(21, 3, year) + Holiday!EasterOffset(year)
<1> DEFINE equinox == Holiday!DayNumber(21, 3, year)
           D == Holiday!FullMoon(year)
           o == Holiday!EasterOffset(year)
<1>1. equinox \in Int /\ D \in 0 .. 28 /\ o \in 1 .. 35 /\ o - D \in 1 .. 7
      /\ (equinox + o) % 7 = 6
  <2>1. 365 * (year - 1) + year \div 4 - year \div 100 + year \div 400 + 79 \in Int
    OBVIOUS
  <2> QED BY <2>1, Equinox, SundayRight, FullMoonRight
<1>2. Holiday!IsEaster(n, year) <=> n % 7 = 6 /\ n > equinox + D /\ n <= equinox + D + 7
  BY <1>1, FullMoonRight DEF Holiday!IsEaster
<1>3. n % 7 = (equinox + o) % 7 /\ n - (equinox + o) \in -6 .. 6 => n = equinox + o
  <2> DEFINE w == equinox + o
  <2>1. /\ n % 7 \in 0 .. 6 /\ n \div 7 \in Int /\ n = 7 * (n \div 7) + (n % 7)
        /\ w % 7 \in 0 .. 6 /\ w \div 7 \in Int /\ w = 7 * (w \div 7) + (w % 7)
    BY <1>1, Divided
  <2> HIDE DEF w
  <2>2. n % 7 = w % 7 /\ n - w \in -6 .. 6 => n = w
    BY <2>1
  <2> QED BY <2>2 DEF w
<1> HIDE DEF equinox, D, o
<1>4. n = equinox + o => n % 7 = 6 /\ n > equinox + D /\ n <= equinox + D + 7
  BY <1>1
<1>5. n > equinox + D /\ n <= equinox + D + 7 => n - (equinox + o) \in -6 .. 6
  BY <1>1
<1> QED BY <1>1, <1>2, <1>3, <1>4, <1>5 DEF equinox, o

(* The dates of march to june by their distance from march 21, and what     *)
(* add_days makes of a distance.                                           *)
DaysAfter(date) == date[1] - 21 + <<0, 0, 0, 31, 61, 92>>[date[2]]
LateSpring == {date \in (1 .. 31) \X (3 .. 6) : date[1] <= Holiday!g_days_per_month[date[2]]}

LEMMA DayNumbers ==
  ASSUME NEW year \in Nat \ {0}, NEW date \in (1 .. 31) \X (3 .. 6)
  PROVE  Holiday!DayNumber(date[1], date[2], year)
           = Holiday!DayNumber(21, 3, year) + DaysAfter(date)
<1> DEFINE y == year - 1
           base == 365 * y + y \div 4 - y \div 100 + y \div 400
           leap == IF Holiday!IS_LEAP_YEAR(year) THEN 1 ELSE 0
<1>1. base \in Int /\ leap \in Int
  OBVIOUS
<1>2. date[1] \in 1 .. 31 /\ date[2] \in {3, 4, 5, 6}
  OBVIOUS
<1>3. Holiday!DayNumber(21, 3, year) = base + 79 + leap
  BY DEF Holiday!DayNumber
<1>4. Holiday!DayNumber(date[1], date[2], year) =
        base + <<0, 31, 59, 90, 120, 151, 181, 212, 243, 273, 304, 334>>[date[2]]
             + date[1] - 1 + leap
  BY <1>2 DEF Holiday!DayNumber
<1> HIDE DEF base, leap
<1>5. CASE date[2] = 3
  BY <1>1, <1>2, <1>3, <1>4, <1>5 DEF DaysAfter
<1>6. CASE date[2] = 4
  BY <1>1, <1>2, <1>3, <1>4, <1>6 DEF DaysAfter
<1>7. CASE date[2] = 5
  BY <1>1, <1>2, <1>3, <1>4, <1>7 DEF DaysAfter
<1>8. CASE date[2] = 6
  BY <1>1, <1>2, <1>3, <1>4, <1>8 DEF DaysAfter
<1> QED BY <1>2, <1>5, <1>6, <1>7, <1>8

LEMMA DatesDiffer ==
  ASSUME NEW date \in LateSpring, NEW other \in LateSpring, DaysAfter(date) = DaysAfter(other)
  PROVE  date = other
<1>1. /\ date = <<date[1], date[2]>> /\ other = <<other[1], other[2]>>
      /\ date[1] \in 1 .. 31 /\ other[1] \in 1 .. 31
      /\ date[2] \in {3, 4, 5, 6} /\ other[2] \in {3, 4, 5, 6}
      /\ date[1] <= Holiday!g_days_per_month[date[2]]
      /\ other[1] <= Holiday!g_days_per_month[other[2]]
  BY DEF LateSpring
<1>2. date[1] = other[1] /\ date[2] = other[2]
  BY <1>1 DEF DaysAfter, Holiday!g_days_per_month
<1> QED BY <1>1, <1>2

LEMMA DaysOfSpring ==
  ASSUME NEW year
  PROVE  /\ Holiday!DaysOf(3, year) = 31 /\ Holiday!DaysOf(4, year) = 30
         /\ Holiday!DaysOf(5, year) = 31
BY DEF Holiday!DaysOf, Holiday!g_days_per_month

LEMMA DaysAdded ==
  ASSUME NEW year, NEW o \in 1 .. 35, NEW n \in Holiday!movable_holidays,
         NEW month \in {3, 4}, NEW day \in 1 .. 31,
         day = IF 21 + o > 31 THEN o - 10 ELSE 21 + o,
         month = IF 21 + o > 31 THEN 4 ELSE 3
  PROVE  /\ Holiday!add_days(day, month, year, n) \in LateSpring
         /\ DaysAfter(Holiday!add_days(day, month, year, n)) = o + n
<1> DEFINE C(d, m) == Holiday!Carried(d, m, year)
           date == Holiday!add_days(day, month, year, n)
           x == day + n
           At(d, m) == date = <<d, m>> /\ d \in 1 .. 31 /\ (m \in {4, 6} => d <= 30)
                       /\ d - 21 + <<0, 0, 0, 31, 61, 92>>[m] = o + n
<1>1. date = C(C(x, month)[1], C(x, month)[2])
  BY DEF Holiday!add_days
<1>2. \A d \in Int :
        /\ d > 0 => C(d, 3) = IF d > 31 THEN <<d - 31, 4>> ELSE <<d, 3>>
        /\ C(d, 4) = IF d <= 0 THEN <<d + 31, 3>> ELSE IF d > 30 THEN <<d - 30, 5>> ELSE <<d, 4>>
        /\ d > 0 => C(d, 5) = IF d > 31 THEN <<d - 31, 6>> ELSE <<d, 5>>
  BY DaysOfSpring DEF Holiday!Carried
<1>3. n \in {-2, 1, 39, 50}
  BY DEF Holiday!movable_holidays
<1>4. /\ x \in Int
      /\ month = 3 => x = 21 + o + n /\ x \in 1 .. 81
      /\ month = 4 => x = o - 10 + n /\ x \in -1 .. 75
  BY <1>3
<1> HIDE DEF C, date, x
<1>5. \E m \in 3 .. 6 : \E d \in Int : At(d, m)
  <2>1. CASE month = 3 /\ x <= 31
    <3>1. C(x, 3) = <<x, 3>>
      BY <1>2, <1>4, <2>1
    <3>2. date = <<x, 3>>
      BY <1>1, <2>1, <3>1
    <3> QED BY <1>3, <1>4, <2>1, <3>2
  <2>2. CASE month = 3 /\ x > 31
    <3>1. C(x, 3) = <<x - 31, 4>> /\ x - 31 \in 1 .. 50
      BY <1>2, <1>4, <2>2
    <3>2. date = C(x - 31, 4)
      BY <1>1, <2>2, <3>1
    <3>3. date = IF x - 31 > 30 THEN <<x - 61, 5>> ELSE <<x - 31, 4>>
      BY <1>2, <1>4, <3>1, <3>2
    <3>4. (x - 31 > 30 => At(x - 61, 5)) /\ (x - 31 <= 30 => At(x - 31, 4))
      BY <1>3, <1>4, <2>2, <3>1, <3>3
    <3> QED BY <1>4, <3>1, <3>4
  <2>3. CASE month = 4 /\ x <= 0
    <3>1. C(x, 4) = <<x + 31, 3>> /\ x + 31 \in 30 .. 31
      BY <1>2, <1>4, <2>3
    <3>2. date = C(x + 31, 3)
      BY <1>1, <2>3, <3>1
    <3>3. date = <<x + 31, 3>>
      BY <1>2, <1>4, <3>1, <3>2
    <3>4. At(x + 31, 3)
      BY <1>3, <1>4, <2>3, <3>1, <3>3
    <3> QED BY <1>4, <3>1, <3>4
  <2>4. CASE month = 4 /\ x \in 1 .. 30
    <3>1. C(x, 4) = <<x, 4>>
      BY <1>2, <1>4, <2>4
    <3>2. date = <<x, 4>>
      BY <1>1, <2>4, <3>1
    <3> QED BY <1>3, <1>4, <2>4, <3>2
  <2>5. CASE month = 4 /\ x > 30
    <3>1. C(x, 4) = <<x - 30, 5>> /\ x - 30 \in 1 .. 45
      BY <1>2, <1>4, <2>5
    <3>2. date = C(x - 30, 5)
      BY <1>1, <2>5, <3>1
    <3>3. date = IF x - 30 > 31 THEN <<x - 61, 6>> ELSE <<x - 30, 5>>
      BY <1>2, <1>4, <3>1, <3>2
    <3>4. (x - 30 > 31 => At(x - 61, 6)) /\ (x - 30 <= 31 => At(x - 30, 5))
      BY <1>3, <1>4, <2>5, <3>1, <3>3
    <3> QED BY <1>4, <3>1, <3>4
  <2> QED BY <1>4, <2>1, <2>2, <2>3, <2>4, <2>5
<1>6. PICK m \in 3 .. 6, d \in Int : At(d, m)
  BY <1>5
<1>7. date = <<d, m>> /\ date \in LateSpring
  <2>1. m \in {3, 4, 5, 6} /\ d \in 1 .. 31 /\ date = <<d, m>> /\ (m \in {4, 6} => d <= 30)
    BY <1>6
  <2> QED BY <2>1 DEF LateSpring, Holiday!g_days_per_month
<1>8. DaysAfter(date) = o + n
  BY <1>6 DEF DaysAfter
<1> QED BY <1>7, <1>8 DEF date

(* imond's holidays of any year are the calendar's. *)
LEMMA HolidaysOfYear ==
  ASSUME NEW year \in Nat \ {0}
  PROVE  Holiday!Holidays(year) = Holiday!fixed_holidays \cup
           {date \in (1 .. 31) \X (3 .. 6) :
              \E n \in Holiday!movable_holidays :
                /\ date[1] <= Holiday!g_days_per_month[date[2]]
                /\ Holiday!IsEaster(Holiday!DayNumber(date[1], date[2], year) - n, year)}
<1> DEFINE o == Holiday!EasterOffset(year)
           easter == Holiday!Easter(year)
           Added(n) == Holiday!add_days(easter[1], easter[2], year, n)
<1>1. Holiday!Holidays(year) =
        Holiday!fixed_holidays \cup {Added(n) : n \in Holiday!movable_holidays}
  BY DEF Holiday!Holidays
<1>2. o \in 1 .. 35
  BY SundayRight
<1>3. ASSUME NEW n \in Holiday!movable_holidays
      PROVE  Added(n) \in LateSpring /\ DaysAfter(Added(n)) = o + n
  <2>1. /\ easter[1] = IF 21 + o > 31 THEN o - 10 ELSE 21 + o
        /\ easter[2] = IF 21 + o > 31 THEN 4 ELSE 3
        /\ easter[1] \in 1 .. 31 /\ easter[2] \in {3, 4}
    BY <1>2 DEF Holiday!Easter
  <2> DEFINE day == easter[1]
             month == easter[2]
  <2>2. /\ day = IF 21 + o > 31 THEN o - 10 ELSE 21 + o
        /\ month = IF 21 + o > 31 THEN 4 ELSE 3
        /\ day \in 1 .. 31 /\ month \in {3, 4}
    BY <2>1
  <2> HIDE DEF easter, o, day, month
  <2>3. LET date == Holiday!add_days(day, month, year, n)
        IN date \in LateSpring /\ DaysAfter(date) = o + n
    BY <1>2, <2>2, DaysAdded
  <2> QED BY <2>3 DEF day, month
<1>4. ASSUME NEW date \in LateSpring, NEW n \in Holiday!movable_holidays
      PROVE  Holiday!IsEaster(Holiday!DayNumber(date[1], date[2], year) - n, year)
               <=> date = Added(n)
  <2> DEFINE equinox == Holiday!DayNumber(21, 3, year)
  <2>1. date \in (1 .. 31) \X (3 .. 6)
    BY DEF LateSpring
  <2>2. Holiday!DayNumber(date[1], date[2], year) = equinox + DaysAfter(date)
    BY <2>1, DayNumbers
  <2>3. equinox \in Int
    <3>1. 365 * (year - 1) + year \div 4 - year \div 100 + year \div 400 + 79 \in Int
      OBVIOUS
    <3> QED BY <3>1, Equinox
  <2>4. DaysAfter(date) \in Int /\ n \in Int
    BY <2>1 DEF DaysAfter, Holiday!movable_holidays
  <2> HIDE DEF equinox, o, Added
  <2>5. Holiday!IsEaster(equinox + DaysAfter(date) - n, year)
          <=> equinox + DaysAfter(date) - n = equinox + o
    <3>1. equinox + DaysAfter(date) - n \in Int
      BY <2>3, <2>4
    <3> QED BY <3>1, EasterIs DEF equinox, o
  <2>6. equinox + DaysAfter(date) - n = equinox + o <=> DaysAfter(date) = o + n
    BY <1>2, <2>3, <2>4
  <2>7. DaysAfter(date) = o + n <=> date = Added(n)
    BY <1>3, DatesDiffer
  <2>8. Holiday!DayNumber(date[1], date[2], year) - n = equinox + DaysAfter(date) - n
    BY <2>2, <2>3, <2>4
  <2> QED BY <2>5, <2>6, <2>7, <2>8
<1> HIDE DEF Added
<1>5. LateSpring = {date \in (1 .. 31) \X (3 .. 6) :
                      date[1] <= Holiday!g_days_per_month[date[2]]}
  BY DEF LateSpring
<1> QED BY <1>1, <1>3, <1>4, <1>5

(* The holidays that are kept are those of the year they were asked for. *)
HolidaysInv ==
  /\ last_year \in Years \cup {0}
  /\ holidays = IF last_year = 0 THEN {} ELSE Holiday!Holidays(last_year)

LEMMA NextHolidays ==
  ASSUME HolidaysInv, [Holiday!Next]_(Holiday!vars), 0 \notin Years
  PROVE  HolidaysInv'
<1>1. CASE UNCHANGED Holiday!vars
  BY <1>1 DEF HolidaysInv, Holiday!vars
<1>2. ASSUME NEW year \in Years, Holiday!is_holiday(year)
      PROVE  HolidaysInv'
  BY <1>2 DEF HolidaysInv, Holiday!is_holiday
<1> QED BY <1>1, <1>2 DEF Holiday!Next

LEMMA HolidaysKnown ==
  ASSUME HolidaysInv, Years \subseteq Nat \ {0}
  PROVE  Holiday!HolidaysRight /\ Holiday!TypeOK
<1>1. CASE last_year = 0
  BY <1>1 DEF HolidaysInv, Holiday!HolidaysRight, Holiday!TypeOK
<1>2. CASE last_year # 0
  <2>1. last_year \in Nat \ {0} /\ holidays = Holiday!Holidays(last_year)
    BY <1>2 DEF HolidaysInv
  <2>2. Holiday!HolidaysRight
    BY <2>1, HolidaysOfYear DEF Holiday!HolidaysRight
  <2>3. holidays \subseteq Holiday!fixed_holidays \cup (1 .. 31) \X (3 .. 6)
    BY <2>1, HolidaysOfYear
  <2>4. Holiday!fixed_holidays \subseteq (1 .. 31) \X (1 .. 12)
    BY DEF Holiday!fixed_holidays
  <2>5. (1 .. 31) \X (3 .. 6) \subseteq (1 .. 31) \X (1 .. 12)
    OBVIOUS
  <2> QED BY <2>2, <2>3, <2>4, <2>5 DEF HolidaysInv, Holiday!TypeOK
<1> QED BY <1>1, <1>2

-----------------------------------------------------------------------------
(* The kernel modules *)

(* modules.dep lists the modules it knows. *)
RealModules == NumModules \in Nat /\ Unlisted \notin Modules!Modules

LEMMA ModulesReal == RealModules
BY ProgramsAssumption DEF RealModules, Modules!Modules

(* The dependencies of a module are placed no later than the module. *)
Settled(m) ==
  ziptgt[m] # 0 => \A d \in deps[m] : ziptgt[d] # 0 /\ ziptgt[d] <= ziptgt[m]

(* A module is only placed where a chosen module needs it. *)
PlacedFor(m) ==
  ziptgt[m] # 0 => \E c \in Modules!Modules : chosen[c] = ziptgt[m] /\ m \in Modules!Needs(c)

(* A chosen module is placed, and never later than chosen. *)
PlacedInTime(m) == chosen[m] # 0 => ziptgt[m] # 0 /\ ziptgt[m] <= chosen[m]

(* While the list is gone through without a move, what lies behind is       *)
(* settled; the archive list is completed from the front.                  *)
ModulesInv ==
  /\ Modules!TypeOK
  /\ pc \in {"read", "compute"} => files = chosen
  /\ pc = "read" => i = 1
  /\ pc # "read" => \A m \in Modules!Modules : PlacedFor(m) /\ PlacedInTime(m)
  /\ pc = "compute" /\ ~loop => \A m \in Modules!Modules : m < i => Settled(m)
  /\ pc \in {"add", "done"} /\ res = "OK" => \A m \in Modules!Modules : Settled(m)
  /\ pc = "add" /\ res = "OK" =>
       \A m \in Modules!Modules : files[m] = IF m < i THEN ziptgt[m] ELSE chosen[m]
  /\ pc = "done" /\ res = "OK" => \A m \in Modules!Modules : files[m] = ziptgt[m]

(* What a module needs holds the module, and with a module what that needs. *)
LEMMA NeedsClosed ==
  ASSUME NEW c \in Modules!Modules, deps \in [Modules!Modules -> SUBSET Modules!Modules]
  PROVE  /\ c \in Modules!Needs(c)
         /\ \A m \in Modules!Needs(c) : \A d \in deps[m] : d \in Modules!Needs(c)
<1>1. c \in Modules!Needs(c)
  BY DEF Modules!Needs
<1>2. ASSUME NEW m \in Modules!Needs(c), NEW d \in deps[m]
      PROVE  d \in Modules!Needs(c)
  <2>1. m \in Modules!Modules /\ d \in Modules!Modules
    BY DEF Modules!Needs
  <2>2. ASSUME NEW S \in SUBSET Modules!Modules, c \in S, \A s \in S : deps[s] \subseteq S
        PROVE  d \in S
    <3>1. m \in S
      BY <2>2 DEF Modules!Needs
    <3> QED BY <2>2, <3>1
  <2> QED BY <2>1, <2>2 DEF Modules!Needs
<1> QED BY <1>1, <1>2

LEMMA InitModules == RealModules /\ Modules!Init => ModulesInv
<1> SUFFICES ASSUME RealModules, Modules!Init PROVE ModulesInv
  OBVIOUS
<1>1. Modules!TypeOK
  BY DEF Modules!Init, Modules!TypeOK, RealModules, Modules!Targets, Modules!ZIP_TGT_UNKNOWN
<1> QED BY <1>1 DEF ModulesInv, Modules!Init

LEMMA ReadModules == RealModules /\ ModulesInv /\ Modules!ReadFiles => ModulesInv'
<1> SUFFICES ASSUME RealModules, ModulesInv, Modules!ReadFiles PROVE ModulesInv'
  OBVIOUS
<1>1. /\ pc = "read" /\ pc' = "compute" /\ i = 1 /\ files = chosen /\ loop' = FALSE
      /\ ziptgt' = [m \in Modules!Modules |-> files[m]]
      /\ UNCHANGED <<deps, files, i, chosen>>
      /\ res' \in {"OK", "ERR"}
  BY DEF Modules!ReadFiles, ModulesInv
<1>2. /\ deps \in [Modules!Modules -> SUBSET Modules!Modules]
      /\ chosen \in [Modules!Files -> Modules!Targets] /\ i \in 1 .. NumModules + 1
  BY DEF ModulesInv, Modules!TypeOK
<1>3. /\ Modules!Modules \subseteq Modules!Files /\ Modules!Targets \subseteq Nat
      /\ Modules!Modules = 1 .. NumModules
  BY DEF Modules!Files, Modules!Targets, Modules!Archives, Modules!ZIP_TGT_UNKNOWN,
         Modules!ZIP_TGT_ROOTFS, Modules!ZIP_TGT_OPT, Modules!Modules
<1>4. Modules!TypeOK'
  BY <1>1, <1>2, <1>3 DEF Modules!TypeOK
<1>5. ASSUME NEW m \in Modules!Modules
      PROVE  PlacedFor(m)' /\ PlacedInTime(m)' /\ ~(m < i')
  <2>1. ziptgt'[m] = chosen'[m] /\ chosen'[m] \in Nat /\ Modules!Needs(m)' = Modules!Needs(m)
    BY <1>1, <1>2, <1>3 DEF Modules!Needs
  <2>2. m \in Modules!Needs(m)'
    BY <1>2, <2>1, NeedsClosed
  <2> QED BY <1>1, <1>3, <2>1, <2>2 DEF PlacedFor, PlacedInTime
<1> QED BY <1>1, <1>4, <1>5 DEF ModulesInv

LEMMA PlaceModules == RealModules /\ ModulesInv /\ Modules!PlaceDependencies => ModulesInv'
<1> SUFFICES ASSUME RealModules, ModulesInv, Modules!PlaceDependencies PROVE ModulesInv'
  OBVIOUS
<1> DEFINE Moved(m) == Modules!MustMove(m)
<1>1. /\ pc = "compute" /\ i <= NumModules /\ i' = i + 1 /\ files = chosen
      /\ ziptgt' = [m \in Modules!Modules |-> IF Moved(m) THEN ziptgt[i] ELSE ziptgt[m]]
      /\ loop' = (loop \/ \E m \in Modules!Modules : Moved(m))
      /\ UNCHANGED <<deps, files, pc, res, chosen>>
  BY DEF Modules!PlaceDependencies, ModulesInv
<1>2. /\ deps \in [Modules!Modules -> SUBSET Modules!Modules]
      /\ ziptgt \in [Modules!Modules -> Modules!Targets]
      /\ chosen \in [Modules!Files -> Modules!Targets]
      /\ i \in 1 .. NumModules + 1 /\ loop \in BOOLEAN /\ NumModules \in Nat
  BY DEF ModulesInv, Modules!TypeOK, RealModules
<1>3. /\ Modules!Modules \subseteq Modules!Files /\ Modules!Targets \subseteq Nat
      /\ Modules!Modules = 1 .. NumModules /\ i \in Modules!Modules
  BY <1>1, <1>2 DEF Modules!Files, Modules!Targets, Modules!Archives, Modules!ZIP_TGT_UNKNOWN,
         Modules!ZIP_TGT_ROOTFS, Modules!ZIP_TGT_OPT, Modules!Modules
<1>4. Modules!TypeOK'
  BY <1>1, <1>2, <1>3 DEF Modules!TypeOK, ModulesInv
<1>5. \A m \in Modules!Modules :
        Moved(m) <=> /\ ziptgt[i] # 0 /\ m \in deps[i]
                     /\ ziptgt[m] = 0 \/ ziptgt[i] < ziptgt[m]
  BY DEF Modules!MustMove, Modules!ZIP_TGT_UNKNOWN
<1>6. \A m \in Modules!Modules : ziptgt[m] \in Nat /\ chosen[m] \in Nat
  BY <1>2, <1>3
<1> HIDE DEF Moved
<1>7. ASSUME NEW m \in Modules!Modules
      PROVE  PlacedFor(m)' /\ PlacedInTime(m)'
  <2>1. PlacedFor(m) /\ PlacedInTime(m) /\ PlacedFor(i)
    BY <1>1, <1>3 DEF ModulesInv
  <2>2. \A c \in Modules!Modules : Modules!Needs(c)' = Modules!Needs(c)
    BY <1>1 DEF Modules!Needs
  <2>3. CASE Moved(m)
    <3>1. PICK c \in Modules!Modules : chosen[c] = ziptgt[i] /\ i \in Modules!Needs(c)
      BY <1>5, <2>1, <2>3 DEF PlacedFor
    <3>2. m \in Modules!Needs(c)
      BY <1>2, <1>5, <2>3, <3>1, NeedsClosed
    <3>3. PlacedFor(m)'
      BY <1>1, <2>2, <2>3, <3>1, <3>2 DEF PlacedFor
    <3>4. PlacedInTime(m)'
      BY <1>1, <1>3, <1>5, <1>6, <2>1, <2>3 DEF PlacedInTime
    <3> QED BY <3>3, <3>4
  <2>4. CASE ~Moved(m)
    BY <1>1, <2>1, <2>2, <2>4 DEF PlacedFor, PlacedInTime
  <2> QED BY <2>3, <2>4
<1>8. ASSUME ~loop', NEW m \in Modules!Modules, m < i'
      PROVE  Settled(m)'
  <2>1. ~loop /\ \A d \in Modules!Modules : ~Moved(d)
    BY <1>1, <1>2, <1>8
  <2>2. \A d \in Modules!Modules : ziptgt'[d] = ziptgt[d]
    BY <1>1, <2>1
  <2>3. m < i \/ m = i
    BY <1>1, <1>2, <1>3, <1>8
  <2>4. Settled(m)
    <3>1. CASE m < i
      BY <1>1, <2>1, <3>1 DEF ModulesInv
    <3>2. CASE m = i
      <4>1. ASSUME ziptgt[i] # 0, NEW d \in deps[i]
            PROVE  ziptgt[d] # 0 /\ ziptgt[d] <= ziptgt[i]
        <5>1. d \in Modules!Modules
          BY <1>2, <1>3
        <5> QED BY <1>3, <1>5, <1>6, <2>1, <4>1, <5>1
      <4> QED BY <3>2, <4>1 DEF Settled
    <3> QED BY <2>3, <3>1, <3>2
  <2> QED BY <1>1, <1>2, <2>2, <2>4 DEF Settled
<1> QED BY <1>1, <1>4, <1>7, <1>8 DEF ModulesInv

LEMMA NextModulesRound == RealModules /\ ModulesInv /\ Modules!NextRound => ModulesInv'
<1> SUFFICES ASSUME RealModules, ModulesInv, Modules!NextRound PROVE ModulesInv'
  OBVIOUS
<1>1. /\ pc = "compute" /\ i > NumModules /\ i' = 1 /\ loop' = FALSE /\ files = chosen
      /\ pc' = IF loop THEN "compute" ELSE IF res = "OK" THEN "add" ELSE "done"
      /\ UNCHANGED <<deps, files, ziptgt, res, chosen>>
  BY DEF Modules!NextRound, ModulesInv
<1>2. /\ i \in 1 .. NumModules + 1 /\ loop \in BOOLEAN /\ NumModules \in Nat
      /\ Modules!Modules = 1 .. NumModules
  BY DEF ModulesInv, Modules!TypeOK, RealModules, Modules!Modules
<1>3. Modules!TypeOK'
  <2>1. i' \in 1 .. NumModules + 1
    BY <1>1, <1>2
  <2>2. pc' \in {"read", "compute", "add", "done"}
    BY <1>1
  <2>3. loop' \in BOOLEAN
    BY <1>1
  <2> QED BY <1>1, <2>1, <2>2, <2>3 DEF Modules!TypeOK, ModulesInv
<1>4. \A m \in Modules!Modules : m < i /\ ~(m < i')
  BY <1>1, <1>2
<1>5. ASSUME NEW m \in Modules!Modules
      PROVE  PlacedFor(m)' /\ PlacedInTime(m)' /\ Settled(m)' = Settled(m)
  BY <1>1 DEF ModulesInv, PlacedFor, PlacedInTime, Settled, Modules!Needs
<1>6. ~loop => \A m \in Modules!Modules : Settled(m)'
  BY <1>1, <1>4, <1>5 DEF ModulesInv
<1> QED BY <1>1, <1>3, <1>4, <1>5, <1>6 DEF ModulesInv

LEMMA AddModules == RealModules /\ ModulesInv /\ Modules!AddMissing => ModulesInv'
<1> SUFFICES ASSUME RealModules, ModulesInv, Modules!AddMissing PROVE ModulesInv'
  OBVIOUS
<1>1. /\ pc = "add" /\ i <= NumModules /\ i' = i + 1
      /\ UNCHANGED <<deps, ziptgt, pc, loop, chosen>>
      /\ \/ ziptgt[i] = 0 /\ UNCHANGED <<files, res>>
         \/ /\ ziptgt[i] # 0 /\ UNCHANGED res
            /\ files' = [files EXCEPT ![i] = IF files[i] = 0 \/ ziptgt[i] < files[i]
                                             THEN ziptgt[i] ELSE files[i]]
         \/ res' = "ERR" /\ UNCHANGED files
  BY DEF Modules!AddMissing, Modules!add_zip_list_entry, Modules!ZIP_TGT_UNKNOWN
<1>2. /\ ziptgt \in [Modules!Modules -> Modules!Targets]
      /\ chosen \in [Modules!Files -> Modules!Targets]
      /\ files \in [Modules!Files -> Modules!Targets]
      /\ i \in 1 .. NumModules + 1 /\ NumModules \in Nat /\ res \in {"OK", "ERR"}
  BY DEF ModulesInv, Modules!TypeOK, RealModules
<1>3. /\ Modules!Modules \subseteq Modules!Files /\ Modules!Targets \subseteq Nat
      /\ Modules!Modules = 1 .. NumModules /\ i \in Modules!Modules
  BY <1>1, <1>2 DEF Modules!Files, Modules!Targets, Modules!Archives, Modules!ZIP_TGT_UNKNOWN,
         Modules!ZIP_TGT_ROOTFS, Modules!ZIP_TGT_OPT, Modules!Modules
<1>4. Modules!TypeOK'
  <2>1. files' \in [Modules!Files -> Modules!Targets] /\ res' \in {"OK", "ERR"}
    BY <1>1, <1>2, <1>3
  <2> QED BY <1>1, <1>2, <2>1 DEF Modules!TypeOK, ModulesInv
<1>5. ASSUME NEW m \in Modules!Modules
      PROVE  PlacedFor(m)' /\ PlacedInTime(m)' /\ Settled(m)' = Settled(m)
  BY <1>1 DEF ModulesInv, PlacedFor, PlacedInTime, Settled, Modules!Needs
<1>6. ASSUME res' = "OK", NEW m \in Modules!Modules
      PROVE  files'[m] = IF m < i' THEN ziptgt'[m] ELSE chosen'[m]
  <2>1. res = "OK" /\ files[m] = IF m < i THEN ziptgt[m] ELSE chosen[m]
    BY <1>1, <1>6 DEF ModulesInv
  <2>2. CASE m = i
    <3>1. PlacedInTime(i) /\ files[i] = chosen[i]
      BY <1>1, <1>2, <1>3, <2>1, <2>2 DEF ModulesInv
    <3>2. files'[i] = ziptgt[i]
      <4>1. chosen[i] \in Nat /\ ziptgt[i] \in Nat
        BY <1>2, <1>3
      <4> QED BY <1>1, <1>2, <1>3, <1>6, <3>1, <4>1 DEF PlacedInTime
    <3> QED BY <1>1, <1>2, <2>2, <3>2
  <2>3. CASE m # i
    <3>1. files'[m] = files[m] /\ (m < i' <=> m < i)
      BY <1>1, <1>2, <1>3, <2>3
    <3> QED BY <1>1, <2>1, <3>1
  <2> QED BY <2>2, <2>3
<1>7. res' = "OK" => res = "OK"
  BY <1>1
<1> QED BY <1>1, <1>4, <1>5, <1>6, <1>7 DEF ModulesInv

LEMMA FinishModules == RealModules /\ ModulesInv /\ Modules!Finish => ModulesInv'
<1> SUFFICES ASSUME RealModules, ModulesInv, Modules!Finish PROVE ModulesInv'
  OBVIOUS
<1>1. /\ pc = "add" /\ i > NumModules /\ pc' = "done"
      /\ UNCHANGED <<deps, files, ziptgt, i, loop, res, chosen>>
  BY DEF Modules!Finish
<1>2. i \in 1 .. NumModules + 1 /\ NumModules \in Nat /\ Modules!Modules = 1 .. NumModules
  BY DEF ModulesInv, Modules!TypeOK, RealModules, Modules!Modules
<1>3. Modules!TypeOK'
  BY <1>1 DEF Modules!TypeOK, ModulesInv
<1>4. ASSUME NEW m \in Modules!Modules
      PROVE  PlacedFor(m)' /\ PlacedInTime(m)' /\ Settled(m)' = Settled(m) /\ m < i
  BY <1>1, <1>2 DEF ModulesInv, PlacedFor, PlacedInTime, Settled, Modules!Needs
<1> QED BY <1>1, <1>3, <1>4 DEF ModulesInv

LEMMA NextModules == RealModules /\ ModulesInv /\ [Modules!Next]_(Modules!vars) => ModulesInv'
<1> SUFFICES ASSUME RealModules, ModulesInv, [Modules!Next]_(Modules!vars) PROVE ModulesInv'
  OBVIOUS
<1>1. CASE UNCHANGED Modules!vars
  <2>1. UNCHANGED <<deps, files, ziptgt, pc, i, loop, res, chosen>>
    BY <1>1 DEF Modules!vars
  <2>2. Modules!TypeOK'
    BY <2>1 DEF Modules!TypeOK, ModulesInv
  <2>3. ASSUME NEW m \in Modules!Modules
        PROVE  PlacedFor(m)' = PlacedFor(m) /\ PlacedInTime(m)' = PlacedInTime(m)
               /\ Settled(m)' = Settled(m)
    BY <2>1 DEF PlacedFor, PlacedInTime, Settled, Modules!Needs
  <2> QED BY <2>1, <2>2, <2>3 DEF ModulesInv
<1> QED BY <1>1, ReadModules, PlaceModules, NextModulesRound, AddModules, FinishModules
        DEF Modules!Next

(* The earliest archive of what chosen modules need. *)
LEMMA EarliestIs ==
  ASSUME NEW A \in SUBSET Nat, NEW t \in A, \A u \in A : t <= u
  PROVE  Modules!Earliest(A) = t
<1>1. \A x \in A : (\A u \in A : x <= u) => x = t
  OBVIOUS
<1> QED BY <1>1 DEF Modules!Earliest

LEMMA ModulesWanted ==
  ASSUME RealModules, ModulesInv, pc = "done"
  PROVE  Modules!PlacedRight
<1> SUFFICES ASSUME res = "OK", NEW m \in Modules!Modules PROVE files[m] = Modules!Wanted(m)
  BY DEF Modules!PlacedRight
<1> DEFINE For == {c \in Modules!Modules : chosen[c] # 0 /\ m \in Modules!Needs(c)}
           A == {chosen[n] : n \in For}
<1>1. /\ files[m] = ziptgt[m]
      /\ \A n \in Modules!Modules : Settled(n) /\ PlacedFor(n) /\ PlacedInTime(n)
  BY DEF ModulesInv
<1>2. /\ deps \in [Modules!Modules -> SUBSET Modules!Modules]
      /\ \A n \in Modules!Modules : ziptgt[n] \in Nat /\ chosen[n] \in Nat
  BY DEF ModulesInv, Modules!TypeOK, Modules!Files, Modules!Targets, Modules!Archives,
         Modules!ZIP_TGT_UNKNOWN, Modules!ZIP_TGT_ROOTFS, Modules!ZIP_TGT_OPT
<1>3. ASSUME NEW c \in For
      PROVE  ziptgt[m] # 0 /\ ziptgt[m] <= chosen[c]
  <2> DEFINE S == {n \in Modules!Modules : ziptgt[n] # 0 /\ ziptgt[n] <= ziptgt[c]}
  <2>1. ziptgt[c] # 0 /\ ziptgt[c] <= chosen[c]
    BY <1>1 DEF PlacedInTime
  <2>2. c \in S /\ S \in SUBSET Modules!Modules
    BY <1>2, <2>1
  <2>3. ASSUME NEW s \in S, NEW d \in deps[s]
        PROVE  d \in S
    <3>1. d \in Modules!Modules /\ ziptgt[d] # 0 /\ ziptgt[d] <= ziptgt[s]
      BY <1>1, <1>2 DEF Settled
    <3>2. ziptgt[d] \in Nat /\ ziptgt[s] \in Nat /\ ziptgt[c] \in Nat /\ ziptgt[s] <= ziptgt[c]
      BY <1>2, <3>1
    <3> QED BY <3>1, <3>2
  <2>4. m \in S
    <3> HIDE DEF S
    <3> QED BY <2>2, <2>3 DEF Modules!Needs
  <2> QED BY <1>2, <2>1, <2>4
<1>4. Modules!Wanted(m) = Modules!Earliest(A)
  BY DEF Modules!Wanted, Modules!ZIP_TGT_UNKNOWN
<1>5. CASE ziptgt[m] = 0
  <2>1. A = {}
    BY <1>3, <1>5
  <2> QED BY <1>1, <1>4, <1>5, <2>1 DEF Modules!Earliest, Modules!ZIP_TGT_UNKNOWN
<1>6. CASE ziptgt[m] # 0
  <2>1. ziptgt[m] \in A
    BY <1>1, <1>6 DEF PlacedFor
  <2>2. A \in SUBSET Nat /\ \A u \in A : ziptgt[m] <= u
    BY <1>2, <1>3
  <2> HIDE DEF A
  <2> QED BY <1>1, <1>4, <2>1, <2>2, EarliestIs
<1> QED BY <1>5, <1>6

-----------------------------------------------------------------------------
(* The hash map *)

(* The proofs about the map and the libraries are about these instances of  *)
(* them, too.                                                              *)
Proofs == INSTANCE MkfliProofs WITH
  Entries <- DOMAIN MCKeyOf, KeyOf <- MCKeyOf, Hash <- [k \in {key1, key2, key3} |-> 0],
  ElfFiles <- MCElfFiles, Symlinks <- {link}, DirOf <- MCDirOf, SonameOf <- MCSonameOf,
  RpathOf <- MCRpathOf, NeededBy <- MCNeededBy, Shipped <- MCElfFiles \ {pppd, ip},
  Choices <- MCChoices, ziptgt <- file_ziptgt, chosen <- file_chosen

MapsAgree ==
  /\ Map!Keys = Proofs!Keys /\ Map!Buckets = Proofs!Buckets
  /\ \A k : /\ Map!Places(k) = Proofs!Places(k) /\ Map!Found(k) = Proofs!Found(k)
            /\ Map!PlaceOf(k) = Proofs!PlaceOf(k) /\ Map!Got(k) = Proofs!Got(k)
  /\ Map!Size = Proofs!Size

LEMMA SameMap == MapsAgree
<1>1. Map!Keys = Proofs!Keys
  BY DEF Map!Keys, Proofs!Keys
<1>2. Map!Buckets = Proofs!Buckets
  BY <1>1 DEF Map!Buckets, Proofs!Buckets
<1>3. ASSUME NEW k
      PROVE  /\ Map!Places(k) = Proofs!Places(k) /\ Map!Found(k) = Proofs!Found(k)
             /\ Map!PlaceOf(k) = Proofs!PlaceOf(k) /\ Map!Got(k) = Proofs!Got(k)
  BY DEF Map!Places, Proofs!Places, Map!Found, Proofs!Found, Map!PlaceOf, Proofs!PlaceOf,
         Map!Got, Proofs!Got
<1>4. Map!Size = Proofs!Size
  BY DEF Map!Size, Proofs!Size, Map!Buckets, Proofs!Buckets, Map!Keys, Proofs!Keys
<1> QED BY <1>1, <1>2, <1>3, <1>4 DEF MapsAgree

LEMMA SameMapLater == MapsAgree'
BY SameMap, PTL

LEMMA SameMapInit == Map!Init => Proofs!Init
BY SameMap DEF MapsAgree, Map!Init, Proofs!Init

LEMMA SameMapNext == Map!Next => Proofs!Next
BY SameMap
   DEF MapsAgree, Map!Next, Proofs!Next, Map!Replace, Proofs!Replace, Map!FillHole,
       Proofs!FillHole, Map!Grow, Proofs!Grow, Map!Remove, Proofs!Remove, Map!Destroy,
       Proofs!Destroy, Map!Puts, Proofs!Puts, Map!Destructor, Proofs!Destructor

LEMMA SameVars == Map!vars = Proofs!vars /\ Map!vars' = Proofs!vars'
BY DEF Map!vars, Proofs!vars, Map!buckets, Proofs!buckets

LEMMA SameMapAbs ==
  /\ Proofs!Abs!Init => Map!Abs!Init
  /\ [Proofs!Abs!Next]_(Proofs!Abs!vars) => [Map!Abs!Next]_(Map!Abs!vars)
<1>1. Proofs!Abs!Init => Map!Abs!Init
  BY SameMap DEF MapsAgree, Proofs!Abs!Init, Map!Abs!Init
<1>2. Map!Abs!vars = Proofs!Abs!vars /\ Map!Abs!vars' = Proofs!Abs!vars'
  BY SameMap, SameMapLater DEF MapsAgree, Map!Abs!vars, Proofs!Abs!vars
<1>3. ASSUME NEW h, Proofs!Abs!Becomes(h)
      PROVE  Map!Abs!Becomes(h)
  <2>1. \A S : Proofs!Abs!Cardinality(S) = Map!Abs!Cardinality(S)
    BY DEF Proofs!Abs!Cardinality, Map!Abs!Cardinality
  <2> QED BY <1>3, <2>1, SameMap, SameMapLater
          DEF MapsAgree, Proofs!Abs!Becomes, Map!Abs!Becomes
<1>4. UNION {Proofs!Got(k) : k \in Proofs!Keys} = UNION {Map!Got(k) : k \in Map!Keys}
  BY SameMap DEF MapsAgree
<1>5. ASSUME Proofs!Abs!Next
      PROVE  Map!Abs!Next
  <2>1. ASSUME NEW e \in DOMAIN MCKeyOf, Proofs!Abs!Put(e)
        PROVE  Map!Abs!Put(e)
    BY <1>3, <1>4, <2>1 DEF Proofs!Abs!Put, Map!Abs!Put
  <2>2. ASSUME NEW e \in DOMAIN MCKeyOf, Proofs!Abs!Remove(MCKeyOf[e])
        PROVE  Map!Abs!Remove(MCKeyOf[e])
    BY <1>3, <1>4, <2>2 DEF Proofs!Abs!Remove, Map!Abs!Remove
  <2>3. Proofs!Abs!Destroy => Map!Abs!Destroy
    BY <1>3 DEF Proofs!Abs!Destroy, Map!Abs!Destroy
  <2> QED BY <1>5, <2>1, <2>2, <2>3 DEF Proofs!Abs!Next, Map!Abs!Next
<1> QED BY <1>1, <1>2, <1>5

LEMMA SameMapInv ==
  Proofs!MapInv => Map!TypeOK /\ Map!FreeListExact
<1> SUFFICES ASSUME Proofs!MapInv PROVE Map!TypeOK /\ Map!FreeListExact
  OBVIOUS
<1>1. Proofs!TypeOK => Map!TypeOK
  BY SameMap DEF MapsAgree, Proofs!TypeOK, Map!TypeOK
<1>2. Proofs!FreeListExact => Map!FreeListExact
  <2>1. \A S : Proofs!Cardinality(S) = Map!Cardinality(S)
    BY DEF Proofs!Cardinality, Map!Cardinality
  <2> QED BY <2>1, SameMap DEF MapsAgree, Proofs!FreeListExact, Map!FreeListExact
<1>3. Proofs!TypeOK /\ Proofs!FreeListExact
  BY Proofs!FreeListOfInv DEF Proofs!MapInv
<1> QED BY <1>1, <1>2, <1>3

LEMMA EntriesReal == Proofs!RealEntries
<1>1. IsFiniteSet((((({} \cup {a1}) \cup {a2}) \cup {b1}) \cup {b2}) \cup {c1})
  <2>1. \A S, x : IsFiniteSet(S) => IsFiniteSet(S \cup {x})
    BY FS_AddElement
  <2> QED BY <2>1, FS_EmptySet
<1>2. DOMAIN MCKeyOf = (((({} \cup {a1}) \cup {a2}) \cup {b1}) \cup {b2}) \cup {c1}
  BY DEF MCKeyOf
<1>3. IsFiniteSet(DOMAIN MCKeyOf)
  BY <1>1, <1>2
<1>4. Proofs!IsFiniteSet(DOMAIN MCKeyOf)
  BY <1>3 DEF Proofs!IsFiniteSet, IsFiniteSet
<1> QED BY <1>4, ProgramsAssumption DEF Proofs!RealEntries

-----------------------------------------------------------------------------
(* The libraries *)

LEMMA FilesReal == Proofs!RealFiles
<1>1. Proofs!Archive!Files = MCFiles /\ MCElfFiles \subseteq MCFiles
  BY DEF Proofs!Archive!Files, MCFiles
<1>2. Proofs!IsFiniteSet(MCFiles)
  <2>1. \A S, x : IsFiniteSet(S) => IsFiniteSet(S \cup {x})
    BY FS_AddElement
  <2>2. IsFiniteSet((((((({} \cup {pppd}) \cup {ip}) \cup {libc}) \cup {libcrypt})
                      \cup {libcrypt_own}) \cup {libz}) \cup {link})
    BY <2>1, FS_EmptySet
  <2>3. MCFiles = (((((({} \cup {pppd}) \cup {ip}) \cup {libc}) \cup {libcrypt})
                      \cup {libcrypt_own}) \cup {libz}) \cup {link}
    BY DEF MCFiles, MCElfFiles
  <2> QED BY <2>2, <2>3 DEF Proofs!IsFiniteSet, IsFiniteSet
<1>3. MCChoices \subseteq [MCFiles -> Proofs!Archive!Targets]
  BY DEF MCChoices, Proofs!Archive!Targets
<1>4. ASSUME NEW f \in MCFiles
      PROVE  Len(MCNeededBy[f]) \in Nat /\ DOMAIN MCNeededBy[f] = 1 .. Len(MCNeededBy[f])
  <2> DEFINE T == {libc, libz, libcrypt, libm}
  <2>1. libc \in T /\ libz \in T /\ libcrypt \in T /\ libm \in T
    OBVIOUS
  <2>2. MCNeededBy[f] \in {<<libc>>, <<libz, libc>>, <<libcrypt, libm>>, <<libz>>, <<>>}
    BY DEF MCNeededBy
  <2> HIDE DEF T
  <2>3. /\ <<libc>> \in Seq(T) /\ <<libz, libc>> \in Seq(T) /\ <<libcrypt, libm>> \in Seq(T)
        /\ <<libz>> \in Seq(T) /\ <<>> \in Seq(T)
    BY <2>1
  <2>4. MCNeededBy[f] \in Seq(T)
    BY <2>2, <2>3
  <2> QED BY <2>4
<1>5. \A f \in {link} \ MCElfFiles : MCNeededBy[f] = <<>>
  BY DEF MCNeededBy, MCElfFiles, MCFiles
<1> QED BY <1>1, <1>2, <1>3, <1>4, <1>5, ProgramsAssumption DEF Proofs!RealFiles

LEMMA SameLookUps ==
  /\ Libs!Files = Proofs!Archive!Files /\ Libs!Targets = Proofs!Archive!Targets
  /\ Libs!Listed = Proofs!Archive!Listed
  /\ \A r, n : /\ Libs!try_to_resolve(r, n) = Proofs!Archive!try_to_resolve(r, n)
              /\ Libs!to_add(r, n) = Proofs!Archive!to_add(r, n)
<1>1. /\ Libs!Files = Proofs!Archive!Files /\ Libs!Targets = Proofs!Archive!Targets
      /\ Libs!Listed = Proofs!Archive!Listed
  BY DEF Libs!Files, Proofs!Archive!Files, Libs!Targets, Proofs!Archive!Targets, Libs!Listed,
         Proofs!Archive!Listed, Libs!ZIP_TGT_UNKNOWN, Proofs!Archive!ZIP_TGT_UNKNOWN
<1>2. /\ \A p, S : Libs!FirstIn(p, S) = Proofs!Archive!FirstIn(p, S)
      /\ \A n, S : Libs!Named(n, S) = Proofs!Archive!Named(n, S)
      /\ \A r : Libs!SearchPath(r) = Proofs!Archive!SearchPath(r)
  BY DEF Libs!FirstIn, Proofs!Archive!FirstIn, Libs!Named, Proofs!Archive!Named,
         Libs!SearchPath, Proofs!Archive!SearchPath, Libs!GlobalPath, Proofs!Archive!GlobalPath
<1> QED BY <1>1, <1>2 DEF Libs!try_to_resolve, Proofs!Archive!try_to_resolve,
                          Libs!to_add, Proofs!Archive!to_add

LEMMA SameLibsInit == Libs!Init => Proofs!Archive!Init
<1>1. \A S : Libs!Orders(S) = Proofs!Archive!Orders(S)
  BY DEF Libs!Orders, Proofs!Archive!Orders, Libs!Cardinality, Proofs!Archive!Cardinality
<1> QED BY <1>1, SameLookUps DEF Libs!Init, Proofs!Archive!Init

LEMMA SameLibsNext ==
  [Libs!Next]_(Libs!vars) => [Proofs!Archive!Next]_(Proofs!Archive!vars)
<1>1. /\ Libs!Root = Proofs!Archive!Root /\ Libs!Depth = Proofs!Archive!Depth
      /\ Libs!Depender = Proofs!Archive!Depender /\ Libs!Need = Proofs!Archive!Need
      /\ Libs!Soname = Proofs!Archive!Soname /\ Libs!Working = Proofs!Archive!Working
  BY DEF Libs!Root, Proofs!Archive!Root, Libs!Depth, Proofs!Archive!Depth,
         Libs!Depender, Proofs!Archive!Depender, Libs!Need, Proofs!Archive!Need,
         Libs!Soname, Proofs!Archive!Soname, Libs!Working, Proofs!Archive!Working
<1>2. Libs!Resolved = Proofs!Archive!Resolved
  BY <1>1, SameLookUps DEF Libs!Resolved, Proofs!Archive!Resolved
<1>3. \A f : Libs!Descend(f) <=> Proofs!Archive!Descend(f)
  BY <1>1 DEF Libs!Descend, Proofs!Archive!Descend
<1>4. Libs!StartRoot \/ Libs!SkipRoot => Proofs!Archive!StartRoot \/ Proofs!Archive!SkipRoot
  BY DEF Libs!StartRoot, Proofs!Archive!StartRoot, Libs!SkipRoot, Proofs!Archive!SkipRoot,
         Libs!AtRoots, Proofs!Archive!AtRoots, Libs!IsPrimary, Proofs!Archive!IsPrimary
<1>5. Libs!Present => Proofs!Archive!Present
  BY <1>1, <1>2, <1>3 DEF Libs!Present, Proofs!Archive!Present
<1>6. Libs!Added => Proofs!Archive!Added
  BY <1>1, <1>2, <1>3, SameLookUps DEF Libs!Added, Proofs!Archive!Added
<1>7. Libs!Missing => Proofs!Archive!Missing
  BY <1>1, <1>2, SameLookUps DEF Libs!Missing, Proofs!Archive!Missing
<1>8. Libs!Return => Proofs!Archive!Return
  BY <1>1 DEF Libs!Return, Proofs!Archive!Return
<1>9. Libs!vars = Proofs!Archive!vars /\ Libs!vars' = Proofs!Archive!vars'
  BY DEF Libs!vars, Proofs!Archive!vars
<1> QED BY <1>4, <1>5, <1>6, <1>7, <1>8, <1>9 DEF Libs!Next, Proofs!Archive!Next

LEMMA SameLibsRight ==
  /\ Proofs!LibsInv => Libs!TypeOK
  /\ Libs!Done => Proofs!Archive!Done
  /\ Proofs!Archive!PlacedRight => Libs!PlacedRight
<1>1. Proofs!LibsInv => Libs!TypeOK
  BY SameLookUps DEF Proofs!LibsInv, Proofs!Archive!TypeOK, Libs!TypeOK
<1>2. Libs!Done => Proofs!Archive!Done
  BY DEF Libs!Done, Proofs!Archive!Done
<1>3. \A f : Libs!Brings(f) = Proofs!Archive!Brings(f)
  BY SameLookUps DEF Libs!Brings, Proofs!Archive!Brings
<1>4. \A g : Libs!For(g) = Proofs!Archive!For(g)
  BY <1>3, SameLookUps DEF Libs!For, Proofs!Archive!For, Libs!ZIP_TGT_UNKNOWN,
                           Proofs!Archive!ZIP_TGT_UNKNOWN
<1>5. Proofs!Archive!PlacedRight => Libs!PlacedRight
  BY <1>4, SameLookUps DEF Libs!PlacedRight, Proofs!Archive!PlacedRight,
                           Libs!ZIP_TGT_UNKNOWN, Proofs!Archive!ZIP_TGT_UNKNOWN
<1> QED BY <1>1, <1>2, <1>5

-----------------------------------------------------------------------------
(* What always holds *)

LEMMA SafePrograms == PSpec => PInit /\ [][PNext]_PVars
BY PTL DEF PSpec

(* A client of imond may do exactly what its own connection has earned, for *)
(* any number of slots and any passwords.                                  *)
THEOREM RightsAreEarned == PSpec => []RightsEarned
<1>1. PInit => ClientsInv
  BY ProgramsBegin, InitClients
<1>2. ClientsInv /\ [PNext]_PVars => ClientsInv'
  BY ProgramsAssumption, ProgramsStep, NextClients
<1>3. ClientsInv => RightsEarned
  BY DEF ClientsInv, RightsEarned
<1> QED BY <1>1, <1>2, <1>3, SafePrograms, PTL

(* For all years of our era, imond's holidays are those of the church's     *)
(* calendar, whatever year it was asked for before.                        *)
THEOREM HolidaysAreRight == PSpec => []HolidaysRight
<1>1. PInit => HolidaysInv
  BY ProgramsBegin DEF HolidaysInv, Holiday!Init
<1>2. HolidaysInv /\ [PNext]_PVars => HolidaysInv'
  BY ProgramsAssumption, ProgramsStep, NextHolidays
<1>3. HolidaysInv => HolidaysRight
  BY ProgramsAssumption, HolidaysKnown DEF HolidaysRight
<1> QED BY <1>1, <1>2, <1>3, SafePrograms, PTL

(* When resolve_dependencies() ends without an error, every kernel module,  *)
(* of any number with any dependencies, lies in the earliest archive a     *)
(* chosen one needs it in: what ModulesPlaced says of the end.             *)
THEOREM ModulesEndRight == PSpec => [](pc = "done" => Modules!PlacedRight)
<1>1. PInit => ModulesInv
  BY ModulesReal, ProgramsBegin, InitModules
<1>2. ModulesInv /\ [PNext]_PVars => ModulesInv'
  BY ModulesReal, ProgramsStep, NextModules
<1>3. ModulesInv => (pc = "done" => Modules!PlacedRight)
  BY ModulesReal, ModulesWanted
<1> QED BY <1>1, <1>2, <1>3, SafePrograms, PTL

(* The hash map implements the abstract map. *)
THEOREM MapIsAbstract == PSpec => MapAgrees
<1>1. PInit => Proofs!MapInv /\ Map!Abs!Init
  BY ProgramsBegin, EntriesReal, SameMapInit, SameMapAbs, Proofs!InitMap, Proofs!InitAbs
<1>2. Proofs!MapInv /\ [PNext]_PVars => Proofs!MapInv'
  BY ProgramsStep, EntriesReal, SameMapNext, SameVars, Proofs!NextMap
<1>3. Proofs!MapInv /\ [PNext]_PVars => [Map!Abs!Next]_(Map!Abs!vars)
  BY ProgramsStep, EntriesReal, SameMapNext, SameVars, SameMapAbs, Proofs!NextMapAbs
<1> QED BY <1>1, <1>2, <1>3, SafePrograms, PTL DEF MapAgrees

(* When the dependencies of all files are resolved without an error, every  *)
(* file lies in the earliest archive a chosen one needs it in: what        *)
(* LibrariesPlaced says of the end.                                        *)
THEOREM LibrariesEndRight == PSpec => [](Libs!Done => Libs!PlacedRight)
<1>1. PInit => Proofs!LibsInv
  BY ProgramsBegin, FilesReal, SameLibsInit, Proofs!InitLibs
<1>2. Proofs!LibsInv /\ [PNext]_PVars => Proofs!LibsInv'
  BY ProgramsStep, FilesReal, SameLibsNext, Proofs!NextLibs
<1>3. Proofs!LibsInv => (Libs!Done => Libs!PlacedRight)
  BY FilesReal, SameLibsRight, Proofs!LibsPlaced
<1> QED BY <1>1, <1>2, <1>3, SafePrograms, PTL

(* All variables keep their types, and the free lists name the holes. *)
THEOREM ProgramsWellFormed == PSpec => []WellFormed
<1> DEFINE PInv == ImondInv /\ ClientsInv /\ HolidaysInv /\ ModulesInv
                    /\ Proofs!MapInv /\ Proofs!LibsInv
<1>1. PInit => PInv
  <2>1. PInit => ImondInv
    BY ProgramsBegin, InitImondInv, ImondInvIs
  <2>2. PInit => ClientsInv /\ HolidaysInv /\ ModulesInv
    BY ProgramsBegin, InitClients, InitModules, ModulesReal DEF HolidaysInv, Holiday!Init
  <2>3. PInit => Proofs!MapInv /\ Proofs!LibsInv
    BY ProgramsBegin, EntriesReal, SameMapInit, Proofs!InitMap, FilesReal, SameLibsInit,
       Proofs!InitLibs
  <2> QED BY <2>1, <2>2, <2>3
<1>2. PInv /\ [PNext]_PVars => PInv'
  <2> SUFFICES ASSUME PInv, [PNext]_PVars PROVE PInv'
    OBVIOUS
  <2>1. ImondInv'
    <3>1. (Typed /\ CarriersAgree /\ Counts)'
      BY ProgramsStep, ImondInvIs, TypedStep, CarriersStep, CounterStep
    <3>2. (Typed /\ CarriersAgree /\ Counts)' => ImondInv'
      BY ImondInvIs, PTL
    <3> QED BY <3>1, <3>2
  <2>2. ClientsInv' /\ HolidaysInv' /\ ModulesInv'
    BY ProgramsAssumption, ModulesReal, ProgramsStep, NextClients, NextHolidays, NextModules
  <2>3. Proofs!MapInv'
    BY ProgramsStep, EntriesReal, SameMapNext, SameVars, Proofs!NextMap
  <2>4. Proofs!LibsInv'
    BY ProgramsStep, FilesReal, SameLibsNext, Proofs!NextLibs
  <2> QED BY <2>1, <2>2, <2>3, <2>4
<1>3. PInv => WellFormed
  BY ProgramsAssumption, SameMapInv, SameLibsRight, HolidaysKnown
     DEF WellFormed, ImondInv, ClientsInv, ModulesInv
<1> QED BY <1>1, <1>2, <1>3, SafePrograms, PTL
=============================================================================
