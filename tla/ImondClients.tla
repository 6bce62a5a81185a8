---------------------------- MODULE ImondClients ----------------------------
(***************************************************************************)
(* The clients of imond (base/imond/imond.c): a connection gets the first  *)
(* free of MAX_CLIENTS slots, and the slot keeps what the connection may   *)
(* do.  A slot is used again and again, so what one connection may do must *)
(* not outlive it.                                                         *)
(***************************************************************************)
EXTENDS Naturals

CONSTANTS
  MAX_CLIENTS,
  Passwords,  \* what clients may send
  NoPass      \* no password is configured

VARIABLES
  imond_pass, imond_admin_pass,  \* as main() leaves them
  open,            \* client_fd[i] >= 0
  password_state,
  salted,          \* client_salt[i] is not empty
  local,           \* client_ip[i] is 127.0.0.1
  given            \* history: the passwords the present connection has sent

vars == <<imond_pass, imond_admin_pass, open, password_state, salted, local, given>>

Slots == 0 .. MAX_CLIENTS - 1
NORMAL == "normal"
ADMIN == "admin"
Rights == {NORMAL, ADMIN}

TypeOK ==
  /\ imond_pass \in Passwords \cup {NoPass}
  /\ imond_admin_pass \in Passwords \cup {NoPass}
  /\ open \in [Slots -> BOOLEAN]
  /\ password_state \in [Slots -> SUBSET Rights]
  /\ salted \in [Slots -> BOOLEAN]
  /\ local \in [Slots -> BOOLEAN]
  /\ given \in [Slots -> SUBSET Passwords]

(* password_mode *)
PASS_REQUIRED == imond_pass # NoPass
ADMIN_PASS_REQUIRED == imond_admin_pass # NoPass

(* main: an admin password equal to the other one is dropped. *)
Init ==
  /\ imond_pass \in Passwords \cup {NoPass}
  /\ imond_admin_pass \in (Passwords \cup {NoPass}) \ (IF PASS_REQUIRED THEN {imond_pass} ELSE {})
  /\ open = [i \in Slots |-> FALSE]
  /\ password_state = [i \in Slots |-> {}]
  /\ salted = [i \in Slots |-> FALSE]
  /\ local = [i \in Slots |-> FALSE]
  /\ given = [i \in Slots |-> {}]

(* The first free slot; with none the connection is closed again. *)
FirstFree(i) == ~open[i] /\ \A j \in Slots : j < i => open[j]

AcceptedRights(is_local) ==
  IF is_local THEN Rights
  ELSE IF PASS_REQUIRED THEN {}
  ELSE IF ADMIN_PASS_REQUIRED THEN {NORMAL} ELSE Rights

(* Faulty variant: adds to what the slot was left with. *)
FaultyAccept(i, is_local) ==
  /\ FirstFree(i)
  /\ open' = [open EXCEPT ![i] = TRUE]
  /\ password_state' = [password_state EXCEPT ![i] = @ \cup AcceptedRights(is_local)]
  /\ salted' = [salted EXCEPT ![i] = FALSE]
  /\ local' = [local EXCEPT ![i] = is_local]
  /\ given' = [given EXCEPT ![i] = {}]
  /\ UNCHANGED <<imond_pass, imond_admin_pass>>

Accept(i, is_local) ==
  /\ FirstFree(i)
  /\ open' = [open EXCEPT ![i] = TRUE]
  /\ password_state' = [password_state EXCEPT ![i] = AcceptedRights(is_local)]
  /\ salted' = [salted EXCEPT ![i] = FALSE]
  /\ local' = [local EXCEPT ![i] = is_local]
  /\ given' = [given EXCEPT ![i] = {}]
  /\ UNCHANGED <<imond_pass, imond_admin_pass>>

(* What a password adds. *)
GainedBy(arg) ==
  (IF arg = imond_admin_pass THEN Rights ELSE {})
  \cup (IF arg = imond_pass
        THEN IF imond_admin_pass = NoPass THEN Rights ELSE {NORMAL}
        ELSE {})

Sends(i, arg) ==
  /\ password_state' = [password_state EXCEPT ![i] = @ \cup GainedBy(arg)]
  /\ given' = [given EXCEPT ![i] = @ \cup {arg}]

(* pass *)
Pass(i, arg) ==
  /\ open[i]
  /\ Sends(i, arg)
  /\ UNCHANGED <<imond_pass, imond_admin_pass, open, salted, local>>

(* salt *)
Salt(i) ==
  /\ open[i]
  /\ salted' = [salted EXCEPT ![i] = TRUE]
  /\ UNCHANGED <<imond_pass, imond_admin_pass, open, password_state, local, given>>

(* md5pass, a password hashed with the salt this connection was sent *)
Md5Pass(i, arg) ==
  /\ open[i] /\ salted[i]
  /\ Sends(i, arg)
  /\ UNCHANGED <<imond_pass, imond_admin_pass, open, salted, local>>

(* quit, or the client has closed the connection *)
Quit(i) ==
  /\ open[i]
  /\ open' = [open EXCEPT ![i] = FALSE]
  /\ password_state' = [password_state EXCEPT ![i] = {}]
  /\ UNCHANGED <<imond_pass, imond_admin_pass, salted, local, given>>

(* An answer cannot be written: the slot is freed as it is. *)
WriteFails(i) ==
  /\ open[i]
  /\ open' = [open EXCEPT ![i] = FALSE]
  /\ UNCHANGED <<imond_pass, imond_admin_pass, password_state, salted, local, given>>

Next ==
  \E i \in Slots :
    \/ \E is_local \in BOOLEAN : Accept(i, is_local)
    \/ \E arg \in Passwords : Pass(i, arg) \/ Md5Pass(i, arg)
    \/ Salt(i)
    \/ Quit(i)
    \/ WriteFails(i)

Spec == Init /\ [][Next]_vars

-----------------------------------------------------------------------------
(* Properties *)

(* A connection may do exactly what its origin, the configuration and the   *)
(* passwords it has sent itself entitle it to, whoever used its slot       *)
(* before and however that connection ended.                               *)
Knows(i, pass) == pass # NoPass /\ pass \in given[i]

Earned(i) ==
  {r \in Rights :
     \/ local[i]
     \/ Knows(i, imond_admin_pass)
     \/ /\ ~PASS_REQUIRED \/ Knows(i, imond_pass)
        /\ r = ADMIN => ~ADMIN_PASS_REQUIRED}

RightsEarned == \A i \in Slots : open[i] => password_state[i] = Earned(i)
=============================================================================
