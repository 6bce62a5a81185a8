--------------------------- MODULE AbstractCircuit ---------------------------
(***************************************************************************)
(* The life of a circuit as the documentation describes it (table          *)
(* "Circuit-Zustandsuebergaenge" of the base package) and as fli4lctrl,    *)
(* the web interface and the event scripts rely on it: a circuit is        *)
(* activated before it is dialled, dialled before it goes online, and put  *)
(* back to active, inactive or failed from anywhere.  "semionline" is      *)
(* online with some of the configured layer-3 protocols.                   *)
(***************************************************************************)
CONSTANTS Circuits

VARIABLES state   \* state[c]: the directory under states/ that lists c

AbstractState == {"inactive", "active", "ready", "semionline", "online", "failed"}

Init == state \in [Circuits -> {"inactive", "active", "failed"}]

Becomes(c, s) == state' = [state EXCEPT ![c] = s]

(* fli4lctrl up *)
Up(c) == state[c] \in {"inactive", "failed"} /\ Becomes(c, "active")

(* fli4lctrl dial, or the dial mode "auto" *)
Dial(c) == state[c] = "active" /\ Becomes(c, "ready")

(* layer-3 protocols come up and go down *)
Connect(c) == /\ state[c] \in {"ready", "semionline", "online"}
              /\ \E s \in {"semionline", "online"} : Becomes(c, s)

(* fli4lctrl hangup, a lost connection, a failed attempt to dial *)
Hangup(c) == state[c] \in {"ready", "semionline", "online"} /\ Becomes(c, "active")

(* fli4lctrl down, fli4lctrl fail *)
Down(c) == \E s \in {"inactive", "failed"} : Becomes(c, s)

Next == \E c \in Circuits : Up(c) \/ Dial(c) \/ Connect(c) \/ Hangup(c) \/ Down(c)

Spec == Init /\ [][Next]_state
==============================================================================
