-------------------------- MODULE PairingContract --------------------------
(***************************************************************************)
(* What QR pairing promises, without sessions, accounts or time: a code    *)
(* belongs to the host that asked for it, is claimed by one other session  *)
(* at most once, pairs those two or nobody, and is never usable again.     *)
(* RelayServer implements this specification.                              *)
(***************************************************************************)
CONSTANTS Code, Party, None

VARIABLE code  \* per code: its stage, and the parties it concerns

Stage == {"fresh", "offered", "claimed", "paired", "void"}

State(stage, host, client) == [stage |-> stage, host |-> host, client |-> client]

Fresh == State("fresh", None, None)

Void == State("void", None, None)

Init == code = [c \in Code |-> Fresh]

Offered(x, y) == x = Fresh /\ \E h \in Party : y = State("offered", h, None)

Claimed(x, y) ==
  x.stage = "offered" /\ \E p \in Party \ {x.host} : y = State("claimed", x.host, p)

Paired(x, y) == x.stage = "claimed" /\ y = State("paired", x.host, x.client)

Voided(x, y) == x.stage \in {"offered", "claimed"} /\ y = Void

\* One step may void many codes, and moves at most one forward.
Lapse == \A c \in Code : code'[c] = code[c] \/ Voided(code[c], code'[c])

Advance(c) ==
  /\ Offered(code[c], code'[c]) \/ Claimed(code[c], code'[c]) \/ Paired(code[c], code'[c])
  /\ \A d \in Code \ {c} : code'[d] = code[d] \/ Voided(code[d], code'[d])

Next == Lapse \/ \E c \in Code : Advance(c)

\* code is a function on Code throughout.
Shape == DOMAIN code = Code

Spec == Init /\ [][Shape /\ Next]_code
=============================================================================
