---------------------------- MODULE SessionGate ----------------------------
(***************************************************************************)
(* What AuthService promises the rest of the application, one browser tab  *)
(* at a time: nobody is let in without an accepted password, nobody whose  *)
(* account needs a second factor is let in before that factor was accepted *)
(* for the same sign-in, and a sign-in that was left never comes back.     *)
(***************************************************************************)
CONSTANTS
  Tabs,     (* browser tabs                                               *)
  Logins,   (* identities of accepted sign-ins                            *)
  None      (* no sign-in; not one of Logins                              *)

VARIABLES
  gate,     (* per tab: its phase, the sign-in behind it, and whether that    *)
            (* sign-in is asked for a second factor                          *)
  used      (* the sign-ins accepted so far                               *)

gateVars == <<gate, used>>

Out == [phase |-> "out", login |-> None, second |-> FALSE]

GateInit == gate = [t \in Tabs |-> Out] /\ used = {}

(* The password was accepted; `second` says whether a second factor is asked for. *)
Accept(t, l, second) ==
  /\ l \notin used
  /\ used' = used \cup {l}
  /\ gate' = [gate EXCEPT ![t] =
                [phase |-> IF second THEN "pending" ELSE "in", login |-> l, second |-> second]]

(* The second factor of the sign-in in progress was accepted. *)
Confirm(t) ==
  /\ gate[t].phase = "pending"
  /\ gate' = [gate EXCEPT ![t].phase = "in"]
  /\ UNCHANGED used

Leave(t) ==
  /\ gate' = [gate EXCEPT ![t] = Out]
  /\ UNCHANGED used

GateNext ==
  \E t \in Tabs :
    \/ \E l \in Logins, second \in BOOLEAN : Accept(t, l, second)
    \/ Confirm(t)
    \/ Leave(t)

GateSpec == GateInit /\ [][GateNext]_gateVars
=============================================================================
