------------------------- MODULE GovernedExecution -------------------------
(***************************************************************************)
(* What the appliance promises, without processes, sockets, clocks or      *)
(* crashes: authority to execute is granted, spent at most once, and only  *)
(* spent authority is acted on, once; only what was acted on is certified. *)
(***************************************************************************)
EXTENDS Naturals, Sequences

VARIABLES
    granted,         \* permits that were handed out
    spent,           \* permits that can no longer be used
    performed,       \* permits acted on, in the order of the actions
    certified        \* permits for which a final receipt exists

vars == <<granted, spent, performed, certified>>

Init ==
    /\ granted = {}
    /\ spent = {}
    /\ performed = << >>
    /\ certified = {}

Acted == {performed[i] : i \in DOMAIN performed}

Grant ==
    /\ \E permit \in granted' : granted' = granted \union {permit}
    /\ UNCHANGED <<spent, performed, certified>>

Spend ==
    /\ \E permit \in granted :
          /\ \A other \in spent : other.body.permit_id # permit.body.permit_id
          /\ spent' = spent \union {permit}
    /\ UNCHANGED <<granted, performed, certified>>

Perform ==
    /\ \E permit \in spent \ Acted : performed' = Append(performed, permit)
    /\ UNCHANGED <<granted, spent, certified>>

Certify ==
    /\ \E permit \in Acted : certified' = certified \union {permit}
    /\ UNCHANGED <<granted, spent, performed>>

Next == Grant \/ Spend \/ Perform \/ Certify

Spec == Init /\ [][Next]_vars

=============================================================================
