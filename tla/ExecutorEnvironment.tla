------------------------ MODULE ExecutorEnvironment ------------------------
(***************************************************************************)
(* The executor closed with the most general environment: any client may   *)
(* present any request with any envelope (or none) at any time, any number *)
(* of times, may give up, and the wall clock may take any value, earlier   *)
(* ones included.  What holds here holds whoever talks to the executor.    *)
(***************************************************************************)
EXTENDS ExecutorService

CONSTANTS
    Requests,        \* requests that may be presented
    Permits,         \* envelopes that may be presented as permits
    Times            \* readings of the wall clock

\* Every envelope presented as a permit has the fields the executor reads.
ASSUME PermitsAssumption ==
    /\ NoPermit \notin Permits
    /\ Times \subseteq Nat
    /\ 0 \in Times
    /\ \A p \in Permits : /\ p.body.issued_at \in Nat
                          /\ p.body.expires_at \in Nat

Messages == Presentable(Permits, Requests)

Busy(c) == c \in Held(execQueue, execJob)

\* UnixJsonClient.call: connect, send the line.  A later call of the same
\* client opens a new socket.
Present(m) ==
    /\ execUp /\ ~ Busy(m.client)
    /\ execQueue' = Append(execQueue, m)
    /\ closed' = closed \ {m.client}
    /\ reply' = [reply EXCEPT ![m.client] = NoReply]
    /\ UNCHANGED <<execUp, execJob, permitLedger, attempts, now>>

\* The client's timeout, or its death.
GiveUp(c) ==
    /\ Busy(c) /\ c \notin closed
    /\ closed' = closed \union {c}
    /\ UNCHANGED <<execVars, now, reply>>

SetClock(t) ==
    /\ now' = t
    /\ UNCHANGED <<execVars, closed, reply>>

Environment ==
    \/ \E m \in Messages : Present(m)
    \/ \E c \in Clients : GiveUp(c)
    \/ \E t \in Times : SetClock(t)

vars == <<execVars, transportVars>>

Init == ExecInit /\ TransportInit
Next == ExecSteps \/ ExecFaults \/ Environment
Spec == Init /\ [][Next]_vars

-----------------------------------------------------------------------------
TypeOK ==
    /\ now \in Nat
    /\ closed \subseteq Clients
    /\ ExecTypeOK(Permits, Requests)

\* The inductive invariant behind the executor's two properties.
IInv == TypeOK /\ ExecSound

=============================================================================
