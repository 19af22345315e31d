----------------------------- MODULE Transport -----------------------------
(***************************************************************************)
(* The Unix-socket JSON transport shared by the appliance services         *)
(* (UnixJsonClient.call and serve_unix_json in appliance.py).              *)
(*                                                                         *)
(* A client makes one call at a time: it connects, sends one line and      *)
(* waits for one line.  A service is a single-threaded accept loop, so its *)
(* listen backlog is a queue of connections with their request line        *)
(* already sent.  A client that gives up (its 5 second timeout, or its     *)
(* death) closes its socket; the request it sent stays queued and will     *)
(* still be handled, but the answer to it raises BrokenPipeError outside   *)
(* the accept loop's try block and ends the service process.               *)
(***************************************************************************)
EXTENDS Naturals, Sequences

CONSTANT Clients           \* the callers: one element per submitted request

VARIABLES
    now,                   \* the wall clock, in ticks
    closed,                \* clients that closed their socket
    reply                  \* reply[c]: the line waiting on c's socket

transportVars == <<now, closed, reply>>

NoReply == [kind |-> "none"]
Reset   == [kind |-> "reset"]     \* connection reset, or closed with no line

TransportInit ==
    /\ now = 0
    /\ closed = {}
    /\ reply = [c \in Clients |-> NoReply]

\* An idle service, and the connections a service process holds.
NoJob == [stage |-> "idle"]
Held(queue, job) ==
    {queue[i].client : i \in DOMAIN queue}
        \union (IF job.stage = "idle" THEN {} ELSE {job.client})

\* The service sends r to client c, which still holds its socket open.
Send(c, r) ==
    /\ c \notin closed
    /\ reply' = [reply EXCEPT ![c] = r]

\* The service process ends: the kernel resets every connection it holds.
ResetHeld(queue, job) ==
    reply' = [c \in Clients |->
                IF c \in Held(queue, job) \ closed THEN Reset ELSE reply[c]]

=============================================================================
