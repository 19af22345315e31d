---------------------------- MODULE ServiceLoop ----------------------------
(***************************************************************************)
(* One socket path and the processes behind it: the accept loop of         *)
(* serve_unix_json, from unlinking the path to the end of the process, and *)
(* the calls made to it (UnixJsonClient.call), byte by byte only as far as *)
(* it matters: a peer connects, then sends its line, then waits.           *)
(*                                                                         *)
(* Several instances of a service may be started: each unlinks what it     *)
(* finds at the path and binds its own socket there, while an instance     *)
(* started before keeps its connections.  Strangers are peers that are not *)
(* a UnixJsonClient: they may connect and stay silent for ever.            *)
(***************************************************************************)
EXTENDS Naturals, Sequences

CONSTANTS
    Callers,         \* calls made with UnixJsonClient
    Strangers,       \* other peers
    MaxInstances,    \* bound on the processes started, one after the other
    Backlog          \* connections the listen backlog holds

ASSUME BacklogAssumption == Backlog \in Nat \ {0}

Peers == Callers \union Strangers
Instances == 1 .. MaxInstances

\* "none" stands for no connection.
ASSUME PeersAssumption == "none" \notin Peers

VARIABLES
    path,            \* the instance whose socket the path names, 0 for none
    inst,            \* inst[i]: where instance i is in serve_unix_json
    backlog,         \* backlog[i]: peers connected and not yet accepted
    conn,            \* conn[i]: the peer whose connection is being served
    peer,            \* peer[p]: how far p's call is
    line,            \* line[p]: the operation p has sent
    handled          \* the calls the handlers have worked on, in order

loopVars == <<path, inst, backlog, conn, peer, line, handled>>

Open == {"connected", "sent"}                     \* p waits on its socket
Ended == {"answered", "reset", "refused", "closed"}

LoopInit ==
    /\ path = 0
    /\ inst = [i \in Instances |-> "new"]
    /\ backlog = [i \in Instances |-> << >>]
    /\ conn = [i \in Instances |-> "none"]
    /\ peer = [p \in Peers |-> "idle"]
    /\ line = [p \in Peers |-> "none"]
    /\ handled = << >>

-----------------------------------------------------------------------------
(* The start of a process.                                                 *)

Goto(i, place) == inst' = [inst EXCEPT ![i] = place]

\* path.unlink(), whoever's socket it is.
Unlink(i) ==
    /\ inst[i] = "new" /\ \A j \in 1 .. i - 1 : inst[j] # "new"
    /\ Goto(i, "unlinked")
    /\ path' = 0
    /\ UNCHANGED <<backlog, conn, peer, line, handled>>

\* bind raises when another instance has bound the path in between.
Bind(i) ==
    /\ inst[i] = "unlinked"
    /\ IF path = 0 THEN path' = i /\ Goto(i, "bound")
                   ELSE Goto(i, "ended") /\ UNCHANGED path
    /\ UNCHANGED <<backlog, conn, peer, line, handled>>

\* os.chmod raises when another instance has unlinked the path in between.
Listen(i) ==
    /\ inst[i] = "bound"
    /\ Goto(i, IF path = 0 THEN "ended" ELSE "accepting")
    /\ UNCHANGED <<path, backlog, conn, peer, line, handled>>

-----------------------------------------------------------------------------
(* The peers.                                                              *)

Listening(i) == i # 0 /\ inst[i] \notin {"new", "unlinked", "bound", "ended"}

\* Mutant: one connection more than the backlog holds.
RoomForOneMore(i) == Len(backlog[i]) <= Backlog

RoomIn(i) == Len(backlog[i]) < Backlog

\* sock.connect: refused at once when nothing listens at the path, or when the
\* backlog is full (a socket with a timeout does not wait for room in it).
Connect(p) ==
    /\ peer[p] = "idle"
    /\ IF Listening(path) /\ RoomIn(path)
       THEN /\ peer' = [peer EXCEPT ![p] = "connected"]
            /\ backlog' = [backlog EXCEPT ![path] = Append(@, p)]
       ELSE peer' = [peer EXCEPT ![p] = "refused"] /\ UNCHANGED backlog
    /\ UNCHANGED <<path, inst, conn, line, handled>>

Send(p, op) ==
    /\ peer[p] = "connected"
    /\ peer' = [peer EXCEPT ![p] = "sent"]
    /\ line' = [line EXCEPT ![p] = op]
    /\ UNCHANGED <<path, inst, backlog, conn, handled>>

\* The peer closes its socket: settimeout has run out, or it dies.
Close(p) ==
    /\ peer[p] \in Open
    /\ peer' = [peer EXCEPT ![p] = "closed"]
    /\ UNCHANGED <<path, inst, backlog, conn, line, handled>>

\* Mutant: the timeout covers connect and send, not the wait for the answer.
TimeoutBeforeAnswer(p) == peer[p] = "connected" /\ Close(p)

\* settimeout covers connect, sendall and recv.
Timeout(p) == Close(p)

-----------------------------------------------------------------------------
(* The accept loop.                                                        *)

Accept(i) ==
    /\ inst[i] = "accepting" /\ backlog[i] # << >>
    /\ conn' = [conn EXCEPT ![i] = Head(backlog[i])]
    /\ backlog' = [backlog EXCEPT ![i] = Tail(@)]
    /\ Goto(i, "reading")
    /\ UNCHANGED <<path, peer, line, handled>>

\* Mutant: recv returning nothing is not taken for the end of the line.
ReadableWithLine(p) == line[p] # "none"

\* recv returns: a line has come, or the peer has closed its socket.
Readable(p) == line[p] # "none" \/ peer[p] = "closed"

\* What is read is handled; nothing at all is not JSON, and is answered with an
\* error.
Read(i) ==
    /\ inst[i] = "reading" /\ Readable(conn[i])
    /\ IF line[conn[i]] = "call"
       THEN handled' = Append(handled, conn[i]) /\ Goto(i, "answering")
       ELSE /\ Goto(i, IF line[conn[i]] = "shutdown" THEN "stopping" ELSE "answering")
            /\ UNCHANGED handled
    /\ UNCHANGED <<path, backlog, conn, peer, line>>

\* The process ends: the kernel closes its connections.  The path stays.
EndOf(i, answered) ==
    /\ Goto(i, "ended")
    /\ conn' = [conn EXCEPT ![i] = "none"]
    /\ backlog' = [backlog EXCEPT ![i] = << >>]
    /\ peer' = [p \in Peers |->
                  IF p \in answered THEN "answered"
                  ELSE IF peer[p] \in Open /\ (p = conn[i] \/ \E k \in DOMAIN backlog[i] :
                                                                   backlog[i][k] = p)
                  THEN "reset" ELSE peer[p]]

\* conn.sendall, then back to accept.  A peer that closed its socket makes it
\* raise outside the try block, which ends the process.
Answer(i) ==
    /\ inst[i] = "answering"
    /\ IF peer[conn[i]] = "closed"
       THEN EndOf(i, {})
       ELSE /\ Goto(i, "accepting")
            /\ peer' = [peer EXCEPT ![conn[i]] = "answered"]
            /\ conn' = [conn EXCEPT ![i] = "none"]
            /\ UNCHANGED backlog
    /\ UNCHANGED <<path, line, handled>>

\* A shutdown is answered if that is still possible; the loop is left by
\* `return`, past the unlink that follows it.
Stop(i) ==
    /\ inst[i] = "stopping"
    /\ EndOf(i, {conn[i]} \ {p \in Peers : peer[p] = "closed"})
    /\ UNCHANGED <<path, line, handled>>

Serve(i) == Bind(i) \/ Listen(i) \/ Accept(i) \/ Read(i) \/ Answer(i) \/ Stop(i)

-----------------------------------------------------------------------------
\* Every call made with UnixJsonClient ends, with an answer or with an error,
\* whatever happens to the processes behind the path and although a stranger
\* may hold the only accept loop for ever.
EveryCallReturns ==
    \A c \in Callers : peer[c] \in Open ~> peer[c] \in Ended

\* An instance that took on a call returns to accept or ends: a caller that gives
\* up before or after it sent its line never leaves the loop stuck.
LoopResumes ==
    \A i \in Instances :
        conn[i] \in Callers ~> inst[i] \in {"accepting", "ended"}

-----------------------------------------------------------------------------
(* The strengthening behind what the proofs say of callers.                *)

Places == {"new", "unlinked", "bound", "accepting", "reading", "answering", "stopping", "ended"}

LoopTypes ==
    /\ path \in {0} \union Instances
    /\ inst \in [Instances -> Places]
    /\ backlog \in [Instances -> Seq(Peers)]
    /\ \A i \in Instances : Len(backlog[i]) <= Backlog
    /\ conn \in [Instances -> Peers \union {"none"}]
    /\ \A i \in Instances : inst[i] \in {"reading", "answering", "stopping"} => conn[i] \in Peers
    /\ peer \in [Peers -> {"idle"} \union Open \union Ended]
    /\ handled \in Seq(Peers)

\* The connections an instance has: the one it serves and those in its backlog.
Queued(p, i) == \E k \in DOMAIN backlog[i] : backlog[i][k] = p
Connected(p, i) == conn[i] = p \/ Queued(p, i)

\* A call is one connection of one instance, which is over once it is answered.
OneConnection ==
    \A p \in Peers, i \in Instances :
        Connected(p, i) =>
            /\ peer[p] \in Open \union {"closed"}
            /\ \A j \in Instances : Connected(p, j) => j = i
            /\ conn[i] = p => ~ Queued(p, i)
            /\ \A k, l \in DOMAIN backlog[i] : backlog[i][k] = p /\ backlog[i][l] = p => k = l

=============================================================================
