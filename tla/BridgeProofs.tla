---------------------------- MODULE BridgeProofs ----------------------------
(***************************************************************************)
(* The accept loop, the threads of a bridge and their receipt log, for any *)
(* callers, strangers, instances of the service, backlog, submissions and  *)
(* number of faults.                                                       *)
(***************************************************************************)
EXTENDS BridgeProcess, ChainLemmas, SequenceTheorems

-----------------------------------------------------------------------------
(* The accept loop.                                                        *)

\* The steps at the socket, and all others.
LEMMA LoopCases ==
    ASSUME [Next]_vars
    PROVE  \/ \E p \in Peers : Connect(p) \/ Close(p) \/ \E op : Send(p, op)
           \/ \E i \in Instances : Unlink(i) \/ Serve(i)
           \/ BridgeDies
           \/ UNCHANGED loopVars
  <1>1. ASSUME NEW c \in Callers, StartCall(c) \/ CallerStep(c) \/ WriteFails(c)
        PROVE  Connect(c) \/ Close(c) \/ (\E op : Send(c, op)) \/ UNCHANGED loopVars
    BY <1>1 DEF StartCall, CallerStep, Converse, Timeout, Return, LockLog, BeginLine, EndLine,
         WriteFails
  <1>2. ASSUME NEW s \in Strangers, StrangerStep(s)
        PROVE  Connect(s) \/ Close(s) \/ \E op : Send(s, op)
    BY <1>2 DEF StrangerStep
  <1>3. CASE Finished \/ UNCHANGED vars
    BY <1>3 DEF Finished, vars
  <1> QED
    BY <1>1, <1>2, <1>3 DEF Next, Peers, ServiceStart, ServiceStep

\* Where no connection is added and none is served that was not, each call keeps
\* its place.
LEMMA FewerConnections ==
    ASSUME LoopTypes, OneConnection,
           \A i \in Instances : /\ conn'[i] = conn[i] \/ conn'[i] = "none"
                                /\ backlog'[i] = backlog[i] \/ backlog'[i] = << >>,
           \A p \in Peers, i \in Instances :
               Connected(p, i)' => peer'[p] \in Open \union {"closed"}
    PROVE  OneConnection'
  <1>1. \A p \in Peers, i \in Instances : Connected(p, i)' => Connected(p, i)
    BY PeersAssumption DEF Connected, Queued
  <1>2. ASSUME NEW p \in Peers, NEW i \in Instances, Connected(p, i)'
        PROVE  /\ conn'[i] = p => ~ Queued(p, i)'
               /\ \A k, l \in DOMAIN backlog'[i] : backlog'[i][k] = p /\ backlog'[i][l] = p => k = l
    <2>1. /\ conn[i] = p => ~ Queued(p, i)
          /\ \A k, l \in DOMAIN backlog[i] : backlog[i][k] = p /\ backlog[i][l] = p => k = l
      BY <1>1, <1>2 DEF OneConnection
    <2> QED
      BY <2>1, PeersAssumption DEF Queued
  <1> QED
    BY <1>1, <1>2 DEF OneConnection

\* What a step at the socket does to answered calls: nothing, and it handles
\* none of them again.
AnsweredStay ==
    /\ \A p \in Peers : peer[p] = "answered" => peer'[p] = "answered"
    /\ handled' = handled \/ \E p \in Peers : /\ peer[p] # "answered"
                                              /\ handled' = Append(handled, p)

\* connect and the peers' other steps.
LEMMA ConnectStep ==
    ASSUME LoopTypes, OneConnection, NEW p \in Peers, Connect(p)
    PROVE  LoopTypes' /\ OneConnection' /\ AnsweredStay
  <1>1. /\ peer[p] = "idle" /\ UNCHANGED <<path, inst, conn, handled>>
        /\ peer' \in [Peers -> {"idle"} \union Open \union Ended]
        /\ peer'[p] \in {"connected", "refused"}
        /\ \A q \in Peers \ {p} : peer'[q] = peer[q]
    BY DEF Connect, LoopTypes, Open, Ended
  <1>2. AnsweredStay
    BY <1>1 DEF AnsweredStay
  <1>3. \A i \in Instances : ~ Connected(p, i)
    BY <1>1 DEF OneConnection, Open
  <1>4. CASE UNCHANGED backlog
    <2>1. LoopTypes'
      BY <1>1, <1>4 DEF LoopTypes
    <2>2. \A q \in Peers, i \in Instances : Connected(q, i)' => Connected(q, i)
      BY <1>1, <1>4 DEF Connected, Queued
    <2>3. \A q \in Peers, i \in Instances : Connected(q, i)' => peer'[q] \in Open \union {"closed"}
      BY <1>1, <1>3, <2>2 DEF OneConnection
    <2> QED
      BY <1>1, <1>2, <1>4, <2>1, <2>3, FewerConnections
  <1>5. CASE Listening(path) /\ RoomIn(path) /\ backlog' = [backlog EXCEPT ![path] = Append(@, p)]
             /\ peer'[p] = "connected"
    <2>1. path \in Instances
      BY <1>5 DEF Listening, LoopTypes
    <2>2. PICK s \in Seq(Peers) : s = backlog[path] /\ Len(s) < Backlog
      BY <1>5, <2>1 DEF RoomIn, LoopTypes
    <2>3. PICK t \in Seq(Peers) : /\ t = Append(s, p) /\ Len(t) = Len(s) + 1
                                  /\ DOMAIN s = 1 .. Len(s) /\ DOMAIN t = 1 .. Len(s) + 1
                                  /\ \A k \in DOMAIN s : t[k] = s[k]
                                  /\ t[Len(s) + 1] = p
      <3>1. Append(s, p) \in Seq(Peers) /\ DOMAIN s = 1 .. Len(s)
        OBVIOUS
      <3> QED
        BY <3>1, Appended
    <2>4. backlog'[path] = t /\ (\A i \in Instances \ {path} : backlog'[i] = backlog[i])
          /\ backlog' \in [Instances -> Seq(Peers)]
      BY <1>5, <2>1, <2>2, <2>3 DEF LoopTypes
    <2>5. Len(t) <= Backlog
      BY <2>2, <2>3, BacklogAssumption
    <2>6. LoopTypes'
      BY <1>1, <2>4, <2>5 DEF LoopTypes
    <2>7. ASSUME NEW q \in Peers \ {p}, NEW i \in Instances
          PROVE  (Queued(q, i)' <=> Queued(q, i)) /\ (Connected(q, i)' <=> Connected(q, i))
      <3>1. (\E k \in DOMAIN t : t[k] = q) <=> (\E k \in DOMAIN s : s[k] = q)
        <4>1. \A k \in DOMAIN t : k \in DOMAIN s \/ k = Len(s) + 1
          BY <2>3
        <4>2. DOMAIN s \subseteq DOMAIN t
          BY <2>3
        <4> QED
          BY <2>3, <4>1, <4>2
      <3>2. Queued(q, i)' <=> Queued(q, i)
        BY <2>2, <2>4, <3>1 DEF Queued
      <3> QED
        BY <1>1, <3>2 DEF Connected
    <2>8. \A i \in Instances : Connected(p, i)' <=> i = path
      BY <1>1, <1>3, <2>1, <2>2, <2>3, <2>4 DEF Connected, Queued
    <2>9. ASSUME NEW q \in Peers, NEW i \in Instances, Connected(q, i)'
          PROVE  /\ peer'[q] \in Open \union {"closed"}
                 /\ \A j \in Instances : Connected(q, j)' => j = i
                 /\ conn'[i] = q => ~ Queued(q, i)'
                 /\ \A k, l \in DOMAIN backlog'[i] :
                       backlog'[i][k] = q /\ backlog'[i][l] = q => k = l
      <3>1. CASE q = p
        <4>1. i = path /\ conn'[i] # p
          BY <1>1, <1>3, <2>8, <2>9, <3>1 DEF Connected
        <4>2. \A k \in DOMAIN s : s[k] # p
          BY <1>3, <2>1, <2>2 DEF Connected, Queued
        <4>3. \A k \in DOMAIN t : t[k] = p => k = Len(s) + 1
          BY <2>3, <4>2
        <4> QED
          BY <1>5, <2>4, <2>8, <3>1, <4>1, <4>3 DEF Open
      <3>2. CASE q # p
        <4>1. /\ peer[q] \in Open \union {"closed"}
              /\ \A j \in Instances : Connected(q, j) => j = i
              /\ conn[i] = q => ~ Queued(q, i)
              /\ \A k, l \in DOMAIN backlog[i] : backlog[i][k] = q /\ backlog[i][l] = q => k = l
          BY <2>7, <2>9, <3>2 DEF OneConnection
        <4>2. conn'[i] = q => ~ Queued(q, i)'
          BY <1>1, <2>7, <3>2, <4>1
        <4>3. \A k, l \in DOMAIN backlog'[i] : backlog'[i][k] = q /\ backlog'[i][l] = q => k = l
          BY <2>2, <2>3, <2>4, <3>2, <4>1
        <4> QED
          BY <1>1, <2>7, <3>2, <4>1, <4>2, <4>3
      <3> QED
        BY <3>1, <3>2
    <2> QED
      BY <1>2, <2>6, <2>9 DEF OneConnection
  <1>6. peer' = [peer EXCEPT ![p] = "connected"] => peer'[p] = "connected"
    BY DEF LoopTypes
  <1> QED
    BY <1>4, <1>5, <1>6 DEF Connect

\* A peer sends its line, or closes its socket.
LEMMA PeerStep ==
    ASSUME LoopTypes, OneConnection, NEW p \in Peers, Close(p) \/ \E op : Send(p, op)
    PROVE  LoopTypes' /\ OneConnection' /\ AnsweredStay
  <1>1. /\ peer[p] \in Open /\ UNCHANGED <<path, inst, backlog, conn, handled>>
        /\ peer' \in [Peers -> {"idle"} \union Open \union Ended]
        /\ peer'[p] \in {"sent", "closed"}
        /\ \A q \in Peers \ {p} : peer'[q] = peer[q]
    BY DEF Close, Send, LoopTypes, Open, Ended
  <1>2. AnsweredStay /\ LoopTypes'
    BY <1>1 DEF AnsweredStay, LoopTypes, Open
  <1>3. \A q \in Peers, i \in Instances : Connected(q, i)' => peer'[q] \in Open \union {"closed"}
    BY <1>1 DEF OneConnection, Connected, Queued, Open
  <1> QED
    BY <1>1, <1>2, <1>3, FewerConnections

\* A process starts.
LEMMA StartingStep ==
    ASSUME LoopTypes, OneConnection, NEW i \in Instances, Unlink(i) \/ Bind(i) \/ Listen(i)
    PROVE  LoopTypes' /\ OneConnection' /\ AnsweredStay
  <1>1. /\ UNCHANGED <<backlog, conn, peer, handled>>
        /\ path' \in {0} \union Instances
        /\ inst' \in [Instances -> Places]
        /\ \A j \in Instances : inst'[j] \in {"reading", "answering", "stopping"} => inst'[j] = inst[j]
    BY DEF Unlink, Bind, Listen, Goto, LoopTypes, Places
  <1>2. LoopTypes' /\ AnsweredStay
    BY <1>1 DEF LoopTypes, AnsweredStay
  <1>3. OneConnection'
    BY <1>1 DEF OneConnection, Connected, Queued
  <1> QED
    BY <1>2, <1>3

\* accept takes the first connection of the backlog.
LEMMA AcceptStep ==
    ASSUME LoopTypes, OneConnection, NEW i \in Instances, Accept(i)
    PROVE  LoopTypes' /\ OneConnection' /\ AnsweredStay
  <1>1. PICK s \in Seq(Peers) : s = backlog[i] /\ s # << >> /\ Len(s) <= Backlog
    BY DEF Accept, LoopTypes
  <1>2. PICK t \in Seq(Peers) : /\ t = Tail(s) /\ Len(t) <= Len(s)
                                /\ \A k \in DOMAIN t : k + 1 \in DOMAIN s /\ t[k] = s[k + 1]
                                /\ DOMAIN t \subseteq Nat /\ 1 \in DOMAIN s
    <2>1. /\ Tail(s) \in Seq(Peers) /\ Len(Tail(s)) = Len(s) - 1
          /\ \A k \in 1 .. Len(s) - 1 : Tail(s)[k] = s[k + 1]
          /\ Len(s) \in Nat \ {0}
      BY <1>1, HeadTailProperties, EmptySeq
    <2>2. DOMAIN s = 1 .. Len(s) /\ DOMAIN Tail(s) = 1 .. Len(s) - 1
      BY <2>1
    <2>3. ASSUME NEW k \in DOMAIN Tail(s) PROVE k + 1 \in DOMAIN s /\ Tail(s)[k] = s[k + 1]
      BY <2>1, <2>2
    <2>4. Len(Tail(s)) <= Len(s) /\ DOMAIN Tail(s) \subseteq Nat /\ 1 \in DOMAIN s
      BY <2>1, <2>2
    <2> QED
      BY <2>1, <2>3, <2>4
  <1>3. PICK p \in Peers : p = Head(s) /\ s[1] = p
    BY <1>1
  <1>4. /\ conn'[i] = p /\ \A j \in Instances \ {i} : conn'[j] = conn[j]
        /\ backlog'[i] = t /\ \A j \in Instances \ {i} : backlog'[j] = backlog[j]
        /\ conn' \in [Instances -> Peers \union {"none"}]
        /\ backlog' \in [Instances -> Seq(Peers)]
        /\ inst' \in [Instances -> Places] /\ \A j \in Instances \ {i} : inst'[j] = inst[j]
        /\ UNCHANGED <<path, peer, handled>>
    BY <1>1, <1>2, <1>3 DEF Accept, Goto, LoopTypes, Places
  <1>5. Len(t) <= Backlog
    BY <1>1, <1>2, BacklogAssumption
  <1>6. LoopTypes' /\ AnsweredStay
    BY <1>4, <1>5 DEF LoopTypes, AnsweredStay
  <1>7. \A q \in Peers : Queued(q, i)' => Queued(q, i)
    BY <1>1, <1>2, <1>4 DEF Queued
  <1>8. Queued(p, i)
    BY <1>1, <1>2, <1>3 DEF Queued
  <1>9. ASSUME NEW q \in Peers, NEW j \in Instances, Connected(q, j)' PROVE Connected(q, j)
    <2>1. CASE j = i
      BY <1>4, <1>7, <1>8, <1>9, <2>1 DEF Connected
    <2>2. CASE j # i
      BY <1>4, <1>9, <2>2 DEF Connected, Queued
    <2> QED
      BY <2>1, <2>2
  <1>10. ASSUME NEW q \in Peers, NEW j \in Instances, Connected(q, j)'
         PROVE  /\ conn'[j] = q => ~ Queued(q, j)'
                /\ \A k, l \in DOMAIN backlog'[j] : backlog'[j][k] = q /\ backlog'[j][l] = q => k = l
    <2>1. /\ conn[j] = q => ~ Queued(q, j)
          /\ \A k, l \in DOMAIN backlog[j] : backlog[j][k] = q /\ backlog[j][l] = q => k = l
      BY <1>9, <1>10 DEF OneConnection
    <2>2. CASE j # i
      BY <1>4, <2>1, <2>2 DEF Queued
    <2>3. CASE j = i
      <3>1. \A k, l \in DOMAIN t : t[k] = q /\ t[l] = q => k = l
        <4>1. ASSUME NEW k \in DOMAIN t, NEW l \in DOMAIN t, t[k] = q, t[l] = q PROVE k = l
          <5>1. k + 1 = l + 1
            BY <1>1, <1>2, <2>1, <2>3, <4>1
          <5> QED
            BY <1>2, <5>1
        <4> QED
          BY <4>1
      <3>2. q = p => \A k \in DOMAIN t : t[k] # q
        <4>1. ASSUME NEW k \in DOMAIN t, t[k] = q, q = p PROVE FALSE
          <5>1. k + 1 = 1
            BY <1>1, <1>2, <1>3, <2>1, <2>3, <4>1
          <5> QED
            BY <1>2, <5>1
        <4> QED
          BY <4>1
      <3> QED
        BY <1>4, <2>3, <3>1, <3>2 DEF Queued
    <2> QED
      BY <2>2, <2>3
  <1> QED
    BY <1>4, <1>6, <1>9, <1>10 DEF OneConnection

\* A call is taken on once.
LEMMA ReadStep ==
    ASSUME LoopTypes, OneConnection, NEW i \in Instances, Read(i)
    PROVE  LoopTypes' /\ OneConnection' /\ AnsweredStay
  <1>1. PICK p \in Peers : p = conn[i]
    BY DEF Read, LoopTypes
  <1>2. /\ inst[i] = "reading" /\ UNCHANGED <<path, backlog, conn, peer>>
        /\ inst' \in [Instances -> Places] /\ \A j \in Instances \ {i} : inst'[j] = inst[j]
        /\ handled' = handled \/ handled' = Append(handled, p)
    BY <1>1 DEF Read, Goto, LoopTypes, Places
  <1>3. peer[p] # "answered"
    BY <1>1 DEF OneConnection, Connected, Open
  <1>4. LoopTypes' /\ AnsweredStay
    <2>1. handled' \in Seq(Peers)
      <3>1. handled \in Seq(Peers)
        BY DEF LoopTypes
      <3>2. Append(handled, p) \in Seq(Peers)
        BY <3>1
      <3> QED
        BY <1>2, <3>1, <3>2
    <2>2. \A j \in Instances : inst'[j] \in {"reading", "answering", "stopping"} => conn'[j] \in Peers
      BY <1>1, <1>2 DEF LoopTypes
    <2>3. LoopTypes'
      BY <1>2, <2>1, <2>2 DEF LoopTypes
    <2> QED
      BY <1>2, <1>3, <2>3 DEF AnsweredStay
  <1>5. OneConnection'
    BY <1>2 DEF OneConnection, Connected, Queued
  <1> QED
    BY <1>4, <1>5

\* The end of a process ends its connections.
LEMMA EndStep ==
    ASSUME LoopTypes, OneConnection, NEW i \in Instances, NEW answered,
           EndOf(i, answered), answered \subseteq {conn[i]}, UNCHANGED <<path, handled>>
    PROVE  LoopTypes' /\ OneConnection' /\ AnsweredStay
  <1>1. /\ conn'[i] = "none" /\ \A j \in Instances \ {i} : conn'[j] = conn[j]
        /\ backlog'[i] = << >> /\ \A j \in Instances \ {i} : backlog'[j] = backlog[j]
        /\ conn' \in [Instances -> Peers \union {"none"}]
        /\ inst' \in [Instances -> Places] /\ inst'[i] = "ended"
        /\ \A j \in Instances \ {i} : inst'[j] = inst[j]
    BY DEF EndOf, Goto, LoopTypes, Places
  <1>2. backlog' \in [Instances -> Seq(Peers)]
    BY DEF EndOf, LoopTypes
  <1>3. \A p \in Peers : peer'[p] = IF p \in answered THEN "answered"
                                    ELSE IF peer[p] \in Open /\ Connected(p, i)
                                    THEN "reset" ELSE peer[p]
    BY DEF EndOf, Connected, Queued
  <1>4. peer' \in [Peers -> {"idle"} \union Open \union Ended]
    <2>1. peer' = [p \in Peers |-> peer'[p]]
      BY DEF EndOf
    <2> QED
      BY <1>3, <2>1 DEF LoopTypes, Ended
  <1>5. Len(backlog'[i]) <= Backlog
    BY <1>1, BacklogAssumption
  <1>6. LoopTypes'
    BY <1>1, <1>2, <1>4, <1>5 DEF LoopTypes
  <1>7. AnsweredStay
    BY <1>3 DEF AnsweredStay, Open
  <1>8. ASSUME NEW p \in Peers, NEW j \in Instances, Connected(p, j)'
        PROVE  peer'[p] \in Open \union {"closed"}
    <2>1. j # i
      BY <1>1, <1>8, PeersAssumption DEF Connected, Queued
    <2>2. Connected(p, j)
      BY <1>1, <1>8, <2>1 DEF Connected, Queued
    <2>3. ~ Connected(p, i) /\ peer[p] \in Open \union {"closed"}
      BY <2>1, <2>2 DEF OneConnection
    <2> QED
      BY <1>3, <2>3 DEF Connected
  <1> QED
    BY <1>1, <1>6, <1>7, <1>8, FewerConnections

\* An answer ends a call, or the process.
LEMMA AnswerStep ==
    ASSUME LoopTypes, OneConnection, NEW i \in Instances, Answer(i)
    PROVE  LoopTypes' /\ OneConnection' /\ AnsweredStay
  <1>1. CASE peer[conn[i]] = "closed"
    BY <1>1, EndStep DEF Answer
  <1>2. CASE peer[conn[i]] # "closed"
    <2>1. PICK p \in Peers : p = conn[i]
      BY DEF Answer, LoopTypes
    <2>2. /\ UNCHANGED <<path, backlog, handled>>
          /\ peer' = [peer EXCEPT ![p] = "answered"]
          /\ conn' = [conn EXCEPT ![i] = "none"]
          /\ Goto(i, "accepting")
      BY <1>2, <2>1 DEF Answer
    <2>3. LoopTypes' /\ AnsweredStay
      BY <2>2 DEF LoopTypes, AnsweredStay, Goto, Places, Ended
    <2>4. conn'[i] = "none" /\ \A j \in Instances \ {i} : conn'[j] = conn[j]
      BY <2>2 DEF LoopTypes
    <2>5. ASSUME NEW q \in Peers, NEW j \in Instances, Connected(q, j)'
          PROVE  peer'[q] \in Open \union {"closed"}
      <3>1. Connected(q, j)
        BY <2>2, <2>4, <2>5, PeersAssumption DEF Connected, Queued
      <3>2. peer[q] \in Open \union {"closed"}
        BY <3>1 DEF OneConnection
      <3>3. q # p
        <4>1. ASSUME q = p PROVE FALSE
          <5>1. Connected(p, i) /\ conn[i] = p
            BY <2>1 DEF Connected
          <5>2. j = i /\ ~ Queued(p, i)
            BY <3>1, <4>1, <5>1 DEF OneConnection
          <5> QED
            BY <2>2, <2>4, <2>5, <4>1, <5>2, PeersAssumption DEF Connected, Queued
        <4> QED
          BY <4>1
      <3> QED
        BY <2>2, <3>2, <3>3 DEF LoopTypes
    <2>6. \A j \in Instances : /\ conn'[j] = conn[j] \/ conn'[j] = "none"
                               /\ backlog'[j] = backlog[j]
      BY <2>2, <2>4
    <2> QED
      BY <2>3, <2>5, <2>6, FewerConnections
  <1> QED
    BY <1>1, <1>2

\* Every step keeps the accept loop's types and connections, and no answered call
\* is handled again.
LEMMA LoopStep ==
    ASSUME LoopTypes, OneConnection, [Next]_vars
    PROVE  LoopTypes' /\ OneConnection' /\ AnsweredStay
  <1>1. ASSUME NEW i \in Instances, Unlink(i) \/ Serve(i)
        PROVE  LoopTypes' /\ OneConnection' /\ AnsweredStay
    <2>1. CASE Stop(i)
      BY <2>1, EndStep DEF Stop
    <2> QED
      BY <1>1, <2>1, StartingStep, AcceptStep, ReadStep, AnswerStep DEF Serve
  <1>2. CASE BridgeDies
    <2>1. UNCHANGED <<path, inst, backlog, conn, handled>>
      BY <1>2 DEF BridgeDies
    <2>2. \A p \in Peers : peer'[p] = peer[p] \/ (peer[p] \in Open /\ peer'[p] = "closed")
      BY <1>2 DEF BridgeDies
    <2>3. peer' \in [Peers -> {"idle"} \union Open \union Ended]
      <3>1. peer' = [p \in Peers |-> peer'[p]]
        BY <1>2 DEF BridgeDies
      <3> QED
        BY <2>2, <3>1 DEF LoopTypes, Ended
    <2>4. LoopTypes' /\ AnsweredStay
      BY <2>1, <2>2, <2>3 DEF LoopTypes, AnsweredStay, Open
    <2>5. \A q \in Peers, i \in Instances : Connected(q, i)' => peer'[q] \in Open \union {"closed"}
      BY <2>1, <2>2 DEF OneConnection, Connected, Queued
    <2> QED
      BY <2>1, <2>4, <2>5, FewerConnections
  <1>3. CASE UNCHANGED loopVars
    BY <1>3 DEF loopVars, LoopTypes, OneConnection, Connected, Queued, AnsweredStay
  <1> QED
    BY <1>1, <1>2, <1>3, ConnectStep, PeerStep, LoopCases


-----------------------------------------------------------------------------
(* The threads.                                                            *)

\* What appending does to a sequence of whatever elements.
LEMMA AppendListed ==
    ASSUME NEW s, NEW e, Listed(s)
    PROVE  Extended(s, Append(s, e), e) /\ Listed(Append(s, e))
  <1> DEFINE S == {s[k] : k \in DOMAIN s} \union {e}
             t == Append(s, e)
  <1>1. s \in Seq(S)
    <2>1. s \in Seq({s[k] : k \in DOMAIN s}) /\ {s[k] : k \in DOMAIN s} \subseteq S
      BY DEF Listed
    <2> HIDE DEF S
    <2> QED
      BY <2>1, SeqMonotonic
  <1>2. e \in S
    OBVIOUS
  <1> HIDE DEF S
  <1>3. /\ t \in Seq(S) /\ Len(t) = Len(s) + 1 /\ Len(s) \in Nat
        /\ DOMAIN s = 1 .. Len(s) /\ DOMAIN t = 1 .. Len(s) + 1
        /\ \A i \in DOMAIN s : t[i] = s[i]
        /\ t[Len(s) + 1] = e
    BY <1>1, <1>2, Appended
  <1> HIDE DEF t
  <1>4. t \in Seq({t[k] : k \in DOMAIN t})
    <2> DEFINE T == {t[k] : k \in DOMAIN t}
    <2>1. \A k \in 1 .. Len(t) : t[k] \in T
      BY <1>3
    <2> HIDE DEF T
    <2>2. t \in Seq(T)
      BY <1>3, <2>1
    <2> QED
      BY <2>2 DEF T
  <1> QED
    BY <1>3, <1>4 DEF Extended, Listed, t

\* The steps of the threads, and all others.
LEMMA ThreadCases ==
    ASSUME [Next]_vars
    PROVE  \/ UNCHANGED <<lock, file, appended, stage, faults>>
           \/ \E c \in Callers : Return(c) \/ LockLog(c) \/ BeginLine(c) \/ EndLine(c) \/ WriteFails(c)
           \/ BridgeDies
  <1>1. ASSUME NEW c \in Callers, StartCall(c) \/ Converse(c)
        PROVE  UNCHANGED <<lock, file, appended, stage, faults>>
    BY <1>1 DEF StartCall, Converse, logVars
  <1>2. ASSUME NEW s \in Strangers, StrangerStep(s)
        PROVE  UNCHANGED <<lock, file, appended, stage, faults>>
    BY <1>2 DEF StrangerStep, logVars
  <1>3. ASSUME NEW i \in Instances, ServiceStart(i) \/ ServiceStep(i)
        PROVE  UNCHANGED <<lock, file, appended, stage, faults>>
    BY <1>3 DEF ServiceStart, ServiceStep, logVars
  <1>4. CASE Finished \/ UNCHANGED vars
    BY <1>4 DEF Finished, vars, logVars
  <1> QED
    BY <1>1, <1>2, <1>3, <1>4 DEF Next, CallerStep

\* What each thread's step does.
LEMMA ThreadMoves ==
    ASSUME Types, Threads, NEW c \in Callers
    PROVE  /\ Return(c) => /\ stage' \in [Callers -> Stages] /\ UNCHANGED <<lock, file, appended, faults>>
                           /\ stage[c] = "calling" /\ stage'[c] \in {"verified", "ERROR"}
                           /\ stage'[c] = "verified" => peer[c] = "answered"
                           /\ \A d \in Callers \ {c} : stage'[d] = stage[d]
           /\ LockLog(c) => /\ stage' \in [Callers -> Stages] /\ UNCHANGED <<file, appended, faults>>
                            /\ stage[c] = "verified" /\ stage'[c] = "locked"
                            /\ lock = Free /\ lock' = c
                            /\ \A d \in Callers \ {c} : stage'[d] = stage[d]
           /\ BeginLine(c) => /\ stage' \in [Callers -> Stages] /\ UNCHANGED <<lock, appended, faults>>
                              /\ file' = Append(file, Piece(ReceiptOf(c), FALSE))
                              /\ stage[c] = "locked" /\ stage'[c] = "halfway"
                              /\ \A d \in Callers \ {c} : stage'[d] = stage[d]
           /\ EndLine(c) => /\ stage' \in [Callers -> Stages] /\ UNCHANGED faults
                            /\ file' = Append(file, Piece(ReceiptOf(c), TRUE))
                            /\ appended' = Append(appended, ReceiptOf(c))
                            /\ stage[c] = "halfway" /\ stage'[c] = "VERIFIED" /\ lock' = Free
                            /\ \A d \in Callers \ {c} : stage'[d] = stage[d]
           /\ WriteFails(c) => /\ stage' \in [Callers -> Stages] /\ UNCHANGED <<file, appended>>
                               /\ faults' = faults + 1
                               /\ stage[c] \in {"locked", "halfway"} /\ stage'[c] = "ERROR"
                               /\ lock' = Free
                               /\ \A d \in Callers \ {c} : stage'[d] = stage[d]
  <1>1. ASSUME NEW place \in Stages, Advance(c, place)
        PROVE  /\ stage' \in [Callers -> Stages] /\ stage'[c] = place
               /\ \A d \in Callers \ {c} : stage'[d] = stage[d]
    BY <1>1 DEF Advance, Types
  <1>2. CASE Return(c)
    <2>1. /\ stage[c] = "calling" /\ UNCHANGED <<logVars, faults>>
          /\ Advance(c, IF peer[c] = "answered" THEN "verified" ELSE "ERROR")
      BY <1>2 DEF Return
    <2> QED
      BY <1>1, <2>1 DEF Stages, logVars, LockLog, BeginLine, EndLine, WriteFails
  <1>3. CASE LockLog(c)
    BY <1>1, <1>3 DEF Return, LockLog, Acquire, BeginLine, EndLine, WriteFails, Stages
  <1>4. CASE BeginLine(c) \/ EndLine(c)
    BY <1>1, <1>4 DEF Return, LockLog, BeginLine, EndLine, WriteFirst, WriteLast, WriteFails, Stages
  <1>5. CASE WriteFails(c)
    BY <1>1, <1>5 DEF Return, LockLog, BeginLine, EndLine, WriteFails, Release, Stages
  <1> QED
    BY <1>2, <1>3, <1>4, <1>5

\* The death of the bridge ends every submission that began and is not over.
LEMMA DeathMoves ==
    ASSUME Types, Threads, BridgeDies
    PROVE  /\ stage' \in [Callers -> Stages] /\ UNCHANGED <<file, appended>>
           /\ faults' = faults + 1 /\ lock' = Free
           /\ \A c \in Callers : /\ stage'[c] = stage[c] \/ stage'[c] = "ERROR"
                                 /\ stage'[c] \notin {"locked", "halfway"}
  <1>1. \A c \in Callers : stage'[c] = IF peer[c] # "idle" /\ stage[c] \notin {"VERIFIED", "ERROR"}
                                       THEN "ERROR" ELSE stage[c]
    BY DEF BridgeDies, Types
  <1>2. \A c \in Callers : stage[c] \in {"locked", "halfway"} => peer[c] = "answered"
    BY DEF Threads
  <1>3. stage' \in [Callers -> Stages]
    BY <1>1 DEF BridgeDies, Types, Stages
  <1> QED
    BY <1>1, <1>2, <1>3 DEF BridgeDies, Release

\* Every step keeps the types, and the threads under the lock.
LEMMA ThreadsStep ==
    ASSUME Types, OneConnection, Threads, [Next]_vars PROVE Types' /\ Threads'
  <1>1. LoopTypes' /\ AnsweredStay
    BY LoopStep DEF Types
  <1>2. Listed(file') /\ Listed(appended')
    <2>1. CASE UNCHANGED <<file, appended>>
      BY <2>1 DEF Types
    <2>2. ASSUME NEW c \in Callers, BeginLine(c) \/ EndLine(c) PROVE Listed(file') /\ Listed(appended')
      <3>1. Listed(file')
        BY <2>2, ThreadMoves, AppendListed DEF Types
      <3>2. Listed(appended')
        BY <2>2, ThreadMoves, AppendListed DEF Types
      <3> QED
        BY <3>1, <3>2
    <2> QED
      BY <2>1, <2>2, ThreadCases, ThreadMoves, DeathMoves
  <1>3. \A c \in Callers : peer[c] = "answered" => peer'[c] = "answered"
    BY <1>1 DEF AnsweredStay, Peers
  <1>4. CASE UNCHANGED <<lock, stage, faults>>
    BY <1>1, <1>2, <1>3, <1>4 DEF Types, Threads
  <1>5. ASSUME NEW c \in Callers, Return(c) PROVE Types' /\ Threads'
    <2>1. Types'
      BY <1>1, <1>2, <1>5, ThreadMoves DEF Types
    <2>2. Threads'
      BY <1>3, <1>5, ThreadMoves DEF Threads
    <2> QED
      BY <2>1, <2>2
  <1>6. ASSUME NEW c \in Callers, LockLog(c) PROVE Types' /\ Threads'
    <2>1. Types'
      BY <1>1, <1>2, <1>6, ThreadMoves DEF Types
    <2>2. Threads'
      BY <1>3, <1>6, ThreadMoves, CallersAssumption DEF Threads
    <2> QED
      BY <2>1, <2>2
  <1>7. ASSUME NEW c \in Callers, BeginLine(c) PROVE Types' /\ Threads'
    <2>1. Types'
      BY <1>1, <1>2, <1>7, ThreadMoves DEF Types
    <2>2. Threads'
      BY <1>3, <1>7, ThreadMoves DEF Threads
    <2> QED
      BY <2>1, <2>2
  <1>8. ASSUME NEW c \in Callers, EndLine(c) \/ WriteFails(c) PROVE Types' /\ Threads'
    <2>1. /\ stage' \in [Callers -> Stages] /\ faults' \in Nat /\ lock' = Free
          /\ stage[c] \in {"locked", "halfway"} /\ stage'[c] \in {"VERIFIED", "ERROR"}
          /\ stage'[c] = "VERIFIED" => stage[c] = "halfway"
          /\ \A d \in Callers \ {c} : stage'[d] = stage[d]
      <3>1. faults + 1 \in Nat /\ faults \in Nat
        BY DEF Types
      <3>2. CASE EndLine(c)
        BY <3>1, <3>2, ThreadMoves
      <3>3. CASE WriteFails(c)
        BY <3>1, <3>3, ThreadMoves
      <3> QED
        BY <1>8, <3>2, <3>3
    <2>2. lock = c
      BY <2>1 DEF Threads
    <2>3. Types'
      BY <1>1, <1>2, <2>1 DEF Types
    <2>4. \A d \in Callers : stage'[d] \notin {"locked", "halfway"}
      BY <2>1, <2>2 DEF Threads
    <2>5. Threads'
      BY <1>3, <2>1, <2>4, CallersAssumption DEF Threads
    <2> QED
      BY <2>3, <2>5
  <1>9. CASE BridgeDies
    <2>1. Types'
      BY <1>1, <1>2, <1>9, DeathMoves DEF Types
    <2>2. Threads'
      BY <1>3, <1>9, DeathMoves, CallersAssumption DEF Threads
    <2> QED
      BY <2>1, <2>2
  <1> QED
    BY <1>4, <1>5, <1>6, <1>7, <1>8, <1>9, ThreadCases


-----------------------------------------------------------------------------
(* The log.                                                                *)

\* The receipt of an answered call stays what it is.
LEMMA ReceiptStays ==
    ASSUME Types, OneConnection, [Next]_vars, NEW c \in Callers, peer[c] = "answered"
    PROVE  ReceiptOf(c)' = ReceiptOf(c)
  <1>1. handled' = handled \/ \E p \in Peers : p # c /\ handled' = Append(handled, p)
    BY LoopStep DEF AnsweredStay, Types
  <1>2. \A k : (k \in DOMAIN handled' /\ handled'[k] = c) <=> (k \in DOMAIN handled /\ handled[k] = c)
    <2>1. CASE UNCHANGED handled
      BY <2>1
    <2>2. ASSUME NEW p \in Peers, p # c, handled' = Append(handled, p)
          PROVE  \A k : (k \in DOMAIN handled' /\ handled'[k] = c)
                            <=> (k \in DOMAIN handled /\ handled[k] = c)
      <3>1. /\ DOMAIN handled = 1 .. Len(handled) /\ DOMAIN handled' = 1 .. Len(handled) + 1
            /\ Len(handled) \in Nat
            /\ \A k \in DOMAIN handled : handled'[k] = handled[k]
            /\ handled'[Len(handled) + 1] = p
        BY <2>2, Appended DEF Types, LoopTypes
      <3> QED
        BY <2>2, <3>1
    <2> QED
      BY <1>1, <2>1, <2>2
  <1>3. (CHOOSE k \in DOMAIN handled' : handled'[k] = c) = (CHOOSE k \in DOMAIN handled : handled[k] = c)
    BY <1>2
  <1>4. UNCHANGED submitted
    BY DEF Next, StartCall, CallerStep, Converse, Return, LockLog, BeginLine, EndLine, WriteFails,
       StrangerStep, ServiceStart, ServiceStep, BridgeDies, Finished, vars
  <1> QED
    BY <1>3, <1>4 DEF ReceiptOf

\* A list grows by a receipt when a line is finished, and not by its first piece.
LEMMA AppendedStep ==
    ASSUME Types, Threads, AppendedInOrder, [Next]_vars PROVE AppendedInOrder'
  <1>1. PICK at \in [DOMAIN appended -> DOMAIN file] :
           /\ \A j \in DOMAIN appended : file[at[j]] = Piece(appended[j], TRUE)
           /\ \A i, j \in DOMAIN appended : i < j => at[i] < at[j]
           /\ \A k \in DOMAIN file : file[k].last => \E j \in DOMAIN appended : at[j] = k
    BY DEF AppendedInOrder
  <1>2. CASE UNCHANGED <<file, appended>>
    BY <1>2 DEF AppendedInOrder
  <1>3. ASSUME NEW c \in Callers, BeginLine(c) PROVE AppendedInOrder'
    <2> DEFINE e == Piece(ReceiptOf(c), FALSE)
    <2>1. Extended(file, file', e) /\ UNCHANGED appended
      BY <1>3, ThreadMoves, AppendListed DEF Types
    <2>2. ~ e.last
      BY DEF Piece
    <2> HIDE DEF e
    <2>3. at \in [DOMAIN appended' -> DOMAIN file']
      BY <2>1 DEF Extended
    <2>4. \A j \in DOMAIN appended' : file'[at[j]] = Piece(appended'[j], TRUE)
      BY <1>1, <2>1 DEF Extended
    <2>5. \A k \in DOMAIN file' : file'[k].last => \E j \in DOMAIN appended' : at[j] = k
      BY <1>1, <2>1, <2>2 DEF Extended
    <2> QED
      BY <1>1, <2>1, <2>3, <2>4, <2>5 DEF AppendedInOrder
  <1>4. ASSUME NEW c \in Callers, EndLine(c) PROVE AppendedInOrder'
    <2> DEFINE e == Piece(ReceiptOf(c), TRUE)
               now == [j \in DOMAIN appended' |-> IF j \in DOMAIN appended THEN at[j] ELSE Len(file')]
    <2>1. Extended(file, file', e) /\ Extended(appended, appended', ReceiptOf(c))
      BY <1>4, ThreadMoves, AppendListed DEF Types
    <2> HIDE DEF e
    <2>2. /\ \A j \in DOMAIN appended : j \in DOMAIN appended' /\ now[j] = at[j] /\ at[j] \in DOMAIN file
          /\ now[Len(appended')] = Len(file') /\ Len(appended') \in DOMAIN appended'
          /\ \A j \in DOMAIN appended' : j \in DOMAIN appended \/ j = Len(appended')
          /\ now \in [DOMAIN appended' -> DOMAIN file']
      BY <2>1 DEF Extended
    <2> HIDE DEF now
    <2>3. \A j \in DOMAIN appended' : file'[now[j]] = Piece(appended'[j], TRUE)
      <3>1. \A j \in DOMAIN appended : file'[now[j]] = Piece(appended'[j], TRUE)
        BY <1>1, <2>1, <2>2 DEF Extended
      <3>2. file'[now[Len(appended')]] = Piece(appended'[Len(appended')], TRUE)
        BY <2>1, <2>2 DEF Extended, e
      <3> QED
        BY <2>2, <3>1, <3>2
    <2>4. \A i, j \in DOMAIN appended' : i < j => now[i] < now[j]
      <3>1. ASSUME NEW i \in DOMAIN appended', NEW j \in DOMAIN appended', i < j
            PROVE  now[i] < now[j]
        <4>1. i \in DOMAIN appended /\ now[i] \in DOMAIN file
          BY <2>1, <2>2, <3>1 DEF Extended
        <4>2. CASE j \in DOMAIN appended
          BY <1>1, <2>2, <3>1, <4>1, <4>2
        <4>3. CASE j = Len(appended')
          BY <2>1, <2>2, <4>1, <4>3 DEF Extended
        <4> QED
          BY <2>2, <4>2, <4>3
      <3> QED
        BY <3>1
    <2>5. \A k \in DOMAIN file' : file'[k].last => \E j \in DOMAIN appended' : now[j] = k
      <3>1. ASSUME NEW k \in DOMAIN file', file'[k].last
            PROVE  \E j \in DOMAIN appended' : now[j] = k
        <4>1. CASE k = Len(file')
          BY <2>2, <4>1
        <4>2. CASE k # Len(file')
          <5>1. k \in DOMAIN file /\ file[k].last
            BY <2>1, <3>1, <4>2 DEF Extended
          <5> QED
            BY <1>1, <2>2, <5>1
        <4> QED
          BY <4>1, <4>2
      <3> QED
        BY <3>1
    <2> QED
      BY <2>2, <2>3, <2>4, <2>5 DEF AppendedInOrder
  <1> QED
    BY <1>2, <1>3, <1>4, ThreadCases, ThreadMoves, DeathMoves

\* Pieces added later leave those before them alone.
LEMMA FollowsStays ==
    ASSUME NEW e, Extended(file, file', e), NEW k \in DOMAIN file, Follows(k)
    PROVE  Follows(k)'
  <1>1. file'[k] = file[k] /\ (k # 1 => k - 1 \in DOMAIN file /\ file'[k - 1] = file[k - 1])
    BY DEF Extended
  <1>2. k \in Nat /\ ~ (1 > 1)
    BY DEF Extended
  <1> QED
    BY <1>1, <1>2 DEF Follows

\* Without faults lines are whole.
LEMMA LinesStep ==
    ASSUME Types, OneConnection, Threads, LinesWhole, [Next]_vars PROVE LinesWhole'
  <1>1. \A c \in Callers : stage[c] \in {"locked", "halfway"} =>
            lock = c /\ ReceiptOf(c)' = ReceiptOf(c)
    BY ReceiptStays DEF Threads
  <1>2. CASE UNCHANGED <<file, faults>> /\ \A c \in Callers : stage'[c] = "halfway" <=> stage[c] = "halfway"
    BY <1>1, <1>2 DEF LinesWhole, Follows
  <1>3. ASSUME NEW c \in Callers, BeginLine(c), faults = 0 PROVE LinesWhole'
    <2> DEFINE e == Piece(ReceiptOf(c), FALSE)
    <2>1. Extended(file, file', e)
      BY <1>3, ThreadMoves, AppendListed DEF Types
    <2>2. ~ e.last
      BY DEF Piece
    <2> HIDE DEF e
    <2>3. stage[c] = "locked" /\ stage'[c] = "halfway" /\ \A d \in Callers \ {c} : stage'[d] = stage[d]
      BY <1>3, ThreadMoves
    <2>4. \A d \in Callers : stage[d] # "halfway"
      BY <1>1, <2>3
    <2>5. file = << >> \/ file[Len(file)].last
      BY <1>3, <2>4 DEF LinesWhole
    <2>6. file' # << >> /\ file'[Len(file')] = e /\ Len(file') \in Nat \ {0}
          /\ (Len(file') # 1 => file # << >> /\ file'[Len(file') - 1] = file[Len(file)])
      BY <2>1 DEF Extended
    <2>7. \A k \in DOMAIN file' : Follows(k)'
      <3>1. ASSUME NEW k \in DOMAIN file PROVE Follows(k)'
        BY <1>3, <2>1, FollowsStays DEF LinesWhole
      <3>2. Follows(Len(file))'
        BY <2>2, <2>5, <2>6 DEF Follows
      <3>3. \A k \in DOMAIN file' : k \in DOMAIN file \/ k = Len(file')
        BY <2>1 DEF Extended
      <3> QED
        BY <3>1, <3>2, <3>3
    <2>8. ASSUME NEW d \in Callers, stage'[d] = "halfway"
          PROVE  file'[Len(file')] = Piece(ReceiptOf(d)', FALSE)
      <3>1. d = c
        BY <2>3, <2>4, <2>8
      <3>2. ReceiptOf(d)' = ReceiptOf(c)
        BY <1>1, <2>3, <3>1
      <3> QED
        BY <2>6, <3>2 DEF e
    <2>9. \A d \in Callers : stage'[d] = "halfway" => file'[Len(file')] = Piece(ReceiptOf(d), FALSE)'
      BY <2>8 DEF Piece
    <2> QED
      BY <2>3, <2>6, <2>7, <2>9 DEF LinesWhole
  <1>4. ASSUME NEW c \in Callers, EndLine(c), faults = 0 PROVE LinesWhole'
    <2> DEFINE e == Piece(ReceiptOf(c), TRUE)
    <2>1. Extended(file, file', e)
      BY <1>4, ThreadMoves, AppendListed DEF Types
    <2>2. e.last /\ e.receipt = ReceiptOf(c)
      BY DEF Piece
    <2> HIDE DEF e
    <2>3. stage[c] = "halfway" /\ stage'[c] = "VERIFIED" /\ \A d \in Callers \ {c} : stage'[d] = stage[d]
      BY <1>4, ThreadMoves
    <2>4. file # << >> /\ file[Len(file)] = Piece(ReceiptOf(c), FALSE)
      BY <1>4, <2>3 DEF LinesWhole
    <2>5. Len(file) # 0
      BY <2>4 DEF Types, Listed
    <2>6. /\ file'[Len(file')] = e /\ Len(file') > 1
          /\ file'[Len(file') - 1] = Piece(ReceiptOf(c), FALSE)
      <3>1. Len(file) \in Nat /\ DOMAIN file = 1 .. Len(file)
        BY DEF Types, Listed
      <3>2. /\ Len(file') = Len(file) + 1 /\ file'[Len(file) + 1] = e
            /\ \A k \in DOMAIN file : file'[k] = file[k]
        BY <2>1 DEF Extended
      <3>3. Len(file) \in DOMAIN file /\ Len(file') > 1 /\ Len(file') - 1 = Len(file)
        BY <2>5, <3>1, <3>2
      <3>4. file'[Len(file') - 1] = file[Len(file)]
        BY <3>2, <3>3
      <3> QED
        BY <2>4, <3>2, <3>3, <3>4
    <2>7. \A k \in DOMAIN file' : Follows(k)'
      <3>1. ASSUME NEW k \in DOMAIN file PROVE Follows(k)'
        BY <1>4, <2>1, FollowsStays DEF LinesWhole
      <3>2. Follows(Len(file))'
        BY <2>2, <2>6 DEF Follows, Piece
      <3>3. \A k \in DOMAIN file' : k \in DOMAIN file \/ k = Len(file')
        BY <2>1 DEF Extended
      <3> QED
        BY <3>1, <3>2, <3>3
    <2>8. \A d \in Callers : stage'[d] # "halfway"
      BY <1>1, <2>3
    <2> QED
      BY <2>2, <2>6, <2>7, <2>8 DEF LinesWhole
  <1>5. ASSUME NEW c \in Callers, Return(c) \/ LockLog(c)
        PROVE  UNCHANGED <<file, faults>> /\ \A d \in Callers : stage'[d] = "halfway" <=> stage[d] = "halfway"
    BY <1>5, ThreadMoves
  <1>6. ASSUME NEW c \in Callers, BeginLine(c) \/ EndLine(c) PROVE faults' = faults
    BY <1>6, ThreadMoves
  <1>7. ASSUME faults' = faults + 1 PROVE faults' # 0
    BY <1>7 DEF Types
  <1>8. ASSUME NEW c \in Callers, WriteFails(c) PROVE faults' # 0
    BY <1>7, <1>8, ThreadMoves
  <1>9. BridgeDies => faults' # 0
    BY <1>7, DeathMoves
  <1>10. faults' # 0 => LinesWhole'
    BY DEF LinesWhole
  <1>11. CASE UNCHANGED <<lock, file, appended, stage, faults>>
    BY <1>2, <1>11
  <1> QED
    BY <1>2, <1>3, <1>4, <1>5, <1>6, <1>8, <1>9, <1>10, <1>11, ThreadCases

-----------------------------------------------------------------------------
(* The readers.                                                            *)

\* A piece that ends a line carries its receipt and says so.
LEMMA PieceFields ==
    ASSUME NEW r, NEW piece, piece = Piece(r, TRUE) PROVE piece.receipt = r /\ piece.last
  <1>1. Piece(r, TRUE).receipt = r /\ Piece(r, TRUE).last
    BY DEF Piece
  <1> QED
    BY <1>1

\* A set of places in a list has a greatest one.
LEMMA MaxOfPlaces ==
    ASSUME NEW n \in Nat, NEW S, S \subseteq 1 .. n, S # {}
    PROVE  Max(S) \in S /\ \A k \in S : k <= Max(S)
  <1> DEFINE T == {n - k : k \in S}
  <1>1. T \subseteq Nat /\ T # {}
    <2>1. \A k \in S : n - k \in Nat
      OBVIOUS
    <2>2. PICK k : k \in S
      OBVIOUS
    <2>3. n - k \in T
      BY <2>2
    <2> QED
      BY <2>1, <2>3
  <1>2. PICK m \in T : \A k \in T : m <= k
    <2> HIDE DEF T
    <2> QED
      BY <1>1, LeastMember
  <1>3. PICK x \in S : m = n - x
    BY <1>2
  <1>4. \A k \in S : n - k \in T
    OBVIOUS
  <1>5. \A k \in S : x >= k
    BY <1>2, <1>3, <1>4
  <1>6. Max(S) = CHOOSE y \in S : \A k \in S : y >= k
    BY DEF Max
  <1>7. Max(S) \in S /\ \A k \in S : Max(S) >= k
    BY <1>5, <1>6
  <1> QED
    BY <1>7

\* find returns the newest receipt appended, says that there is none, or raises.
LEMMA FindHolds ==
    ASSUME Types, AppendedInOrder PROVE FindNeverStale
  <1> SUFFICES ASSUME NEW request PROVE Find(request) \in {Newest(request), Raises}
    BY DEF FindNeverStale
  <1>1. PICK at \in [DOMAIN appended -> DOMAIN file] :
           /\ \A j \in DOMAIN appended : file[at[j]] = Piece(appended[j], TRUE)
           /\ \A i, j \in DOMAIN appended : i < j => at[i] < at[j]
           /\ \A k \in DOMAIN file : file[k].last => \E j \in DOMAIN appended : at[j] = k
    BY DEF AppendedInOrder
  <1>2. /\ Len(file) \in Nat /\ DOMAIN file = 1 .. Len(file)
        /\ Len(appended) \in Nat /\ DOMAIN appended = 1 .. Len(appended)
    BY DEF Types, Listed
  <1> DEFINE hits == {k \in LineEnds : Parses(k) => file[k].receipt.request = request}
             of == {k \in DOMAIN appended : appended[k].request = request}
  <1>3. \A j \in of : at[j] \in hits
    <2>1. ASSUME NEW j \in of PROVE at[j] \in hits
      <3>1. /\ j \in DOMAIN appended /\ appended[j].request = request
            /\ at[j] \in DOMAIN file /\ file[at[j]] = Piece(appended[j], TRUE)
        BY <1>1, <2>1
      <3>2. file[at[j]].receipt = appended[j] /\ file[at[j]].last
        BY <3>1, PieceFields
      <3> QED
        BY <3>1, <3>2 DEF LineEnds
    <2> QED
      BY <2>1
  <1>4. Find(request) = IF hits = {} THEN Missing
                        ELSE IF Parses(Max(hits)) THEN Found(file[Max(hits)].receipt) ELSE Raises
    BY DEF Find
  <1>5. Newest(request) = IF of = {} THEN Missing ELSE Found(appended[Max(of)])
    BY DEF Newest
  <1>6. hits \subseteq 1 .. Len(file) /\ of \subseteq 1 .. Len(appended)
    BY <1>2 DEF LineEnds
  <1>7. ASSUME hits # {}, Parses(Max(hits)) PROVE Find(request) = Newest(request)
    <2>1. PICK m : m = Max(hits) /\ m \in hits /\ \A k \in hits : k <= m
      BY <1>2, <1>6, <1>7, MaxOfPlaces
    <2>2. /\ m \in DOMAIN file /\ file[m].last /\ file[m].receipt.request = request
      BY <1>7, <2>1 DEF Parses, LineEnds
    <2>3. PICK j \in DOMAIN appended : at[j] = m
      BY <1>1, <2>2
    <2>4. file[m].receipt = appended[j]
      <3>1. file[m] = Piece(appended[j], TRUE)
        BY <1>1, <2>3
      <3> QED
        BY <3>1, PieceFields
    <2>5. j \in of
      BY <2>2, <2>4
    <2>6. PICK n : n = Max(of) /\ n \in of /\ \A k \in of : k <= n
      BY <1>2, <1>6, <2>5, MaxOfPlaces
    <2>7. n = j
      <3>1. at[n] <= at[j] /\ at[n] \in Nat /\ at[j] \in Nat
        BY <1>2, <1>3, <2>1, <2>3, <2>6
      <3>2. j <= n /\ n \in DOMAIN appended /\ j \in Nat /\ n \in Nat
        BY <1>2, <2>5, <2>6
      <3>3. ~ (j < n)
        BY <1>1, <3>1, <3>2
      <3> QED
        BY <3>2, <3>3
    <2> QED
      BY <1>4, <1>5, <1>7, <2>1, <2>4, <2>5, <2>6, <2>7
  <1> QED
    BY <1>3, <1>4, <1>5, <1>7

\* Without faults tail raises only for a receipt that splitlines cuts.
LEMMA TailHolds ==
    ASSUME Types, Threads, AppendedInOrder, LinesWhole PROVE ReadableUntilFault
  <1> SUFFICES ASSUME lock = Free, TailRaises, faults = 0
               PROVE  \E j \in DOMAIN appended : appended[j].splits
    BY DEF ReadableUntilFault, Types
  <1>1. PICK at \in [DOMAIN appended -> DOMAIN file] :
           /\ \A j \in DOMAIN appended : file[at[j]] = Piece(appended[j], TRUE)
           /\ \A k \in DOMAIN file : file[k].last => \E j \in DOMAIN appended : at[j] = k
    BY DEF AppendedInOrder
  <1>2. Len(file) \in Nat /\ DOMAIN file = 1 .. Len(file)
    BY DEF Types, Listed
  <1>3. \A c \in Callers : stage[c] # "halfway"
    BY CallersAssumption DEF Threads
  <1>4. file = << >> \/ file[Len(file)].last
    BY <1>3 DEF LinesWhole
  <1>5. PICK k \in LineEnds : ~ Parses(k)
    BY DEF TailRaises
  <1>6. k \in DOMAIN file /\ file[k].last
    BY <1>4, <1>5 DEF LineEnds
  <1>7. k > 1 /\ file[k - 1] = Piece(file[k].receipt, FALSE)
    BY <1>6 DEF LinesWhole, Follows
  <1>8. ~ file[k - 1].last /\ file[k - 1].receipt = file[k].receipt
    BY <1>7 DEF Piece
  <1>9. k = 2 \/ file[k - 2].last
    <2>1. k - 1 \in DOMAIN file /\ k - 1 - 1 = k - 2 /\ (k - 1 = 1 => k = 2)
      BY <1>2, <1>6, <1>7
    <2>2. Follows(k - 1)
      BY <2>1 DEF LinesWhole
    <2> QED
      BY <1>8, <2>1, <2>2 DEF Follows
  <1>10. file[k].receipt.splits
    BY <1>5, <1>6, <1>7, <1>8, <1>9 DEF Parses
  <1>11. PICK j \in DOMAIN appended : at[j] = k
    BY <1>1, <1>6
  <1>12. file[k].receipt = appended[j]
    <2>1. file[k] = Piece(appended[j], TRUE)
      BY <1>1, <1>11
    <2> QED
      BY <2>1, PieceFields
  <1> QED
    BY <1>10, <1>12

-----------------------------------------------------------------------------
(* The invariant and what follows from it.                                 *)

\* The invariant of loop, threads and log is inductive.
THEOREM Inductive == Spec => []IInv
  <1>1. Init => IInv
    <2> SUFFICES ASSUME Init PROVE IInv
      OBVIOUS
    <2>1. LoopTypes
      BY BacklogAssumption, EmptySeq DEF Init, LoopInit, LoopTypes, Places
    <2>2. Types
      BY <2>1, EmptySeq DEF Init, LogInit, Types, Stages, Listed
    <2>3. OneConnection
      BY PeersAssumption, EmptySeq DEF Init, LoopInit, OneConnection, Connected, Queued
    <2>4. Threads
      BY CallersAssumption DEF Init, LogInit, Threads
    <2>5. AppendedInOrder
      <3>1. DOMAIN appended = {} /\ DOMAIN file = {}
        BY EmptySeq DEF Init, LogInit
      <3> DEFINE at == [j \in {} |-> 0]
      <3>2. at \in [DOMAIN appended -> DOMAIN file]
        BY <3>1
      <3> QED
        BY <3>1, <3>2 DEF AppendedInOrder
    <2>6. LinesWhole
      BY EmptySeq DEF Init, LogInit, LinesWhole
    <2> QED
      BY <2>2, <2>3, <2>4, <2>5, <2>6 DEF IInv
  <1>2. IInv /\ [Next]_vars => IInv'
    <2>1. Types => LoopTypes
      BY DEF Types
    <2> QED
      BY <2>1, LoopStep, ThreadsStep, AppendedStep, LinesStep DEF IInv
  <1> QED
    BY <1>1, <1>2, PTL DEF Spec

\* Type correctness of loop, log and threads; no backlog is overfilled.
THEOREM TypeCorrect == Spec => []TypeOK
  <1>1. IInv => TypeOK
    BY DEF IInv, Types, LoopTypes, TypeOK, Places, Stages
  <1> QED
    BY <1>1, Inductive, PTL

\* find never passes off an older receipt as the newest, nor denies one that was
\* appended.
THEOREM FindNeverStaleAlways == Spec => []FindNeverStale
  <1>1. IInv => FindNeverStale
    BY FindHolds DEF IInv
  <1> QED
    BY <1>1, Inductive, PTL

\* The log stays readable until a write fails, the bridge dies, or a receipt with
\* a line separator is appended.
THEOREM ReadableUntilFaultAlways == Spec => []ReadableUntilFault
  <1>1. IInv => ReadableUntilFault
    BY TailHolds DEF IInv
  <1> QED
    BY <1>1, Inductive, PTL

=============================================================================
