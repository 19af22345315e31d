--------------------------- MODULE BridgeProcess ---------------------------
(***************************************************************************)
(* The end of submit_action_request, in the threads of a bridge process:   *)
(* the call of the verifier over its socket, the append of the receipt to  *)
(* the log, and the answer to the agent; with failing writes, and with the *)
(* death of the process and its replacement anywhere in between.           *)
(***************************************************************************)
EXTENDS ServiceLoop, ReceiptLog

CONSTANTS
    Submissions,     \* what the callers may submit: functions to [request, splits]
    MaxFaults        \* bound on failed writes and deaths of the bridge

ASSUME CallersAssumption == Free \notin Callers

VARIABLES
    submitted,       \* submitted[c]: the request id of c, and whether its receipt splits
    stage,           \* stage[c]: how far the submission of c is
    faults

vars == <<loopVars, logVars, submitted, stage, faults>>

Init ==
    /\ LoopInit
    /\ LogInit
    /\ submitted \in Submissions
    /\ stage = [c \in Callers |-> "calling"]
    /\ faults = 0

\* The receipt of a call: the verifier numbers its receipts in the order of its
\* chain.
ReceiptOf(c) ==
    [number |-> CHOOSE k \in DOMAIN handled : handled[k] = c,
     request |-> submitted[c].request, splits |-> submitted[c].splits]

Advance(c, place) == stage' = [stage EXCEPT ![c] = place]

-----------------------------------------------------------------------------
StartCall(c) ==
    /\ stage[c] = "calling"
    /\ Connect(c)
    /\ UNCHANGED <<logVars, submitted, stage, faults>>

\* The rest of UnixJsonClient.call.
Converse(c) ==
    /\ Send(c, "call") \/ Timeout(c)
    /\ UNCHANGED <<logVars, submitted, stage, faults>>

\* call returns a receipt, or raises.
Return(c) ==
    /\ stage[c] = "calling" /\ peer[c] \in Ended
    /\ Advance(c, IF peer[c] = "answered" THEN "verified" ELSE "ERROR")
    /\ UNCHANGED <<loopVars, logVars, submitted, faults>>

LockLog(c) ==
    /\ stage[c] = "verified"
    /\ Acquire(c)
    /\ Advance(c, "locked")
    /\ UNCHANGED <<loopVars, submitted, faults>>

BeginLine(c) ==
    /\ stage[c] = "locked"
    /\ WriteFirst(ReceiptOf(c))
    /\ Advance(c, "halfway")
    /\ UNCHANGED <<loopVars, submitted, faults>>

EndLine(c) ==
    /\ stage[c] = "halfway"
    /\ WriteLast(ReceiptOf(c))
    /\ Advance(c, "VERIFIED")
    /\ UNCHANGED <<loopVars, submitted, faults>>

CallerStep(c) == Converse(c) \/ Return(c) \/ LockLog(c) \/ BeginLine(c) \/ EndLine(c)

-----------------------------------------------------------------------------
\* write or close raises: the exception leaves append, and the submission.
WriteFails(c) ==
    /\ faults < MaxFaults /\ faults' = faults + 1
    /\ stage[c] \in {"locked", "halfway"}
    /\ Release
    /\ Advance(c, "ERROR")
    /\ UNCHANGED <<loopVars, submitted>>

\* The bridge dies with all its threads; calls not yet begun are those of the
\* process that replaces it.
BridgeDies ==
    LET own == {c \in Callers : peer[c] # "idle" /\ stage[c] \notin {"VERIFIED", "ERROR"}}
    IN  /\ faults < MaxFaults /\ faults' = faults + 1
        /\ own # {}
        /\ stage' = [c \in Callers |-> IF c \in own THEN "ERROR" ELSE stage[c]]
        /\ peer' = [p \in Peers |-> IF p \in own /\ peer[p] \in Open THEN "closed" ELSE peer[p]]
        /\ Release
        /\ UNCHANGED <<path, inst, backlog, conn, line, handled, submitted>>

\* A stranger connects, and may stop the service, leave or stay silent.
StrangerStep(s) ==
    /\ Connect(s) \/ Send(s, "shutdown") \/ Close(s)
    /\ UNCHANGED <<logVars, submitted, stage, faults>>

ServiceStart(i) == Unlink(i) /\ UNCHANGED <<logVars, submitted, stage, faults>>
ServiceStep(i) == Serve(i) /\ UNCHANGED <<logVars, submitted, stage, faults>>

\* Every submission is over.
Finished ==
    /\ \A c \in Callers : stage[c] \in {"VERIFIED", "ERROR"}
    /\ UNCHANGED vars

Next ==
    \/ \E c \in Callers : StartCall(c) \/ CallerStep(c) \/ WriteFails(c)
    \/ \E s \in Strangers : StrangerStep(s)
    \/ \E i \in Instances : ServiceStart(i) \/ ServiceStep(i)
    \/ BridgeDies \/ Finished

\* Services and threads are running programs; a thread's timeout is a step of
\* its own that comes if nothing else does.  Nothing is assumed of strangers,
\* of faults or of who starts a process.
Fairness ==
    /\ \A i \in Instances : WF_vars(ServiceStep(i))
    /\ \A c \in Callers : WF_vars(CallerStep(c))

Spec == Init /\ [][Next]_vars /\ Fairness

-----------------------------------------------------------------------------
\* Type invariant of loop, log and threads; the backlog holds what listen(16)
\* lets it hold.
TypeOK ==
    /\ path \in {0} \union Instances
    /\ \A i \in Instances :
          /\ inst[i] \in {"new", "unlinked", "bound", "accepting", "reading", "answering",
                          "stopping", "ended"}
          /\ conn[i] \in Peers \union {"none"}
          /\ Len(backlog[i]) <= Backlog
    /\ \A p \in Peers : peer[p] \in {"idle"} \union Open \union Ended
    /\ lock \in Callers \union {Free}
    /\ \A c \in Callers : stage[c] \in {"calling", "verified", "locked", "halfway",
                                        "VERIFIED", "ERROR"}

\* The receipt of a request whose append was completed last.  find's "latest" is
\* the last in the file, and the file follows the order in which threads got the
\* lock, which need not be that in which the verifier numbered their receipts.
Newest(request) ==
    LET of == {k \in DOMAIN appended : appended[k].request = request}
    IN  IF of = {} THEN Missing ELSE Found(appended[Max(of)])

\* find never lies: between two appends it returns the newest receipt whose
\* append was completed, says that there is none, or raises.  A torn line, a
\* receipt lost by being written after one, and a receipt that splitlines cuts
\* never make it pass off an older receipt as the newest, or report an action as
\* not verified.
FindNeverStale ==
    lock = Free => \A c \in Callers :
        LET request == submitted[c].request
        IN  Find(request) \in {Newest(request), Raises}

\* The log stays readable, whatever the threads do at once, until a write fails
\* or the process dies in the middle of one, or a receipt with a line separator
\* in its text is appended: append does not escape what tail splits at.
ReadableUntilFault ==
    (lock = Free /\ TailRaises) =>
        faults > 0 \/ \E k \in DOMAIN appended : appended[k].splits

-----------------------------------------------------------------------------
(* The strengthening that makes the invariants above inductive.            *)

\* s is a sequence, of whatever elements.
Listed(s) == s \in Seq({s[k] : k \in DOMAIN s})

Stages == {"calling", "verified", "locked", "halfway", "VERIFIED", "ERROR"}

Types ==
    /\ LoopTypes
    /\ lock \in Callers \union {Free}
    /\ stage \in [Callers -> Stages]
    /\ faults \in Nat
    /\ Listed(file) /\ Listed(appended)

\* A thread past its call has its answer, and holds the lock while it appends.
Threads ==
    \A c \in Callers :
        /\ stage[c] \in {"verified", "locked", "halfway", "VERIFIED"} => peer[c] = "answered"
        /\ stage[c] \in {"locked", "halfway"} <=> lock = c

\* The receipts appended are those of the pieces that end a line, in order.
AppendedInOrder ==
    \E at \in [DOMAIN appended -> DOMAIN file] :
        /\ \A j \in DOMAIN appended : file[at[j]] = Piece(appended[j], TRUE)
        /\ \A i, j \in DOMAIN appended : i < j => at[i] < at[j]
        /\ \A k \in DOMAIN file : file[k].last => \E j \in DOMAIN appended : at[j] = k

\* The piece at k is the second of a line, or the first after the end of one.
Follows(k) ==
    IF file[k].last THEN k > 1 /\ file[k - 1] = Piece(file[k].receipt, FALSE)
                    ELSE k = 1 \/ file[k - 1].last

\* Without a fault every line has its two pieces, but for the one being written.
LinesWhole ==
    faults = 0 =>
        /\ \A k \in DOMAIN file : Follows(k)
        /\ (\A c \in Callers : stage[c] # "halfway") => file = << >> \/ file[Len(file)].last
        /\ \A c \in Callers : stage[c] = "halfway" =>
              file # << >> /\ file[Len(file)] = Piece(ReceiptOf(c), FALSE)

IInv == Types /\ OneConnection /\ Threads /\ AppendedInOrder /\ LinesWhole
=============================================================================
