----------------------------- MODULE ReceiptLog -----------------------------
(***************************************************************************)
(* FinalizedReceiptLog (mcp_server.py): a file of JSON lines to which the  *)
(* threads of a bridge process append under the process's lock.            *)
(*                                                                         *)
(* What is written reaches the file in pieces; here a line has two, the    *)
(* second of which ends with the newline.  A process that dies, or a write *)
(* that fails, leaves the first piece behind, and the next line begins     *)
(* right after it.  The first piece is never JSON: a tear between the last *)
(* brace and the newline, which leaves a whole receipt, is left out.       *)
(*                                                                         *)
(* A receipt is [number, request, splits]: splits when its text has one of *)
(* the separators that json.dumps(ensure_ascii=False) leaves as they are   *)
(* and splitlines cuts at (U+0085, U+2028, U+2029).                        *)
(***************************************************************************)
EXTENDS Naturals, Sequences, FiniteSetsExt

VARIABLES
    file,            \* the pieces in the file: [receipt, last]
    lock,            \* the thread that holds the lock, or Free
    appended         \* history: the receipts whose append was completed

logVars == <<file, lock, appended>>

Free == "free"

LogInit == file = << >> /\ lock = Free /\ appended = << >>

Piece(receipt, last) == [receipt |-> receipt, last |-> last]

\* Mutant: a log without a lock.
AcquireAnyway(t) == lock' = t /\ UNCHANGED <<file, appended>>

\* with self._lock
Acquire(t) == lock = Free /\ lock' = t /\ UNCHANGED <<file, appended>>

WriteFirst(receipt) == file' = Append(file, Piece(receipt, FALSE)) /\ UNCHANGED <<lock, appended>>

\* The rest of the line; the file is closed and the lock released.
WriteLast(receipt) ==
    /\ file' = Append(file, Piece(receipt, TRUE))
    /\ appended' = Append(appended, receipt)
    /\ lock' = Free

\* The write fails, or the holder of the lock dies with its process.
Release == lock' = Free /\ UNCHANGED <<file, appended>>

-----------------------------------------------------------------------------
(* The readers.                                                            *)

\* The places where lines end: at a newline, and at the end of the file.
LineEnds == {k \in DOMAIN file : file[k].last \/ k = Len(file)}

\* json.loads succeeds on the line that ends at k: it consists of the two
\* pieces of one receipt, and splitlines leaves it in one.
Parses(k) ==
    /\ k > 1 /\ file[k].last /\ ~ file[k].receipt.splits
    /\ ~ file[k - 1].last /\ file[k - 1].receipt = file[k].receipt
    /\ k = 2 \/ file[k - 2].last

Raises == [kind |-> "raises"]
Missing == [kind |-> "missing"]
Found(receipt) == [kind |-> "found", receipt |-> receipt]

\* tail raises on the first line that does not parse, however old it is.
TailRaises == \E k \in LineEnds : ~ Parses(k)

\* Mutant: lines that do not parse are skipped.
FindSkipping(request) ==
    LET hits == {k \in LineEnds : Parses(k) /\ file[k].receipt.request = request}
    IN  IF hits = {} THEN Missing ELSE Found(file[Max(hits)].receipt)

\* find reads from the end to the first line that is about the request, and
\* raises on a line before it that does not parse.
Find(request) ==
    LET hits == {k \in LineEnds : Parses(k) => file[k].receipt.request = request}
    IN  IF hits = {} THEN Missing
        ELSE IF Parses(Max(hits)) THEN Found(file[Max(hits)].receipt) ELSE Raises

=============================================================================
