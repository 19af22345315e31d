--------------------------- MODULE ExecutorProofs ---------------------------
(***************************************************************************)
(* The executor's properties for every set of clients, requests, permits   *)
(* and clock readings.  What one step preserves is stated for any set of   *)
(* permits and requests, so that the proofs about the appliance use it too.*)
(***************************************************************************)
EXTENDS ExecutorEnvironment, TLAPS

\* What a permit that passes every check of the executor has been shown to be.
LEMMA PermitFaultNone ==
    ASSUME NEW permit, NEW request, NEW t,
           PermitFault(permit, request, t) = "none"
    PROVE  /\ permit # NoPermit
           /\ permit.intact
           /\ permit.key = "gate" /\ permit.type = "execution_permit"
           /\ ~ (t < permit.body.issued_at)
           /\ ~ (t >= permit.body.expires_at)
           /\ request = permit.body.request
  BY DEF PermitFault, VerifyEnvelope, ExecutorTrust, Expired, Binds

\* The executor gives one of the listed reasons, or finds no fault.
LEMMA PermitFaultReason ==
    ASSUME NEW permit, NEW request, NEW t
    PROVE  PermitFault(permit, request, t) \in Refusals \union {"none"}
  BY DEF PermitFault, Refusals

\* The executor's steps, faults included, keep the types of its variables.
LEMMA ExecTypeStep ==
    ASSUME NEW ps, NEW rs, ExecTypeOK(ps, rs), now \in Nat,
           ExecSteps \/ ExecFaults
    PROVE  ExecTypeOK(ps, rs)'
  <1> DEFINE Msgs == Presentable(ps, rs)
  <1> USE DEF ExecTypeOK
  <1>1. CASE ExecConsume
    <2>1. Head(execQueue) \in Msgs /\ Tail(execQueue) \in Seq(Msgs)
      BY <1>1 DEF ExecConsume
    <2>2. Head(execQueue).permit \in ps
      BY <1>1, <2>1, PermitFaultNone DEF ExecConsume, Presentable
    <2> QED
      BY <1>1, <2>1, <2>2 DEF ExecConsume, Presentable, Rows
  <1>2. CASE ExecRefuse
    <2>1. Head(execQueue) \in Msgs /\ Tail(execQueue) \in Seq(Msgs)
      BY <1>2 DEF ExecRefuse
    <2>2. execJob'.reason \in Refusals
      BY <1>2, PermitFaultReason DEF ExecRefuse, Refusals
    <2>3. execJob' \in [stage : {"refused"}, client : Clients,
                        permit : ps \union {NoPermit}, reason : Refusals]
      BY <1>2, <2>1, <2>2 DEF ExecRefuse, Presentable
    <2> QED
      BY <1>2, <2>1, <2>3 DEF ExecRefuse
  <1>3. CASE ExecRun
    BY <1>3 DEF ExecRun, NoJob, Attempts
  <1>4. CASE ExecRespond
    BY <1>4 DEF ExecRespond
  <1>5. CASE ExecDown
    <2>1. execQueue' \in Seq(Msgs)
      BY <1>5 DEF ExecDown
    <2> QED
      BY <1>5, <2>1 DEF ExecDown
  <1>6. CASE ExecRestart
    BY <1>6 DEF ExecRestart
  <1>7. CASE ExecConsumeFails
    <2>1. Head(execQueue) \in Msgs /\ Tail(execQueue) \in Seq(Msgs)
      BY <1>7 DEF ExecConsumeFails
    <2>2. execJob' \in [stage : {"refused"}, client : Clients,
                        permit : ps \union {NoPermit}, reason : Refusals]
      BY <1>7, <2>1 DEF ExecConsumeFails, Presentable, Refusals
    <2> QED
      BY <1>7, <2>1, <2>2 DEF ExecConsumeFails
  <1> QED
    BY <1>1, <1>2, <1>3, <1>4, <1>5, <1>6, <1>7
       DEF ExecSteps, ExecFaults, ExecBrokenPipe, ExecCrash

-----------------------------------------------------------------------------
\* Consuming a permit keeps the ledger sound and prepares one new attempt.
LEMMA ConsumeStep ==
    ASSUME NEW ps, NEW rs, ExecTypeOK(ps, rs), now \in Nat,
           \A p \in ps : p.body.issued_at \in Nat /\ p.body.expires_at \in Nat,
           ExecSound, ExecConsume
    PROVE  ExecSound'
  <1> DEFINE m == Head(execQueue)
             new == [permit_id |-> m.permit.body.permit_id, envelope |-> m.permit, at |-> now]
  <1>1. m \in Presentable(ps, rs) /\ m.permit \in ps
    <2>1. m \in Presentable(ps, rs)
      BY DEF ExecTypeOK, ExecConsume
    <2> QED
      BY <2>1, PermitFaultNone DEF ExecConsume, Presentable
  <1>2. /\ m.permit.intact /\ m.permit.key = "gate" /\ m.permit.type = "execution_permit"
        /\ m.permit.body.issued_at <= now /\ now < m.permit.body.expires_at
        /\ m.request = m.permit.body.request
    BY <1>1, PermitFaultNone DEF ExecConsume
  <1>3. permitLedger' = permitLedger \union {new} /\ attempts' = attempts
    BY DEF ExecConsume
  <1>4. \A row \in permitLedger : row.permit_id # m.permit.body.permit_id
    BY DEF ExecConsume, Unused
  <1>5. LedgerSound'
    BY <1>1, <1>2, <1>3, <1>4 DEF ExecSound, LedgerSound
  <1>6. ExecJobSound'
    <2>1. execJob'.stage = "authorized" /\ execJob'.permit = m.permit /\ execJob'.request = m.request
      BY DEF ExecConsume
    <2>2. \A i \in DOMAIN attempts :
             attempts[i].permit.body.permit_id # m.permit.body.permit_id
      BY <1>4 DEF ExecSound, AttemptsSound, LedgerSound
    <2>3. new \in permitLedger' /\ new.envelope = execJob'.permit
      BY <1>3, <2>1
    <2> QED
      BY <1>2, <1>3, <2>1, <2>2, <2>3 DEF ExecJobSound
  <1>7. AttemptsSound' /\ OneAttemptPerPermit'
    BY <1>3 DEF ExecSound, AttemptsSound, OneAttemptPerPermit
  <1> QED
    BY <1>5, <1>6, <1>7 DEF ExecSound

\* The attempt of an authorized job is new and backed by a row.
LEMMA RunStep ==
    ASSUME NEW ps, NEW rs, ExecTypeOK(ps, rs), ExecSound, ExecRun
    PROVE  ExecSound'
  <1>1. PICK outcome \in Outcomes :
           /\ attempts' = Append(attempts, [permit |-> execJob.permit,
                                            request |-> execJob.request, outcome |-> outcome])
           /\ execJob' = [stage |-> "executed", client |-> execJob.client,
                          request |-> execJob.request, permit |-> execJob.permit,
                          outcome |-> outcome]
    BY DEF ExecRun
  <1>2. /\ DOMAIN attempts' = 1 .. Len(attempts) + 1
        /\ DOMAIN attempts = 1 .. Len(attempts) /\ Len(attempts) \in Nat
        /\ \A i \in DOMAIN attempts : attempts'[i] = attempts[i]
        /\ attempts'[Len(attempts) + 1] = [permit |-> execJob.permit,
                                           request |-> execJob.request, outcome |-> outcome]
    BY <1>1 DEF ExecTypeOK
  <1>3. permitLedger' = permitLedger
    BY DEF ExecRun
  <1>4. /\ execJob.permit.body.request = execJob.request
        /\ \E row \in permitLedger : row.envelope = execJob.permit
        /\ \A i \in DOMAIN attempts :
              attempts[i].permit.body.permit_id # execJob.permit.body.permit_id
    BY DEF ExecSound, ExecJobSound, ExecRun
  <1>5. LedgerSound'
    BY <1>3 DEF ExecSound, LedgerSound
  <1>6. ExecJobSound'
    BY <1>1, <1>2 DEF ExecJobSound
  <1>7. AttemptsSound'
    BY <1>2, <1>3, <1>4 DEF ExecSound, AttemptsSound
  <1>8. OneAttemptPerPermit'
    BY <1>2, <1>4 DEF ExecSound, OneAttemptPerPermit
  <1> QED
    BY <1>5, <1>6, <1>7, <1>8 DEF ExecSound

\* Every other step leaves ledger and attempts alone and starts no attempt.
LEMMA QuietStep ==
    ASSUME ExecSound, permitLedger' = permitLedger, attempts' = attempts,
           execJob' = execJob \/ execJob'.stage \notin {"authorized", "executed"}
    PROVE  ExecSound'
  BY DEF ExecSound, LedgerSound, ExecJobSound, AttemptsSound, OneAttemptPerPermit

\* One step of the executor keeps ledger, job and attempts consistent.
LEMMA ExecSoundStep ==
    ASSUME NEW ps, NEW rs, ExecTypeOK(ps, rs), now \in Nat,
           \A p \in ps : p.body.issued_at \in Nat /\ p.body.expires_at \in Nat,
           ExecSound, ExecSteps \/ ExecFaults
    PROVE  ExecSound'
  <1>1. CASE ExecConsume
    BY <1>1, ConsumeStep
  <1>2. CASE ExecRun
    BY <1>2, RunStep
  <1>3. CASE ~ ExecConsume /\ ~ ExecRun
    <2>1. /\ permitLedger' = permitLedger /\ attempts' = attempts
          /\ execJob' = execJob \/ execJob'.stage \notin {"authorized", "executed"}
      BY <1>3 DEF ExecSteps, ExecFaults, NoJob, ExecRefuse, ExecConsumeFails, ExecRespond, ExecBrokenPipe,
           ExecCrash, ExecDown, ExecRestart
    <2> QED
      BY <2>1, QuietStep
  <1> QED
    BY <1>1, <1>2, <1>3

-----------------------------------------------------------------------------
(* The executor closed with any environment.                               *)

\* The executor's variables keep their types, whatever its clients send.
LEMMA TypeStep == TypeOK /\ [Next]_vars => TypeOK'
  <1> SUFFICES ASSUME TypeOK, [Next]_vars PROVE TypeOK'
    OBVIOUS
  <1> USE DEF TypeOK
  <1>1. CASE ExecSteps \/ ExecFaults
    <2>1. ExecTypeOK(Permits, Requests)'
      BY <1>1, ExecTypeStep
    <2>2. now' = now /\ closed' = closed
      BY <1>1 DEF ExecSteps, ExecFaults, ExecConsume, ExecRefuse, ExecConsumeFails, ExecRun, ExecRespond,
           ExecBrokenPipe, ExecCrash, ExecDown, ExecRestart, transportVars
    <2> QED
      BY <2>1, <2>2
  <1>2. ASSUME NEW m \in Messages, Present(m) PROVE TypeOK'
    <2>1. execQueue' \in Seq(Messages)
      BY <1>2 DEF Present, Messages, ExecTypeOK
    <2> QED
      BY <1>2, <2>1 DEF Present, Messages, ExecTypeOK
  <1>3. ASSUME NEW c \in Clients, GiveUp(c) PROVE TypeOK'
    BY <1>3 DEF GiveUp, execVars, ExecTypeOK
  <1>4. ASSUME NEW t \in Times, SetClock(t) PROVE TypeOK'
    BY <1>4, PermitsAssumption DEF SetClock, execVars, ExecTypeOK
  <1>5. CASE UNCHANGED vars
    BY <1>5 DEF vars, execVars, transportVars, ExecTypeOK
  <1> QED
    BY <1>1, <1>2, <1>3, <1>4, <1>5 DEF Next, Environment

\* Type correctness of the executor.
THEOREM TypeCorrect == Spec => []TypeOK
  <1>1. Init => TypeOK
    BY DEF Init, ExecInit, TransportInit, TypeOK, ExecTypeOK
  <1> QED
    BY <1>1, TypeStep, PTL DEF Spec

\* The strengthened invariant is inductive.
THEOREM Inductive == Spec => []IInv
  <1>1. Init => IInv
    BY DEF Init, ExecInit, TransportInit, TypeOK, IInv, ExecTypeOK, ExecSound, LedgerSound,
           ExecJobSound, AttemptsSound, OneAttemptPerPermit, NoJob
  <1>2. IInv /\ [Next]_vars => IInv'
    <2> SUFFICES ASSUME IInv, [Next]_vars PROVE IInv'
      OBVIOUS
    <2>1. TypeOK'
      BY TypeStep DEF IInv
    <2>2. CASE ExecSteps \/ ExecFaults
      BY <2>1, <2>2, ExecSoundStep, PermitsAssumption DEF IInv, TypeOK
    <2>3. CASE Environment \/ UNCHANGED vars
      <3>1. permitLedger' = permitLedger /\ attempts' = attempts /\ execJob' = execJob
        BY <2>3 DEF Environment, Present, GiveUp, SetClock, vars, execVars
      <3> QED
        BY <2>1, <3>1, QuietStep DEF IInv
    <2> QED
      BY <2>2, <2>3 DEF Next
  <1> QED
    BY <1>1, <1>2, PTL DEF Spec

\* One permit, one attempt: for any clients, any permits, any interleaving of
\* presentations, crashes and restarts, and any behaviour of the clock.
THEOREM OneAttemptPerPermitAlways == Spec => []OneAttemptPerPermit
  <1>1. IInv => OneAttemptPerPermit
    BY DEF IInv, ExecSound
  <1> QED
    BY <1>1, Inductive, PTL

\* Nothing runs that the gate did not sign for exactly that request, or outside
\* the window in which it was signed to run.
THEOREM AttemptsWerePermittedAlways == Spec => []AttemptsWerePermitted
  <1>1. IInv => AttemptsWerePermitted
    BY DEF IInv, ExecSound, AttemptsWerePermitted, AttemptsSound, LedgerSound
  <1> QED
    BY <1>1, Inductive, PTL

=============================================================================
