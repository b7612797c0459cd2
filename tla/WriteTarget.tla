----------------------------- MODULE WriteTarget -----------------------------
(* One signed report that the write targets of several nodes (pkg/writetarget) write
   through a forwarder contract.  A writer is one call of Execute: it looks at the
   chain, transmits and returns, and leaves acceptAndConfirmWrite behind.  External:
   the contract, which remembers the last attempt to hand the report to its receiver,
   and the transaction manager behind TransmitReport and GetTransactionStatus.

   An operator marked "faulty" is a plausible mistake in the operator after it. *)
EXTENDS Naturals, Sequences

CONSTANTS Writers

VARIABLES
    execute,                 \* where each call is, and what it returned
    confirmer,               \* where its acceptAndConfirmWrite is
    emitted,                 \* the messages it has emitted
    txStatus,                \* external: its transaction
    transmission             \* external: the state of the report in the contract

writeVars == <<execute, confirmer, emitted, txStatus, transmission>>

WriteInit ==
    /\ execute = [w \in Writers |-> "called"]
    /\ confirmer = [w \in Writers |-> "none"]
    /\ emitted = [w \in Writers |-> <<>>]
    /\ txStatus = [w \in Writers |-> "none"]
    /\ transmission = "not attempted"

Emit(w, message) == emitted' = [emitted EXCEPT ![w] = Append(@, message)]

(* WriteConfirmed carries whether the state it has seen is a success. *)
AlwaysSuccess == "confirmed"                                       \* faulty
WriteConfirmed == IF transmission = "succeeded" THEN "confirmed" ELSE "confirmed as failed"

Respond(w, response, message) ==
    /\ execute' = [execute EXCEPT ![w] = response]
    /\ Emit(w, message)
    /\ UNCHANGED <<confirmer, txStatus, transmission>>

----------------------------------------------------------------------------
(* Execute: the request is invalid, or a call fails; the report is empty. *)
Reject(w) ==
    /\ execute[w] \in {"called", "transmit"}
    /\ Respond(w, "error", "error")

SkipEmptyReport(w) ==
    /\ execute[w] = "called"
    /\ Respond(w, "success", "skipped")

QueryTransmissionState(w) ==
    /\ execute[w] = "called"
    /\ CASE transmission = "fatal"     -> Respond(w, "error", "error")
         [] transmission = "succeeded" -> Respond(w, "success", WriteConfirmed)
         [] OTHER -> /\ execute' = [execute EXCEPT ![w] = "transmit"]
                     /\ UNCHANGED <<confirmer, emitted, txStatus, transmission>>

TransmitReport(w) ==
    /\ execute[w] = "transmit"
    /\ txStatus' = [txStatus EXCEPT ![w] = "pending"]
    /\ execute' = [execute EXCEPT ![w] = "success"]
    /\ Emit(w, "sent")
    /\ confirmer' = [confirmer EXCEPT ![w] = "polling"]
    /\ UNCHANGED transmission

----------------------------------------------------------------------------
(* acceptAndConfirmWrite: a tick at which a call fails, or the transaction is not
   finalized, leaves everything as it is. *)

Ended(w) == [confirmer EXCEPT ![w] = "ended"]

ConfirmWrite(w) ==
    /\ confirmer[w] = "polling" /\ txStatus[w] = "finalized"
    /\ Emit(w, WriteConfirmed)
    /\ confirmer' = Ended(w)
    /\ UNCHANGED <<execute, txStatus, transmission>>

TimeOut(w) ==
    /\ confirmer[w] = "polling"
    /\ Emit(w, "error")
    /\ confirmer' = [confirmer EXCEPT ![w] = "ended"]
    /\ UNCHANGED <<execute, txStatus, transmission>>

----------------------------------------------------------------------------
(* External: a transaction gets into a block, where the contract turns it down or
   hands the report over; then the block becomes final.  A delivered report, or one
   that can never be, is not handed over again. *)
Include(w) ==
    /\ txStatus[w] = "pending"
    /\ txStatus' = [txStatus EXCEPT ![w] = "included"]
    /\ IF transmission \in {"succeeded", "fatal"} THEN UNCHANGED transmission
       ELSE transmission' \in {transmission, "succeeded", "failed", "fatal"}
    /\ UNCHANGED <<execute, confirmer, emitted>>

Finalized(w) ==
    /\ txStatus[w] = "included"
    /\ txStatus' = [txStatus EXCEPT ![w] = "finalized"]
    /\ UNCHANGED <<execute, confirmer, emitted, transmission>>

WriteNext ==
    \E w \in Writers :
        \/ Reject(w) \/ SkipEmptyReport(w) \/ QueryTransmissionState(w) \/ TransmitReport(w)
        \/ ConfirmWrite(w) \/ TimeOut(w)
        \/ Include(w) \/ Finalized(w)

WriteSpec == WriteInit /\ [][WriteNext]_writeVars

----------------------------------------------------------------------------
(* Properties. *)

Messages == {"skipped", "sent", "confirmed", "confirmed as failed", "error"}
Verdicts == {"skipped", "confirmed", "confirmed as failed", "error"}

(* Every variable has the shape the code's types give it. *)
WriteTypeOK ==
    /\ execute \in [Writers -> {"called", "transmit", "success", "error"}]
    /\ confirmer \in [Writers -> {"none", "polling", "ended"}]
    /\ emitted \in [Writers -> Seq(Messages)]
    /\ txStatus \in [Writers -> {"none", "pending", "included", "finalized"}]
    /\ transmission \in {"not attempted", "succeeded", "failed", "fatal"}

(* Whoever follows the messages learns how each write ended, once: there is one
   verdict when Execute has returned and nothing is left to confirm, and none before
   that, also when the deadline passes at the moment of the confirmation. *)
OneVerdict ==
    \A w \in Writers :
        LET verdicts == {i \in DOMAIN emitted[w] : emitted[w][i] \in Verdicts}
            over == execute[w] \in {"success", "error"} /\ confirmer[w] # "polling"
        IN  IF over THEN \E i \in DOMAIN emitted[w] : verdicts = {i} ELSE verdicts = {}

(* A WriteConfirmed that claims success is about a report the receiver has got,
   through whichever of the writers. *)
SuccessIsTrue ==
    \A w \in Writers : \A i \in DOMAIN emitted[w] :
        emitted[w][i] = "confirmed" => transmission = "succeeded"

(* "WT confirmed the report was successfully written on-chain"
   (write_confirmed.proto).  Not so of a write that is confirmed as failed, and no run
   checks it; see the README. *)
ConfirmedMeansWritten ==
    \A w \in Writers : \A i \in DOMAIN emitted[w] :
        emitted[w][i] \in {"confirmed", "confirmed as failed"} => transmission = "succeeded"

(* One verdict is given, and a good one is true. *)
VerdictsAreRight == OneVerdict /\ SuccessIsTrue
=============================================================================
