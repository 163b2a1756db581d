----------------------------- MODULE MailOutbox -----------------------------
(***************************************************************************)
(* The mail outbox: dispatchers of several runtimes that drain one table   *)
(* of mails.  dispatch_mail_outbox, drain_mail_outbox and retry_mark_sent  *)
(* (aster_forge_mail/src/outbox.rs) over the statements of                 *)
(* aster_forge_db/src/mail_outbox.rs.                                      *)
(*                                                                         *)
(* A pass lists the claimable rows, then claims, delivers and marks them   *)
(* one after the other, with the attempt count it read in the listing.  A  *)
(* row in processing can be claimed again once it is stale; no statement   *)
(* but the claim looks at who claimed it.                                  *)
(*                                                                         *)
(* Time appears as what the statements compare it with: next_attempt_at    *)
(* comes to pass (due) and processing_started_at becomes old (stale) at    *)
(* any later moment.  A statement takes effect in the step that ends its   *)
(* await, and may fail with or without its effect; a delivery that is      *)
(* reported as failed may have reached the recipient.                      *)
(***************************************************************************)
EXTENDS Integers, FiniteSets

CONSTANTS
  Dispatchers,    \* drain calls that run at the same time
  NumMails,       \* mails, numbered in the order of created_at
  BatchSize,      \* batch_size
  DrainRounds,    \* drain_max_rounds
  MaxAttempts,    \* max_attempts of the retry policy
  SentTries,      \* number of mark_sent_retry_delays_ms
  MaxFaults,      \* bound: failed statements, lost answers and crashes
  MaxOverruns     \* bound: claims that go stale while their holder works

ASSUME BoundsAssumption ==
  /\ NumMails \in Nat /\ BatchSize \in Nat \ {0} /\ DrainRounds \in Nat
  /\ MaxAttempts \in Nat \ {0} /\ SentTries \in Nat \ {0}
  /\ MaxFaults \in Nat /\ MaxOverruns \in Nat

Mails == 1..NumMails

VARIABLES
  status,     \* status[m]; "absent" before the row is created
  attempts,   \* attempts[m]: attempt_count
  due,        \* due[m]: next_attempt_at <= now
  stale,      \* stale[m]: processing_started_at <= stale_before
  pc,         \* pc[d]: the await dispatcher d is in
  batch,      \* batch[d]: the listed rows it has not finished
  snapshot,   \* snapshot[d][m]: attempt_count of the row as listed
  round,      \* round[d]: rounds of the drain so far
  claimed,    \* claimed[d]: a row was claimed in this round
  try,        \* try[d]: tries of mark_sent so far
  faults,     \* faults so far
  overruns,   \* history: claims that went stale under a working holder
  delivered,  \* history: delivered[m] counts the copies that went out
  failures,   \* history: failures[m] counts the deliveries reported failed
  audits      \* history: audits[m] counts the on_sent and on_failed calls

rows == <<status, attempts, due, stale>>
control == <<batch, snapshot, round, claimed, try>>
history == <<overruns, delivered, failures, audits>>
vars == <<status, attempts, due, stale, pc, batch, snapshot, round, claimed, try,
          faults, overruns, delivered, failures, audits>>

Statuses == {"absent", "pending", "processing", "retry", "sent", "failed"}
Settled == {"sent", "failed"}
Working == {"deliver", "mark_sent", "mark_retry", "mark_failed"}
PCs == {"idle", "list", "claim"} \cup Working

Init ==
  /\ status = [m \in Mails |-> "absent"]
  /\ attempts = [m \in Mails |-> 0]
  /\ due = [m \in Mails |-> FALSE]
  /\ stale = [m \in Mails |-> FALSE]
  /\ pc = [d \in Dispatchers |-> "idle"]
  /\ batch = [d \in Dispatchers |-> {}]
  /\ snapshot = [d \in Dispatchers |-> [m \in Mails |-> 0]]
  /\ round = [d \in Dispatchers |-> 0]
  /\ claimed = [d \in Dispatchers |-> FALSE]
  /\ try = [d \in Dispatchers |-> 0]
  /\ faults = 0 /\ overruns = 0
  /\ delivered = [m \in Mails |-> 0]
  /\ failures = [m \in Mails |-> 0]
  /\ audits = [m \in Mails |-> 0]

Fault == faults < MaxFaults /\ faults' = faults + 1

(* The row a dispatcher is at: rows are listed in the order of created_at. *)
Current(d) == CHOOSE m \in batch[d] : \A n \in batch[d] : m <= n

(* Mutants: a row in processing is claimable at once, or never again.      *)
ClaimableInProcess(m) ==
  \/ status[m] \in {"pending", "retry"} /\ due[m]
  \/ status[m] = "processing"

NeverReclaimable(m) == status[m] \in {"pending", "retry"} /\ due[m]

Claimable(m) ==
  \/ status[m] \in {"pending", "retry"} /\ due[m]
  \/ status[m] = "processing" /\ stale[m]

(* The rows list_claimable returns: at most BatchSize, the oldest first.   *)
Listed ==
  {m \in Mails : Claimable(m)
                 /\ Cardinality({n \in Mails : Claimable(n) /\ n < m}) < BatchSize}

-----------------------------------------------------------------------------
(* The statements.                                                         *)

ClaimRow(m) ==
  /\ status' = [status EXCEPT ![m] = "processing"]
  /\ stale' = [stale EXCEPT ![m] = FALSE]
  /\ UNCHANGED <<attempts, due>>

(* Mutant: the marks filter on the id alone.                               *)
MarkableAlways(m) == status[m] # "absent"

(* mark_sent, mark_retry and mark_failed all filter on the status alone.   *)
Markable(m) == status[m] = "processing"

SentRow(m) ==
  /\ status' = [status EXCEPT ![m] = "sent"]
  /\ UNCHANGED <<attempts, due, stale>>

RetryRow(d, m) ==
  /\ status' = [status EXCEPT ![m] = "retry"]
  /\ attempts' = [attempts EXCEPT ![m] = snapshot[d][m] + 1]
  /\ due' = [due EXCEPT ![m] = FALSE]
  /\ UNCHANGED stale

FailedRow(d, m) ==
  /\ status' = [status EXCEPT ![m] = "failed"]
  /\ attempts' = [attempts EXCEPT ![m] = snapshot[d][m] + 1]
  /\ UNCHANGED <<due, stale>>

-----------------------------------------------------------------------------
(* The dispatcher.                                                         *)

(* The drain returns: it is complete, or a statement failed.               *)
Return(d) ==
  /\ pc' = [pc EXCEPT ![d] = "idle"]
  /\ batch' = [batch EXCEPT ![d] = {}]
  /\ snapshot' = [snapshot EXCEPT ![d] = [m \in Mails |-> 0]]
  /\ round' = [round EXCEPT ![d] = 0]
  /\ claimed' = [claimed EXCEPT ![d] = FALSE]
  /\ try' = [try EXCEPT ![d] = 0]

(* The pass is done with all it listed: another round if it claimed any.   *)
EndPass(d) ==
  \/ /\ claimed[d] /\ round[d] < DrainRounds
     /\ pc' = [pc EXCEPT ![d] = "list"]
     /\ batch' = [batch EXCEPT ![d] = {}]
     /\ round' = [round EXCEPT ![d] = @ + 1]
     /\ claimed' = [claimed EXCEPT ![d] = FALSE]
     /\ try' = [try EXCEPT ![d] = 0]
     /\ UNCHANGED snapshot
  \/ /\ ~(claimed[d] /\ round[d] < DrainRounds)
     /\ Return(d)

(* Row m is finished: the next one of the batch, or the end of the pass.   *)
Advance(d, m) ==
  \/ /\ batch[d] # {m}
     /\ pc' = [pc EXCEPT ![d] = "claim"]
     /\ batch' = [batch EXCEPT ![d] = @ \ {m}]
     /\ try' = [try EXCEPT ![d] = 0]
     /\ UNCHANGED <<snapshot, round, claimed>>
  \/ batch[d] = {m} /\ EndPass(d)

BeginDrain(d) ==
  /\ pc[d] = "idle" /\ DrainRounds > 0
  /\ pc' = [pc EXCEPT ![d] = "list"]
  /\ round' = [round EXCEPT ![d] = 1]
  /\ UNCHANGED <<rows, batch, snapshot, claimed, try, faults, history>>

List(d) ==
  /\ pc[d] = "list"
  /\ \/ /\ Listed # {}
        /\ batch' = [batch EXCEPT ![d] = Listed]
        /\ snapshot' = [snapshot EXCEPT ![d] =
                          [m \in Mails |-> IF m \in Listed THEN attempts[m] ELSE 0]]
        /\ pc' = [pc EXCEPT ![d] = "claim"]
        /\ UNCHANGED <<round, claimed, try>>
     \/ Listed = {} /\ Return(d)
  /\ UNCHANGED <<rows, faults, history>>

Claim(d) ==
  /\ pc[d] = "claim"
  /\ LET m == Current(d) IN
       \/ /\ Claimable(m)
          /\ ClaimRow(m)
          /\ pc' = [pc EXCEPT ![d] = "deliver"]
          /\ claimed' = [claimed EXCEPT ![d] = TRUE]
          /\ UNCHANGED <<batch, snapshot, round, try>>
       \/ /\ ~Claimable(m)
          /\ Advance(d, m)
          /\ UNCHANGED rows
  /\ UNCHANGED <<faults, history>>

(* Mutant: one attempt too few.                                            *)
FailureTooEarly(d, m) ==
  /\ failures' = [failures EXCEPT ![m] = @ + 1]
  /\ pc' = [pc EXCEPT ![d] = IF snapshot[d][m] + 2 >= MaxAttempts
                             THEN "mark_failed" ELSE "mark_retry"]
  /\ UNCHANGED try

(* The delivery failed: the attempt count in the listing, plus one, says   *)
(* whether the row gets another attempt.                                   *)
AfterFailure(d, m) ==
  /\ failures' = [failures EXCEPT ![m] = @ + 1]
  /\ pc' = [pc EXCEPT ![d] = IF snapshot[d][m] + 1 >= MaxAttempts
                             THEN "mark_failed" ELSE "mark_retry"]
  /\ UNCHANGED try

Deliver(d) ==
  /\ pc[d] = "deliver"
  /\ LET m == Current(d) IN
       \/ /\ delivered' = [delivered EXCEPT ![m] = @ + 1]
          /\ pc' = [pc EXCEPT ![d] = "mark_sent"]
          /\ try' = [try EXCEPT ![d] = 1]
          /\ UNCHANGED <<failures, faults>>
       \/ /\ AfterFailure(d, m)
          /\ UNCHANGED <<delivered, faults>>
       \/ /\ Fault                       \* accepted, but reported as failed
          /\ delivered' = [delivered EXCEPT ![m] = @ + 1]
          /\ AfterFailure(d, m)
  /\ UNCHANGED <<rows, batch, snapshot, round, claimed, overruns, audits>>

(* A mark that changed the row is audited; one that did not is logged.     *)
Audit(m) == audits' = [audits EXCEPT ![m] = @ + 1]

(* Mutant: on_sent is called although the mark changed no row.             *)
MarkSentReports(d) ==
  /\ pc[d] = "mark_sent"
  /\ LET m == Current(d) IN
       /\ \/ Markable(m) /\ SentRow(m)
          \/ ~Markable(m) /\ UNCHANGED rows
       /\ Audit(m)
       /\ Advance(d, m)
  /\ UNCHANGED <<faults, overruns, delivered, failures>>

MarkSent(d) ==
  /\ pc[d] = "mark_sent"
  /\ LET m == Current(d) IN
       /\ \/ Markable(m) /\ SentRow(m) /\ Audit(m)
          \/ ~Markable(m) /\ UNCHANGED <<rows, audits>>
       /\ Advance(d, m)
  /\ UNCHANGED <<faults, overruns, delivered, failures>>

(* mark_sent is tried again, until its delays are used up; after that the  *)
(* row is left in processing and the pass goes on.                         *)
MarkSentFails(d) ==
  /\ pc[d] = "mark_sent" /\ Fault
  /\ LET m == Current(d) IN
       /\ \/ Markable(m) /\ SentRow(m)
          \/ UNCHANGED rows
       /\ \/ /\ try[d] < SentTries
             /\ try' = [try EXCEPT ![d] = @ + 1]
             /\ UNCHANGED <<pc, batch, snapshot, round, claimed>>
          \/ try[d] >= SentTries /\ Advance(d, m)
  /\ UNCHANGED history

MarkRetry(d) ==
  /\ pc[d] = "mark_retry"
  /\ LET m == Current(d) IN
       /\ \/ Markable(m) /\ RetryRow(d, m)
          \/ ~Markable(m) /\ UNCHANGED rows
       /\ Advance(d, m)
  /\ UNCHANGED <<faults, history>>

MarkFailed(d) ==
  /\ pc[d] = "mark_failed"
  /\ LET m == Current(d) IN
       /\ \/ Markable(m) /\ FailedRow(d, m) /\ Audit(m)
          \/ ~Markable(m) /\ UNCHANGED <<rows, audits>>
       /\ Advance(d, m)
  /\ UNCHANGED <<faults, overruns, delivered, failures>>

(* The statement d waits for takes effect without an answer.               *)
LoseAnswer(d) ==
  LET m == Current(d) IN
    \/ pc[d] = "claim" /\ Claimable(m) /\ ClaimRow(m)
    \/ pc[d] = "mark_sent" /\ Markable(m) /\ SentRow(m)
    \/ pc[d] = "mark_retry" /\ Markable(m) /\ RetryRow(d, m)
    \/ pc[d] = "mark_failed" /\ Markable(m) /\ FailedRow(d, m)

(* Any other statement that fails ends the pass and the drain, and so does *)
(* the death of the process; a delivery may have gone out.                 *)
Stops(d) ==
  /\ pc[d] # "idle" /\ Fault
  /\ \/ LoseAnswer(d) /\ UNCHANGED delivered
     \/ UNCHANGED rows /\ UNCHANGED delivered
     \/ /\ pc[d] = "deliver" /\ UNCHANGED rows
        /\ delivered' = [delivered EXCEPT ![Current(d)] = @ + 1]
  /\ Return(d)
  /\ UNCHANGED <<overruns, failures, audits>>

-----------------------------------------------------------------------------
(* The environment.                                                        *)

Enqueue(m) ==
  /\ status[m] = "absent"
  /\ status' = [status EXCEPT ![m] = "pending"]
  /\ UNCHANGED <<attempts, due, stale, pc, control, faults, history>>

BecomesDue(m) ==
  /\ status[m] \in {"pending", "retry"} /\ ~due[m]
  /\ due' = [due EXCEPT ![m] = TRUE]
  /\ UNCHANGED <<status, attempts, stale, pc, control, faults, history>>

(* Someone still works on the row.                                         *)
Held(m) == \E d \in Dispatchers : pc[d] \in Working /\ Current(d) = m

BecomesStale(m) ==
  /\ status[m] = "processing" /\ ~stale[m]
  /\ stale' = [stale EXCEPT ![m] = TRUE]
  /\ \/ Held(m) /\ overruns < MaxOverruns /\ overruns' = overruns + 1
     \/ ~Held(m) /\ UNCHANGED overruns
  /\ UNCHANGED <<status, attempts, due, pc, control, faults, delivered, failures,
                 audits>>

DispatcherStep(d) ==
  \/ BeginDrain(d) \/ List(d) \/ Claim(d) \/ Deliver(d) \/ MarkSent(d)
  \/ MarkRetry(d) \/ MarkFailed(d)

Next ==
  \/ \E d \in Dispatchers : DispatcherStep(d) \/ MarkSentFails(d) \/ Stops(d)
  \/ \E m \in Mails : Enqueue(m) \/ BecomesDue(m) \/ BecomesStale(m)

Spec == Init /\ [][Next]_vars

(* The outbox worker calls drain again and again, and time passes.         *)
FairSpec ==
  /\ Spec
  /\ \A d \in Dispatchers : WF_vars(DispatcherStep(d))
  /\ \A m \in Mails : WF_vars(BecomesDue(m)) /\ WF_vars(BecomesStale(m))

-----------------------------------------------------------------------------
(* Properties.                                                             *)

(* The values each variable of the table and of a dispatcher can take.     *)
TypeOK ==
  /\ status \in [Mails -> Statuses]
  /\ attempts \in [Mails -> 0..MaxAttempts]
  /\ due \in [Mails -> BOOLEAN]
  /\ stale \in [Mails -> BOOLEAN]
  /\ pc \in [Dispatchers -> PCs]
  /\ batch \in [Dispatchers -> SUBSET Mails]
  /\ snapshot \in [Dispatchers -> [Mails -> 0..MaxAttempts]]
  /\ round \in [Dispatchers -> 0..DrainRounds]
  /\ claimed \in [Dispatchers -> BOOLEAN]
  /\ try \in [Dispatchers -> 0..SentTries]
  /\ faults \in 0..MaxFaults
  /\ overruns \in 0..MaxOverruns
  /\ delivered \in [Mails -> Nat]
  /\ failures \in [Mails -> Nat]
  /\ audits \in [Mails -> Nat]

(* A mail that is sent or failed stays so: a dispatcher that lost its      *)
(* claim, or lists a row that was settled since, cannot bring it back.     *)
SettledStays ==
  [][\A m \in Mails : status[m] \in Settled => status'[m] = status[m]]_vars

(* A mail is only called sent once a copy went out, whichever dispatcher   *)
(* wrote the mark.                                                         *)
SentWasDelivered == \A m \in Mails : status[m] = "sent" => delivered[m] > 0

(* A mail is only given up after as many failed deliveries as the policy   *)
(* grants, although the count is written from a listing that may be old.   *)
FailedWasTried ==
  \A m \in Mails : status[m] = "failed" => failures[m] >= MaxAttempts

(* The table tells the truth about mails: sent ones went out, and failed   *)
(* ones were tried as often as the policy grants.                          *)
MarksAreTrue == SentWasDelivered /\ FailedWasTried

(* The product's on_sent and on_failed hooks hear of one outcome of a mail *)
(* at most: two dispatchers that both finish it do not both report it.     *)
AuditedOnce == \A m \in Mails : audits[m] <= 1

(* A second copy goes out only if something failed or a claim was held for *)
(* longer than processing_stale_secs: concurrent drains alone do not       *)
(* duplicate a mail.                                                       *)
OneCopy ==
  \A m \in Mails : faults = 0 /\ overruns = 0 => delivered[m] <= 1

(* Every mail is settled in the end, whatever dispatcher crashes with its  *)
(* claim and however listings and claims interleave.                       *)
MailSettles ==
  <>[](\A m \in Mails : status[m] \in Settled \cup {"absent"})

(* No mail is delivered more often than max_attempts allows.               *)
AttemptBudget == \A m \in Mails : failures[m] <= MaxAttempts
=============================================================================
