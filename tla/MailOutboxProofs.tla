-------------------------- MODULE MailOutboxProofs --------------------------
(***************************************************************************)
(* What holds of the outbox for every number of dispatchers and mails, and *)
(* for every number of faults and overruns: outcomes are final, they are   *)
(* true, they are reported at most once, and a mail goes out twice only    *)
(* after a fault.                                                          *)
(***************************************************************************)
EXTENDS MailOutbox, WellFoundedInduction, TLAPS

(* A dispatcher with rows to do is at one of them.                         *)
LEMMA CurrentIsListed ==
  ASSUME NEW d \in Dispatchers, batch[d] \subseteq Mails, batch[d] # {}
  PROVE  Current(d) \in batch[d] /\ Current(d) \in Mails
<1>1. batch[d] \subseteq Nat
  BY BoundsAssumption DEF Mails
<1> DEFINE R == {p \in Nat \X Nat : p[1] < p[2]}
<1>2. IsWellFoundedOn(R, Nat)
  BY NatLessThanWellFounded, Zenon DEF OpToRel
<1>3. PICK m \in batch[d] : \A n \in batch[d] : ~(<<n, m>> \in R)
  BY <1>1, <1>2, WFMin
<1>4. \A n \in batch[d] : m <= n
  <2> TAKE n \in batch[d]
  <2>1. n \in Nat /\ m \in Nat
    BY <1>1
  <2>2. <<n, m>> \in R <=> n < m
    BY <2>1
  <2> HIDE DEF R
  <2>3. ~(n < m)
    BY <1>3, <2>2
  <2> QED
    BY <2>1, <2>3
<1> QED
  BY <1>4 DEF Current

(* What makes a dispatcher's next mark right: there is a row it works on,  *)
(* the count it listed is that of failed deliveries and below the limit,   *)
(* and the delivery it is about to report happened.                        *)
DispatcherInv(d) ==
  /\ pc[d] \in {"claim"} \cup Working => batch[d] # {}
  /\ \A m \in Mails : snapshot[d][m] < MaxAttempts /\ snapshot[d][m] <= failures[m]
  /\ pc[d] = "mark_sent" => delivered[Current(d)] > 0
  /\ pc[d] \in {"mark_retry", "mark_failed"} =>
       failures[Current(d)] > snapshot[d][Current(d)]
  /\ pc[d] = "mark_retry" => snapshot[d][Current(d)] + 1 < MaxAttempts
  /\ pc[d] = "mark_failed" => snapshot[d][Current(d)] + 1 = MaxAttempts

(* What the row of a mail says of its history.                             *)
MailInv(m) ==
  /\ attempts[m] <= failures[m]
  /\ status[m] # "failed" => attempts[m] < MaxAttempts
  /\ status[m] = "sent" => delivered[m] > 0
  /\ status[m] = "failed" => failures[m] >= MaxAttempts
  /\ audits[m] <= 1
  /\ status[m] \notin Settled => audits[m] = 0

OutboxInv ==
  /\ TypeOK
  /\ \A d \in Dispatchers : DispatcherInv(d)
  /\ \A m \in Mails : MailInv(m)

(* A step of dispatcher d changes at most the row it is at, by one of the  *)
(* statements, and reports it only when it settles the row.                *)
RowStep(d) ==
  LET c == Current(d) IN
    \/ UNCHANGED <<status, attempts, audits>>
    \/ /\ pc[d] = "claim" /\ status[c] \in {"pending", "retry", "processing"}
       /\ status' = [status EXCEPT ![c] = "processing"]
       /\ UNCHANGED <<attempts, audits>>
    \/ /\ pc[d] = "mark_sent" /\ status[c] = "processing"
       /\ status' = [status EXCEPT ![c] = "sent"]
       /\ UNCHANGED attempts
       /\ audits' = audits \/ audits' = [audits EXCEPT ![c] = @ + 1]
    \/ /\ pc[d] = "mark_retry" /\ status[c] = "processing"
       /\ status' = [status EXCEPT ![c] = "retry"]
       /\ attempts' = [attempts EXCEPT ![c] = snapshot[d][c] + 1]
       /\ UNCHANGED audits
    \/ /\ pc[d] = "mark_failed" /\ status[c] = "processing"
       /\ status' = [status EXCEPT ![c] = "failed"]
       /\ attempts' = [attempts EXCEPT ![c] = snapshot[d][c] + 1]
       /\ audits' = audits \/ audits' = [audits EXCEPT ![c] = @ + 1]

AnyStep(d) == DispatcherStep(d) \/ MarkSentFails(d) \/ Stops(d)

(* Every step of a dispatcher treats the rows in one of these ways.        *)
LEMMA StepOnRows ==
  ASSUME NEW d \in Dispatchers, AnyStep(d)
  PROVE  RowStep(d)
<1> USE DEF rows, history, RowStep
<1>1. CASE BeginDrain(d)
  BY <1>1, Zenon DEF BeginDrain
<1>2. CASE List(d)
  BY <1>2, Zenon DEF List
<1>3. CASE Claim(d)
  BY <1>3, Zenon DEF Claim, Claimable, ClaimRow
<1>4. CASE Deliver(d)
  BY <1>4, Zenon DEF Deliver
<1>5. CASE MarkSent(d)
  BY <1>5, Zenon DEF MarkSent, Markable, SentRow, Audit
<1>6. CASE MarkRetry(d)
  BY <1>6, Zenon DEF MarkRetry, Markable, RetryRow
<1>7. CASE MarkFailed(d)
  BY <1>7, Zenon DEF MarkFailed, Markable, FailedRow, Audit
<1>8. CASE MarkSentFails(d)
  BY <1>8, Zenon DEF MarkSentFails, Markable, SentRow
<1>9. CASE Stops(d)
  BY <1>9, Zenon DEF Stops, LoseAnswer, Claimable, Markable, ClaimRow, SentRow, RetryRow,
     FailedRow
<1> QED
  BY <1>1, <1>2, <1>3, <1>4, <1>5, <1>6, <1>7, <1>8, <1>9 DEF AnyStep, DispatcherStep

(* The dispatcher at work is at a mail.                                    *)
LEMMA CurrentIsMail ==
  ASSUME OutboxInv, NEW d \in Dispatchers, pc[d] \in {"claim"} \cup Working
  PROVE  Current(d) \in batch[d] /\ Current(d) \in Mails
<1>1. batch[d] # {} /\ batch[d] \subseteq Mails
  BY DEF OutboxInv, TypeOK, DispatcherInv
<1> QED
  BY <1>1, CurrentIsListed

(* The copies and the failures of a mail are only counted up, at the row   *)
(* the dispatcher is at.                                                   *)
Grows(d) ==
  LET c == Current(d) IN
    \/ UNCHANGED <<delivered, failures>>
    \/ /\ pc[d] = "deliver"
       /\ delivered' \in {delivered, [delivered EXCEPT ![c] = @ + 1]}
       /\ failures' \in {failures, [failures EXCEPT ![c] = @ + 1]}

(* Every step of a dispatcher does one of these.                           *)
LEMMA StepGrows ==
  ASSUME NEW d \in Dispatchers, AnyStep(d)
  PROVE  Grows(d)
<1> USE DEF history, Grows
<1>1. CASE BeginDrain(d)
  BY <1>1, Zenon DEF BeginDrain
<1>2. CASE List(d)
  BY <1>2, Zenon DEF List
<1>3. CASE Claim(d)
  BY <1>3, Zenon DEF Claim
<1>4. CASE Deliver(d)
  BY <1>4, Zenon DEF Deliver, AfterFailure
<1>5. CASE MarkSent(d)
  BY <1>5, Zenon DEF MarkSent
<1>6. CASE MarkRetry(d)
  BY <1>6, Zenon DEF MarkRetry
<1>7. CASE MarkFailed(d)
  BY <1>7, Zenon DEF MarkFailed
<1>8. CASE MarkSentFails(d)
  BY <1>8, Zenon DEF MarkSentFails
<1>9. CASE Stops(d)
  BY <1>9, Zenon DEF Stops
<1> QED
  BY <1>1, <1>2, <1>3, <1>4, <1>5, <1>6, <1>7, <1>8, <1>9 DEF AnyStep, DispatcherStep

(* No delivery and no failure is taken back.                               *)
LEMMA HistoryGrows ==
  ASSUME OutboxInv, NEW d \in Dispatchers, AnyStep(d)
  PROVE  /\ delivered' \in [Mails -> Nat] /\ failures' \in [Mails -> Nat]
         /\ \A m \in Mails : delivered'[m] >= delivered[m] /\ failures'[m] >= failures[m]
<1>1. delivered \in [Mails -> Nat] /\ failures \in [Mails -> Nat]
  BY DEF OutboxInv, TypeOK
<1>2. CASE UNCHANGED <<delivered, failures>>
  BY <1>1, <1>2
<1>3. CASE /\ pc[d] = "deliver"
           /\ delivered' \in {delivered, [delivered EXCEPT ![Current(d)] = @ + 1]}
           /\ failures' \in {failures, [failures EXCEPT ![Current(d)] = @ + 1]}
  <2>1. Current(d) \in Mails
    BY <1>3, CurrentIsMail DEF Working
  <2> QED
    BY <1>1, <1>3, <2>1
<1> QED
  BY <1>2, <1>3, StepGrows DEF Grows

(* The types of what a dispatcher keeps, and of the rest of the table.     *)
DispatcherOK ==
  /\ pc \in [Dispatchers -> PCs]
  /\ batch \in [Dispatchers -> SUBSET Mails]
  /\ snapshot \in [Dispatchers -> [Mails -> 0..MaxAttempts]]
  /\ round \in [Dispatchers -> 0..DrainRounds]
  /\ claimed \in [Dispatchers -> BOOLEAN]
  /\ try \in [Dispatchers -> 0..SentTries]

TimesOK ==
  /\ due \in [Mails -> BOOLEAN]
  /\ stale \in [Mails -> BOOLEAN]
  /\ faults \in 0..MaxFaults
  /\ overruns \in 0..MaxOverruns

(* A pass that ends leaves a dispatcher within its states.                 *)
LEMMA ReturnTypes ==
  ASSUME DispatcherOK, NEW d \in Dispatchers, Return(d)
  PROVE  DispatcherOK'
<1>1. [m \in Mails |-> 0] \in [Mails -> 0..MaxAttempts]
  BY BoundsAssumption
<1> DEFINE zero == [m \in Mails |-> 0]
<1>2. snapshot' = [snapshot EXCEPT ![d] = zero]
  BY DEF Return
<1> HIDE DEF zero
<1>3. zero \in [Mails -> 0..MaxAttempts]
  BY <1>1 DEF zero
<1>4. snapshot' \in [Dispatchers -> [Mails -> 0..MaxAttempts]]
  BY <1>2, <1>3 DEF DispatcherOK
<1>5. pc' \in [Dispatchers -> PCs]
  BY DEF DispatcherOK, Return, PCs
<1>6. batch' \in [Dispatchers -> SUBSET Mails]
  BY DEF DispatcherOK, Return
<1>7. round' \in [Dispatchers -> 0..DrainRounds] /\ try' \in [Dispatchers -> 0..SentTries]
  BY BoundsAssumption DEF DispatcherOK, Return
<1>8. claimed' \in [Dispatchers -> BOOLEAN]
  BY DEF DispatcherOK, Return
<1> QED
  BY <1>4, <1>5, <1>6, <1>7, <1>8 DEF DispatcherOK

(* So does the next mail of a batch.                                       *)
LEMMA AdvanceTypes ==
  ASSUME DispatcherOK, NEW d \in Dispatchers, NEW m \in Mails, Advance(d, m)
  PROVE  DispatcherOK'
<1>1. CASE Return(d)
  BY <1>1, ReturnTypes
<1>2. CASE /\ pc' = [pc EXCEPT ![d] = "claim"]
           /\ batch' = [batch EXCEPT ![d] = @ \ {m}]
           /\ try' = [try EXCEPT ![d] = 0]
           /\ UNCHANGED <<snapshot, round, claimed>>
  BY <1>2, BoundsAssumption DEF DispatcherOK, PCs
<1>3. CASE /\ round[d] < DrainRounds
           /\ pc' = [pc EXCEPT ![d] = "list"]
           /\ batch' = [batch EXCEPT ![d] = {}]
           /\ round' = [round EXCEPT ![d] = @ + 1]
           /\ claimed' = [claimed EXCEPT ![d] = FALSE]
           /\ try' = [try EXCEPT ![d] = 0]
           /\ UNCHANGED snapshot
  <2>1. round' \in [Dispatchers -> 0..DrainRounds]
    BY <1>3, BoundsAssumption DEF DispatcherOK
  <2>2. claimed' \in [Dispatchers -> BOOLEAN]
    BY <1>3 DEF DispatcherOK
  <2>3. pc' \in [Dispatchers -> PCs] /\ batch' \in [Dispatchers -> SUBSET Mails]
    BY <1>3 DEF DispatcherOK, PCs
  <2> QED
    BY <1>3, <2>1, <2>2, <2>3, BoundsAssumption DEF DispatcherOK
<1> QED
  BY <1>1, <1>2, <1>3, Zenon DEF Advance, EndPass

(* So does every step.                                                     *)
LEMMA DispatcherTypes ==
  ASSUME OutboxInv, NEW d \in Dispatchers, AnyStep(d)
  PROVE  DispatcherOK'
<1>0. DispatcherOK /\ attempts \in [Mails -> 0..MaxAttempts]
  BY DEF OutboxInv, TypeOK, DispatcherOK
<1>c. pc[d] \in {"claim"} \cup Working => Current(d) \in Mails
  BY CurrentIsMail
<1>r. CASE Return(d)
  BY <1>0, <1>r, ReturnTypes
<1>a. CASE pc[d] \in {"claim"} \cup Working /\ Advance(d, Current(d))
  BY <1>0, <1>a, <1>c, AdvanceTypes
<1>1. CASE BeginDrain(d)
  BY <1>0, <1>1, BoundsAssumption DEF BeginDrain, DispatcherOK, PCs, history
<1>2. CASE List(d) /\ ~Return(d)
  <2> DEFINE counts == [m \in Mails |-> IF m \in Listed THEN attempts[m] ELSE 0]
  <2>1. /\ batch' = [batch EXCEPT ![d] = Listed]
        /\ snapshot' = [snapshot EXCEPT ![d] = counts]
        /\ pc' = [pc EXCEPT ![d] = "claim"]
        /\ UNCHANGED <<round, claimed, try>>
    BY <1>2 DEF List
  <2>2. counts \in [Mails -> 0..MaxAttempts]
    BY <1>0, BoundsAssumption
  <2>3. Listed \subseteq Mails
    BY DEF Listed
  <2> HIDE DEF counts
  <2>4. snapshot' \in [Dispatchers -> [Mails -> 0..MaxAttempts]]
    BY <1>0, <2>1, <2>2 DEF DispatcherOK
  <2> QED
    BY <1>0, <2>1, <2>3, <2>4 DEF DispatcherOK, PCs
<1>3. CASE Claim(d) /\ ~Advance(d, Current(d))
  BY <1>0, <1>3 DEF Claim, DispatcherOK, PCs, Working
<1>4. CASE Deliver(d)
  <2>1. UNCHANGED <<batch, snapshot, round, claimed>>
    BY <1>4 DEF Deliver
  <2>2. \/ pc' = [pc EXCEPT ![d] = "mark_sent"] /\ try' = [try EXCEPT ![d] = 1]
        \/ /\ pc' = [pc EXCEPT ![d] = IF snapshot[d][Current(d)] + 1 >= MaxAttempts
                                      THEN "mark_failed" ELSE "mark_retry"]
           /\ UNCHANGED try
    BY <1>4, Zenon DEF Deliver, AfterFailure
  <2>3. \E p \in PCs, t \in {1, try[d]} :
           pc' = [pc EXCEPT ![d] = p] /\ try' = [try EXCEPT ![d] = t]
    BY <1>0, <2>2, Zenon DEF DispatcherOK, PCs, Working
  <2>4. try[d] \in 0..SentTries /\ 1 \in 0..SentTries
    BY <1>0, BoundsAssumption DEF DispatcherOK
  <2> QED
    BY <1>0, <2>1, <2>3, <2>4 DEF DispatcherOK
<1>8. CASE MarkSentFails(d) /\ ~Advance(d, Current(d))
  <2>1. try[d] < SentTries /\ try' = [try EXCEPT ![d] = @ + 1]
    BY <1>8 DEF MarkSentFails
  <2>2. UNCHANGED <<pc, batch, snapshot, round, claimed>>
    BY <1>8 DEF MarkSentFails
  <2> QED
    BY <1>0, <2>1, <2>2, BoundsAssumption DEF DispatcherOK
<1>q. CASE Claim(d) \/ MarkSent(d) \/ MarkRetry(d) \/ MarkFailed(d) \/ MarkSentFails(d)
  <2>1. pc[d] \in {"claim"} \cup Working
    BY <1>q DEF Claim, MarkSent, MarkRetry, MarkFailed, MarkSentFails, Working
  <2>2. Advance(d, Current(d)) \/ Claim(d) \/ MarkSentFails(d)
    BY <1>q, Zenon DEF MarkSent, MarkRetry, MarkFailed
  <2> QED
    BY <2>1, <2>2, <1>a, <1>3, <1>8
<1>9. Stops(d) => Return(d)
  BY DEF Stops
<1> QED
  BY <1>r, <1>1, <1>2, <1>4, <1>q, <1>9 DEF AnyStep, DispatcherStep

(* The rows' times and the counted faults stay within theirs.              *)
LEMMA TimesTypes ==
  ASSUME OutboxInv, NEW d \in Dispatchers, AnyStep(d)
  PROVE  TimesOK'
<1>0. TimesOK
  BY DEF OutboxInv, TypeOK, TimesOK
<1>1. due' = due \/ \E m \in Mails : due' = [due EXCEPT ![m] = FALSE]
  <2>1. due' = due \/ (pc[d] = "mark_retry" /\ due' = [due EXCEPT ![Current(d)] = FALSE])
    BY Zenon DEF AnyStep, DispatcherStep, BeginDrain, List, Claim, Deliver, MarkSent, MarkRetry,
       MarkFailed, MarkSentFails, Stops, LoseAnswer, ClaimRow, SentRow, RetryRow, FailedRow, rows
  <2> QED
    BY <2>1, CurrentIsMail DEF Working
<1>2. stale' = stale \/ \E m \in Mails : stale' = [stale EXCEPT ![m] = FALSE]
  <2>1. stale' = stale \/ (pc[d] = "claim" /\ stale' = [stale EXCEPT ![Current(d)] = FALSE])
    BY Zenon DEF AnyStep, DispatcherStep, BeginDrain, List, Claim, Deliver, MarkSent, MarkRetry,
       MarkFailed, MarkSentFails, Stops, LoseAnswer, ClaimRow, SentRow, RetryRow, FailedRow, rows
  <2> QED
    BY <2>1, CurrentIsMail
<1>3. UNCHANGED faults \/ Fault
  BY Zenon DEF AnyStep, DispatcherStep, BeginDrain, List, Claim, Deliver, MarkSent, MarkRetry,
     MarkFailed, MarkSentFails, Stops
<1>4. UNCHANGED overruns
  BY Zenon DEF AnyStep, DispatcherStep, BeginDrain, List, Claim, Deliver, MarkSent, MarkRetry,
     MarkFailed, MarkSentFails, Stops, history
<1>5. due' \in [Mails -> BOOLEAN]
  BY <1>0, <1>1 DEF TimesOK
<1>6. stale' \in [Mails -> BOOLEAN]
  BY <1>0, <1>2 DEF TimesOK
<1>7. faults' \in 0..MaxFaults
  BY <1>0, <1>3, BoundsAssumption DEF TimesOK, Fault
<1> QED
  BY <1>0, <1>4, <1>5, <1>6, <1>7 DEF TimesOK

(* What a dispatcher's step leaves of the other dispatchers.               *)
LEMMA OthersStay ==
  ASSUME OutboxInv, NEW d \in Dispatchers, AnyStep(d), NEW e \in Dispatchers, e # d
  PROVE  /\ pc'[e] = pc[e] /\ batch'[e] = batch[e] /\ snapshot'[e] = snapshot[e]
         /\ Current(e)' = Current(e)
<1>0. /\ pc \in [Dispatchers -> PCs]
      /\ batch \in [Dispatchers -> SUBSET Mails]
      /\ snapshot \in [Dispatchers -> [Mails -> 0..MaxAttempts]]
  BY DEF OutboxInv, TypeOK
<1>1. UNCHANGED pc \/ \E p : pc' = [pc EXCEPT ![d] = p]
  BY Zenon DEF AnyStep, DispatcherStep, BeginDrain, List, Claim, Deliver, AfterFailure,
     MarkSent, MarkRetry, MarkFailed, MarkSentFails, Stops, Advance, EndPass, Return
<1>2. UNCHANGED batch \/ \E b : batch' = [batch EXCEPT ![d] = b]
  BY Zenon DEF AnyStep, DispatcherStep, BeginDrain, List, Claim, Deliver,
     MarkSent, MarkRetry, MarkFailed, MarkSentFails, Stops, Advance, EndPass, Return
<1>3. UNCHANGED snapshot \/ \E s : snapshot' = [snapshot EXCEPT ![d] = s]
  BY Zenon DEF AnyStep, DispatcherStep, BeginDrain, List, Claim, Deliver,
     MarkSent, MarkRetry, MarkFailed, MarkSentFails, Stops, Advance, EndPass, Return
<1>4. pc'[e] = pc[e] /\ batch'[e] = batch[e] /\ snapshot'[e] = snapshot[e]
  BY <1>0, <1>1, <1>2, <1>3
<1> QED
  BY <1>4 DEF Current

(* What a dispatcher relies on survives the steps of the others.           *)
LEMMA OthersKeepInv ==
  ASSUME OutboxInv, NEW d \in Dispatchers, AnyStep(d), NEW e \in Dispatchers, e # d
  PROVE  DispatcherInv(e)'
<1>1. DispatcherInv(e)
  BY DEF OutboxInv
<1>2. /\ pc'[e] = pc[e] /\ batch'[e] = batch[e] /\ snapshot'[e] = snapshot[e]
      /\ Current(e)' = Current(e)
  BY OthersStay
<1>3. \A m \in Mails : /\ delivered'[m] \in Nat /\ failures'[m] \in Nat
                       /\ delivered[m] \in Nat /\ failures[m] \in Nat
                       /\ delivered'[m] >= delivered[m] /\ failures'[m] >= failures[m]
  BY HistoryGrows DEF OutboxInv, TypeOK
<1>4. \A m \in Mails : snapshot[e][m] \in Nat
  BY DEF OutboxInv, TypeOK
<1>5. pc[e] \in {"claim"} \cup Working => Current(e) \in Mails
  BY CurrentIsMail
<1>6. \A m \in Mails : snapshot'[e][m] < MaxAttempts /\ snapshot'[e][m] <= failures'[m]
  BY <1>1, <1>2, <1>3, <1>4, BoundsAssumption DEF DispatcherInv
<1>7. pc'[e] = "mark_sent" => delivered'[Current(e)'] > 0
  BY <1>1, <1>2, <1>3, <1>5 DEF DispatcherInv, Working
<1>8. pc'[e] \in {"mark_retry", "mark_failed"} =>
        failures'[Current(e)'] > snapshot'[e][Current(e)']
  BY <1>1, <1>2, <1>3, <1>4, <1>5 DEF DispatcherInv, Working
<1>9. /\ pc'[e] \in {"claim"} \cup Working => batch'[e] # {}
      /\ pc'[e] = "mark_retry" => snapshot'[e][Current(e)'] + 1 < MaxAttempts
      /\ pc'[e] = "mark_failed" => snapshot'[e][Current(e)'] + 1 = MaxAttempts
  BY <1>1, <1>2 DEF DispatcherInv
<1> QED
  BY <1>6, <1>7, <1>8, <1>9 DEF DispatcherInv, Current

(* A dispatcher that is not at a mark only owes the first two parts.       *)
LEMMA OwnStepKeepsInv ==
  ASSUME OutboxInv, NEW d \in Dispatchers, AnyStep(d)
  PROVE  DispatcherInv(d)'
<1>0. /\ pc \in [Dispatchers -> PCs]
      /\ batch \in [Dispatchers -> SUBSET Mails]
      /\ snapshot \in [Dispatchers -> [Mails -> 0..MaxAttempts]]
      /\ attempts \in [Mails -> 0..MaxAttempts]
      /\ DispatcherInv(d) /\ \A m \in Mails : MailInv(m)
  BY DEF OutboxInv, TypeOK
<1>c. pc[d] \in {"claim"} \cup Working => Current(d) \in Mails /\ Current(d) \in batch[d]
  BY CurrentIsMail
<1>h. \A m \in Mails : /\ delivered'[m] \in Nat /\ failures'[m] \in Nat
                       /\ delivered[m] \in Nat /\ failures[m] \in Nat
                       /\ delivered'[m] >= delivered[m] /\ failures'[m] >= failures[m]
  BY HistoryGrows DEF OutboxInv, TypeOK
<1>s. \A m \in Mails : /\ snapshot[d][m] \in Nat /\ snapshot[d][m] < MaxAttempts
                       /\ snapshot[d][m] <= failures'[m]
  BY <1>0, <1>h, BoundsAssumption DEF DispatcherInv
<1>k. CASE /\ snapshot'[d] = snapshot[d]
           /\ pc'[d] \in {"idle", "list", "claim", "deliver"}
           /\ pc'[d] \in {"claim", "deliver"} => batch'[d] # {}
  BY <1>k, <1>s DEF DispatcherInv, Working
<1>r. CASE Return(d)
  <2>1. pc'[d] = "idle"
    BY <1>0, <1>r DEF Return
  <2>2. snapshot'[d] = [m \in Mails |-> 0]
    BY <1>0, <1>r DEF Return
  <2>3. \A m \in Mails : snapshot'[d][m] < MaxAttempts /\ snapshot'[d][m] <= failures'[m]
    BY <2>2, <1>h, BoundsAssumption
  <2> QED
    BY <2>1, <2>3 DEF DispatcherInv, Working
<1>a. CASE pc[d] \in {"claim"} \cup Working /\ Advance(d, Current(d))
  <2>1. CASE /\ batch[d] # {Current(d)}
             /\ pc' = [pc EXCEPT ![d] = "claim"]
             /\ batch' = [batch EXCEPT ![d] = @ \ {Current(d)}]
             /\ UNCHANGED snapshot
    <3>1. batch'[d] = batch[d] \ {Current(d)} /\ pc'[d] = "claim"
      BY <1>0, <2>1
    <3>2. batch'[d] # {}
      BY <1>a, <1>c, <2>1, <3>1
    <3> QED
      BY <1>k, <2>1, <3>1, <3>2
  <2>2. CASE pc' = [pc EXCEPT ![d] = "list"] /\ UNCHANGED snapshot
    BY <1>0, <1>k, <2>2
  <2> QED
    BY <1>a, <1>r, <2>1, <2>2, Zenon DEF Advance, EndPass
<1>1. CASE BeginDrain(d)
  BY <1>0, <1>k, <1>1 DEF BeginDrain
<1>2. CASE List(d) /\ ~Return(d)
  <2> DEFINE counts == [m \in Mails |-> IF m \in Listed THEN attempts[m] ELSE 0]
  <2>1. /\ Listed # {}
        /\ batch' = [batch EXCEPT ![d] = Listed]
        /\ snapshot' = [snapshot EXCEPT ![d] = counts]
        /\ pc' = [pc EXCEPT ![d] = "claim"]
    BY <1>2 DEF List
  <2>2. \A m \in Listed : status[m] # "failed"
    BY DEF Listed, Claimable
  <2>3. \A m \in Mails : /\ counts[m] < MaxAttempts /\ counts[m] <= failures[m]
                         /\ counts[m] \in Nat
    BY <1>0, <1>h, <2>2, BoundsAssumption DEF MailInv
  <2> HIDE DEF counts
  <2>4. snapshot'[d] = counts /\ pc'[d] = "claim" /\ batch'[d] # {}
    BY <1>0, <2>1
  <2>5. \A m \in Mails : snapshot'[d][m] < MaxAttempts /\ snapshot'[d][m] <= failures'[m]
    BY <1>h, <2>3, <2>4
  <2> QED
    BY <2>4, <2>5 DEF DispatcherInv, Working
<1>3. CASE Claim(d) /\ ~Advance(d, Current(d))
  <2>1. /\ pc' = [pc EXCEPT ![d] = "deliver"] /\ UNCHANGED <<batch, snapshot>>
        /\ pc[d] = "claim"
    BY <1>3 DEF Claim
  <2> QED
    BY <1>0, <1>k, <2>1 DEF DispatcherInv
<1>4. CASE Deliver(d)
  <2> DEFINE c == Current(d)
  <2>1. UNCHANGED <<batch, snapshot>> /\ pc[d] = "deliver" /\ Current(d)' = c
    BY <1>4 DEF Deliver, Current
  <2>2. c \in Mails /\ batch[d] # {}
    BY <1>c, <2>1 DEF Working
  <2>f. /\ delivered \in [Mails -> Nat] /\ failures \in [Mails -> Nat]
    BY DEF OutboxInv, TypeOK
  <2> HIDE DEF c
  <2>3. CASE delivered' = [delivered EXCEPT ![c] = @ + 1] /\ pc' = [pc EXCEPT ![d] = "mark_sent"]
    <3>1. pc'[d] = "mark_sent" /\ delivered'[c] > 0
      BY <1>0, <2>2, <2>3, <2>f
    <3> QED
      BY <1>s, <2>1, <2>2, <3>1 DEF DispatcherInv
  <2>4. CASE AfterFailure(d, c)
    <3>1. failures'[c] = failures[c] + 1
      BY <2>2, <2>4, <2>f DEF AfterFailure
    <3>2. failures'[c] > snapshot[d][c] /\ snapshot[d][c] \in Nat /\ snapshot[d][c] < MaxAttempts
      BY <1>0, <1>h, <1>s, <2>2, <3>1 DEF DispatcherInv
    <3>3. pc'[d] = IF snapshot[d][c] + 1 >= MaxAttempts THEN "mark_failed" ELSE "mark_retry"
      BY <1>0, <2>4 DEF AfterFailure
    <3>4. \/ pc'[d] = "mark_failed" /\ snapshot[d][c] + 1 = MaxAttempts
          \/ pc'[d] = "mark_retry" /\ snapshot[d][c] + 1 < MaxAttempts
      BY <3>2, <3>3, BoundsAssumption
    <3> QED
      BY <1>s, <2>1, <2>2, <3>2, <3>4 DEF DispatcherInv
  <2> QED
    BY <1>4, <2>3, <2>4, Zenon DEF Deliver, c
<1>8. CASE MarkSentFails(d) /\ ~Advance(d, Current(d))
  <2>1. UNCHANGED <<pc, batch, snapshot>> /\ pc[d] = "mark_sent"
    BY <1>8 DEF MarkSentFails
  <2>2. Current(d)' = Current(d)
    BY <2>1 DEF Current
  <2>3. delivered'[Current(d)] > 0
    BY <1>0, <1>c, <1>h, <2>1 DEF DispatcherInv, Working
  <2> QED
    BY <1>0, <1>s, <2>1, <2>2, <2>3 DEF DispatcherInv
<1>q. CASE Claim(d) \/ MarkSent(d) \/ MarkRetry(d) \/ MarkFailed(d) \/ MarkSentFails(d)
  <2>1. pc[d] \in {"claim"} \cup Working
    BY <1>q DEF Claim, MarkSent, MarkRetry, MarkFailed, MarkSentFails, Working
  <2>2. Advance(d, Current(d)) \/ Claim(d) \/ MarkSentFails(d)
    BY <1>q, Zenon DEF MarkSent, MarkRetry, MarkFailed
  <2> QED
    BY <2>1, <2>2, <1>a, <1>3, <1>8
<1>9. Stops(d) => Return(d)
  BY DEF Stops
<1> QED
  BY <1>r, <1>1, <1>2, <1>4, <1>q, <1>9 DEF AnyStep, DispatcherStep

(* The row a step changes keeps its promises, and its type.                *)
LEMMA RowsKeepInv ==
  ASSUME OutboxInv, NEW d \in Dispatchers, AnyStep(d)
  PROVE  /\ status' \in [Mails -> Statuses] /\ attempts' \in [Mails -> 0..MaxAttempts]
         /\ audits' \in [Mails -> Nat]
         /\ \A m \in Mails : MailInv(m)'
<1> DEFINE c == Current(d)
<1>0. /\ status \in [Mails -> Statuses] /\ attempts \in [Mails -> 0..MaxAttempts]
      /\ audits \in [Mails -> Nat] /\ snapshot \in [Dispatchers -> [Mails -> 0..MaxAttempts]]
      /\ DispatcherInv(d) /\ \A m \in Mails : MailInv(m)
  BY DEF OutboxInv, TypeOK
<1>c. pc[d] \in {"claim"} \cup Working => c \in Mails
  BY CurrentIsMail
<1>h. \A m \in Mails : /\ delivered'[m] \in Nat /\ failures'[m] \in Nat
                       /\ delivered[m] \in Nat /\ failures[m] \in Nat
                       /\ delivered'[m] >= delivered[m] /\ failures'[m] >= failures[m]
  BY HistoryGrows DEF OutboxInv, TypeOK
<1>1. CASE UNCHANGED <<status, attempts, audits>>
  BY <1>0, <1>1, <1>h, BoundsAssumption DEF MailInv
<1>2. CASE /\ pc[d] = "claim" /\ status[c] \in {"pending", "retry", "processing"}
           /\ status' = [status EXCEPT ![c] = "processing"]
           /\ UNCHANGED <<attempts, audits>>
  BY <1>0, <1>2, <1>c, <1>h, BoundsAssumption DEF MailInv, Settled, Statuses
<1>3. CASE /\ pc[d] = "mark_sent" /\ status[c] = "processing"
           /\ status' = [status EXCEPT ![c] = "sent"]
           /\ UNCHANGED attempts
           /\ audits' = audits \/ audits' = [audits EXCEPT ![c] = @ + 1]
  <2>1. c \in Mails /\ delivered'[c] > 0 /\ audits[c] = 0
    BY <1>0, <1>3, <1>c, <1>h DEF DispatcherInv, MailInv, Settled, Working
  <2>2. audits' \in [Mails -> Nat] /\ audits'[c] <= 1 /\ \A m \in Mails : m # c => audits'[m] = audits[m]
    BY <1>0, <1>3, <2>1
  <2>3. status' \in [Mails -> Statuses] /\ attempts' \in [Mails -> 0..MaxAttempts]
    BY <1>0, <1>3, <2>1, BoundsAssumption DEF Statuses
  <2>4. ASSUME NEW m \in Mails, m = c
        PROVE  MailInv(m)'
    <3>1. status'[m] = "sent"
      BY <1>0, <1>3, <2>1, <2>4
    <3>2. attempts'[m] <= failures'[m]
      BY <1>0, <1>3, <1>h, <2>1, <2>4 DEF MailInv
    <3>3. status'[m] # "failed" => attempts'[m] < MaxAttempts
      BY <1>0, <1>3, <2>1, <2>4, <3>1 DEF MailInv
    <3>4. status'[m] = "failed" => failures'[m] >= MaxAttempts
      BY <2>1, <2>4, <3>1
    <3>5. delivered'[m] > 0 \/ status'[m] # "sent"
      BY <2>1, <2>4, <3>1
    <3> HIDE DEF c
    <3> QED
      BY <2>2, <2>4, <3>1, <3>2, <3>3, <3>4, <3>5 DEF MailInv, Settled
  <2>5. ASSUME NEW m \in Mails, m # c
        PROVE  MailInv(m)'
    <3>1. status'[m] = status[m] /\ attempts'[m] = attempts[m] /\ audits'[m] = audits[m]
      BY <1>0, <1>3, <2>1, <2>2, <2>5
    <3> HIDE DEF c
    <3> QED
      BY <1>0, <1>h, <3>1, BoundsAssumption DEF MailInv
  <2> QED
    BY <2>2, <2>3, <2>4, <2>5
<1>4. CASE /\ pc[d] = "mark_retry" /\ status[c] = "processing"
           /\ status' = [status EXCEPT ![c] = "retry"]
           /\ attempts' = [attempts EXCEPT ![c] = snapshot[d][c] + 1]
           /\ UNCHANGED audits
  <2>1. /\ c \in Mails /\ snapshot[d][c] \in Nat /\ snapshot[d][c] + 1 < MaxAttempts
        /\ snapshot[d][c] + 1 <= failures'[c] /\ audits[c] = 0
    BY <1>0, <1>4, <1>c, <1>h DEF DispatcherInv, MailInv, Settled, Working
  <2> QED
    BY <1>0, <1>4, <1>h, <2>1, BoundsAssumption DEF MailInv, Settled, Statuses
<1>5. CASE /\ pc[d] = "mark_failed" /\ status[c] = "processing"
           /\ status' = [status EXCEPT ![c] = "failed"]
           /\ attempts' = [attempts EXCEPT ![c] = snapshot[d][c] + 1]
           /\ audits' = audits \/ audits' = [audits EXCEPT ![c] = @ + 1]
  <2>1. /\ c \in Mails /\ snapshot[d][c] \in Nat /\ snapshot[d][c] + 1 = MaxAttempts
        /\ snapshot[d][c] + 1 <= failures'[c] /\ audits[c] = 0
    BY <1>0, <1>5, <1>c, <1>h DEF DispatcherInv, MailInv, Settled, Working
  <2>2. audits' \in [Mails -> Nat] /\ audits'[c] <= 1 /\ \A m \in Mails : m # c => audits'[m] = audits[m]
    BY <1>0, <1>5, <2>1
  <2>3. status' \in [Mails -> Statuses] /\ attempts' \in [Mails -> 0..MaxAttempts]
    BY <1>0, <1>5, <2>1, BoundsAssumption DEF Statuses
  <2>4. ASSUME NEW m \in Mails, m = c
        PROVE  MailInv(m)'
    <3>1. status'[m] = "failed"
      BY <1>0, <1>5, <2>1, <2>4
    <3>2. attempts'[m] <= failures'[m]
      BY <1>0, <1>5, <1>h, <2>1, <2>4 DEF MailInv
    <3>3. status'[m] # "failed" => attempts'[m] < MaxAttempts
      BY <1>0, <1>5, <2>1, <2>4, <3>1 DEF MailInv
    <3>4. status'[m] = "failed" => failures'[m] >= MaxAttempts
      BY <2>1, <2>4, <3>1
    <3>5. delivered'[m] > 0 \/ status'[m] # "sent"
      BY <2>1, <2>4, <3>1
    <3> HIDE DEF c
    <3> QED
      BY <2>2, <2>4, <3>1, <3>2, <3>3, <3>4, <3>5 DEF MailInv, Settled
  <2>5. ASSUME NEW m \in Mails, m # c
        PROVE  MailInv(m)'
    <3>1. status'[m] = status[m] /\ attempts'[m] = attempts[m] /\ audits'[m] = audits[m]
      BY <1>0, <1>5, <2>1, <2>2, <2>5
    <3> HIDE DEF c
    <3> QED
      BY <1>0, <1>h, <3>1, BoundsAssumption DEF MailInv
  <2> QED
    BY <2>2, <2>3, <2>4, <2>5
<1> QED
  BY <1>1, <1>2, <1>3, <1>4, <1>5, StepOnRows, Zenon DEF RowStep

(* A dispatcher's step keeps the invariant.                                *)
LEMMA DispatcherKeepsInv ==
  ASSUME OutboxInv, NEW d \in Dispatchers, AnyStep(d)
  PROVE  OutboxInv'
<1>1. TypeOK'
  BY RowsKeepInv, HistoryGrows, DispatcherTypes, TimesTypes DEF TypeOK, DispatcherOK, TimesOK
<1>2. \A e \in Dispatchers : DispatcherInv(e)'
  BY OwnStepKeepsInv, OthersKeepInv
<1> QED
  BY <1>1, <1>2, RowsKeepInv DEF OutboxInv

(* Rows that are created, and times that pass, change nothing it is about. *)
LEMMA EnvironmentKeepsInv ==
  ASSUME OutboxInv, NEW n \in Mails, Enqueue(n) \/ BecomesDue(n) \/ BecomesStale(n)
  PROVE  OutboxInv'
<1>0. TypeOK /\ (\A d \in Dispatchers : DispatcherInv(d)) /\ \A m \in Mails : MailInv(m)
  BY DEF OutboxInv
<1>1. UNCHANGED <<attempts, pc, batch, snapshot, round, claimed, try, faults, delivered,
                  failures, audits>>
  BY DEF Enqueue, BecomesDue, BecomesStale, control, history
<1>2. \A d \in Dispatchers : DispatcherInv(d)'
  BY <1>0, <1>1 DEF DispatcherInv, Current
<1>3. status' \in [Mails -> Statuses] /\ \A m \in Mails : MailInv(m)'
  <2>1. CASE UNCHANGED status
    BY <1>0, <1>1, <2>1 DEF MailInv, TypeOK
  <2>2. CASE Enqueue(n)
    BY <1>0, <1>1, <2>2 DEF MailInv, TypeOK, Enqueue, Statuses, Settled
  <2> QED
    BY <2>1, <2>2 DEF BecomesDue, BecomesStale
<1>4. due' \in [Mails -> BOOLEAN] /\ stale' \in [Mails -> BOOLEAN]
  <2>1. /\ due' = due \/ due' = [due EXCEPT ![n] = TRUE]
        /\ stale' = stale \/ stale' = [stale EXCEPT ![n] = TRUE]
    BY Zenon DEF Enqueue, BecomesDue, BecomesStale
  <2> QED
    BY <1>0, <2>1 DEF TypeOK
<1>5. overruns' \in 0..MaxOverruns
  <2>1. UNCHANGED overruns \/ (overruns < MaxOverruns /\ overruns' = overruns + 1)
    BY Zenon DEF Enqueue, BecomesDue, BecomesStale, history
  <2> QED
    BY <1>0, <2>1, BoundsAssumption DEF TypeOK
<1>6. TypeOK'
  BY <1>0, <1>1, <1>3, <1>4, <1>5 DEF TypeOK
<1> QED
  BY <1>2, <1>3, <1>6 DEF OutboxInv

(* The invariant holds of a fresh outbox.                                  *)
LEMMA InitOutboxInv == Init => OutboxInv
<1> SUFFICES ASSUME Init PROVE OutboxInv
  OBVIOUS
<1> USE BoundsAssumption
<1>z. [m \in Mails |-> 0] \in [Mails -> 0..MaxAttempts]
  OBVIOUS
<1>1. snapshot \in [Dispatchers -> [Mails -> 0..MaxAttempts]]
  BY <1>z DEF Init
<1>2. TypeOK
  BY <1>1 DEF Init, TypeOK, Statuses, PCs
<1>3. \A d \in Dispatchers : DispatcherInv(d)
  <2> TAKE d \in Dispatchers
  <2>1. pc[d] = "idle" /\ \A m \in Mails : snapshot[d][m] = 0 /\ failures[m] = 0
    BY DEF Init
  <2> QED
    BY <2>1 DEF DispatcherInv, Working
<1>4. \A m \in Mails : MailInv(m)
  BY DEF Init, MailInv, Settled
<1> QED
  BY <1>2, <1>3, <1>4 DEF OutboxInv

(* Nothing changes when nothing happens.                                   *)
LEMMA StutterKeepsInv ==
  ASSUME OutboxInv, UNCHANGED vars
  PROVE  OutboxInv'
<1>1. UNCHANGED <<status, attempts, due, stale, pc, batch, snapshot, round, claimed, try,
                  faults, overruns, delivered, failures, audits>>
  BY DEF vars
<1>2. TypeOK'
  BY <1>1 DEF OutboxInv, TypeOK
<1>3. \A d \in Dispatchers : DispatcherInv(d)'
  BY <1>1 DEF OutboxInv, DispatcherInv, Current
<1>4. \A m \in Mails : MailInv(m)'
  BY <1>1 DEF OutboxInv, MailInv
<1> QED
  BY <1>2, <1>3, <1>4 DEF OutboxInv

(* The inductive invariant holds throughout.                               *)
LEMMA OutboxInvHolds == Spec => []OutboxInv
<1>1. OutboxInv /\ [Next]_vars => OutboxInv'
  BY DispatcherKeepsInv, EnvironmentKeepsInv, StutterKeepsInv DEF Next, AnyStep
<1> QED
  BY <1>1, InitOutboxInv, PTL DEF Spec

(* Attempt counts stay within the policy and every dispatcher's control    *)
(* within its states, for every number of dispatchers, mails and faults.   *)
THEOREM OutboxTypes == Spec => []TypeOK
<1>1. OutboxInv => TypeOK
  BY DEF OutboxInv
<1> QED
  BY <1>1, OutboxInvHolds, PTL

(* mark_sent, by whichever dispatcher and from however old a claim, never  *)
(* calls a mail sent that did not go out.                                  *)
THEOREM SentIsTrue == Spec => []SentWasDelivered
<1>1. OutboxInv => SentWasDelivered
  BY DEF OutboxInv, MailInv, SentWasDelivered
<1> QED
  BY <1>1, OutboxInvHolds, PTL

(* mark_failed never gives a mail up before max_attempts deliveries of it  *)
(* failed, although counts are written from old listings.                  *)
THEOREM FailedIsTrue == Spec => []FailedWasTried
<1>1. OutboxInv => FailedWasTried
  BY DEF OutboxInv, MailInv, FailedWasTried
<1> QED
  BY <1>1, OutboxInvHolds, PTL

(* Marks are true, whatever dispatcher writes them and whenever.           *)
THEOREM MarksTellTheTruth == Spec => []MarksAreTrue
BY SentIsTrue, FailedIsTrue, PTL DEF MarksAreTrue

(* on_sent and on_failed are called at most once for a mail.               *)
THEOREM ReportedOnce == Spec => []AuditedOnce
<1>1. OutboxInv => AuditedOnce
  BY DEF OutboxInv, MailInv, AuditedOnce
<1> QED
  BY <1>1, OutboxInvHolds, PTL

(* No statement of any dispatcher brings a settled mail back.              *)
THEOREM OutcomesAreFinal == Spec => SettledStays
<1>1. ASSUME OutboxInv, [Next]_vars
      PROVE  [\A m \in Mails : status[m] \in Settled => status'[m] = status[m]]_vars
  <2>0. status \in [Mails -> Statuses]
    BY <1>1 DEF OutboxInv, TypeOK
  <2>1. CASE UNCHANGED vars
    BY <2>1
  <2>2. ASSUME NEW d \in Dispatchers, AnyStep(d), NEW m \in Mails, status[m] \in Settled
        PROVE  status'[m] = status[m]
    <3>1. \/ UNCHANGED status
          \/ /\ status[Current(d)] \in {"pending", "retry", "processing"}
             /\ \E s \in Statuses : status' = [status EXCEPT ![Current(d)] = s]
      BY <2>2, StepOnRows, Zenon DEF RowStep, Statuses
    <3> QED
      BY <2>0, <2>2, <3>1 DEF Settled
  <2>3. ASSUME NEW n \in Mails, Enqueue(n) \/ BecomesDue(n) \/ BecomesStale(n),
               NEW m \in Mails, status[m] \in Settled
        PROVE  status'[m] = status[m]
    BY <2>0, <2>3 DEF Enqueue, BecomesDue, BecomesStale, Settled
  <2> QED
    BY <1>1, <2>1, <2>2, <2>3 DEF Next, AnyStep
<1> QED
  BY <1>1, OutboxInvHolds, PTL DEF Spec, SettledStays

-----------------------------------------------------------------------------
(* One copy: as long as nothing failed and no claim was outlived.          *)

Clean == faults = 0 /\ overruns = 0

(* A dispatcher at work holds its row alone, and no copy of the mail went  *)
(* out before its own.                                                     *)
HoldsAlone(d) ==
  pc[d] \in Working =>
    /\ status[Current(d)] = "processing"
    /\ \A e \in Dispatchers : pc[e] \in Working /\ Current(e) = Current(d) => e = d
    /\ pc[d] # "mark_sent" => delivered[Current(d)] = 0

(* A row in processing is held, and only a mail that is not to be claimed  *)
(* any more has gone out.                                                  *)
CopiedOnce(m) ==
  /\ ~stale[m] /\ (status[m] = "processing" => Held(m))
  /\ delivered[m] <= 1 /\ (delivered[m] > 0 => status[m] \in {"processing", "sent"})

CopyInv ==
  Clean => /\ \A d \in Dispatchers : HoldsAlone(d)
           /\ \A m \in Mails : CopiedOnce(m)

Row(d, to) == status' = [status EXCEPT ![Current(d)] = to]

(* What a dispatcher's step without a fault does to its row and its mail.  *)
CleanStep(d) ==
  \/ /\ pc[d] \notin Working /\ pc'[d] \notin Working
     /\ UNCHANGED <<status, stale, delivered>>
  \/ /\ pc[d] = "claim" /\ Claimable(Current(d)) /\ pc'[d] = "deliver"
     /\ Row(d, "processing") /\ stale' = [stale EXCEPT ![Current(d)] = FALSE]
     /\ UNCHANGED <<delivered, batch>>
  \/ /\ pc[d] = "deliver" /\ UNCHANGED <<status, stale, batch>>
     /\ \/ pc'[d] = "mark_sent" /\ delivered' = [delivered EXCEPT ![Current(d)] = @ + 1]
        \/ pc'[d] \in {"mark_retry", "mark_failed"} /\ UNCHANGED delivered
  \/ /\ pc[d] \in Working \ {"deliver"} /\ pc'[d] \notin Working
     /\ UNCHANGED <<stale, delivered>>
     /\ \/ status[Current(d)] # "processing"
        \/ pc[d] = "mark_sent" /\ Row(d, "sent")
        \/ pc[d] # "mark_sent" /\ (Row(d, "retry") \/ Row(d, "failed"))

(* A dispatcher that moves on is done with its mail.                       *)
LEMMA AdvanceLeavesWork ==
  ASSUME pc \in [Dispatchers -> PCs], NEW d \in Dispatchers, NEW m,
         Advance(d, m) \/ Return(d)
  PROVE pc'[d] \notin Working
BY DEF Advance, EndPass, Return, Working

(* Without a fault a dispatcher takes only these steps.                    *)
LEMMA CleanSteps ==
  ASSUME OutboxInv, NEW d \in Dispatchers, AnyStep(d), faults = 0, faults' = 0
  PROVE CleanStep(d)
<1>0. pc \in [Dispatchers -> PCs] /\ ~Fault
  BY DEF OutboxInv, TypeOK, Fault
<1> USE DEF CleanStep, Row, rows
<1>1. CASE BeginDrain(d)
  BY <1>0, <1>1 DEF BeginDrain, history, Working
<1>2. CASE List(d)
  <2>1. pc'[d] \notin Working
    BY <1>0, <1>2, AdvanceLeavesWork DEF List, Working
  <2> QED
    BY <1>2, <2>1 DEF List, history, Working
<1>3. CASE Claim(d)
  <2>1. CASE ~Claimable(Current(d))
    BY <1>0, <1>3, <2>1, AdvanceLeavesWork DEF Claim, history, Working
  <2>2. CASE Claimable(Current(d))
    BY <1>0, <1>3, <2>2 DEF Claim, ClaimRow, history
  <2> QED
    BY <2>1, <2>2
<1>4. CASE Deliver(d)
  BY <1>0, <1>4 DEF Deliver, AfterFailure
<1>5. CASE MarkSent(d)
  BY <1>0, <1>5, AdvanceLeavesWork DEF MarkSent, Markable, SentRow, Working
<1>6. CASE MarkRetry(d)
  BY <1>0, <1>6, AdvanceLeavesWork DEF MarkRetry, Markable, RetryRow, history, Working
<1>7. CASE MarkFailed(d)
  BY <1>0, <1>7, AdvanceLeavesWork DEF MarkFailed, Markable, FailedRow, Working
<1>8. ~MarkSentFails(d) /\ ~Stops(d)
  BY <1>0 DEF MarkSentFails, Stops
<1> QED
  BY <1>1, <1>2, <1>3, <1>4, <1>5, <1>6, <1>7, <1>8 DEF AnyStep, DispatcherStep

(* A step without a fault keeps rows held alone and mails copied once.     *)
LEMMA DispatcherKeepsCopy ==
  ASSUME OutboxInv, CopyInv, NEW d \in Dispatchers, AnyStep(d)
  PROVE CopyInv'
<1>f. faults \in Nat /\ faults' \in {faults, faults + 1}
  BY DEF OutboxInv, TypeOK, AnyStep, DispatcherStep, BeginDrain, List, Claim, Deliver,
         MarkSent, MarkRetry, MarkFailed, MarkSentFails, Stops, Fault
<1>o. overruns' = overruns
  BY DEF AnyStep, DispatcherStep, BeginDrain, List, Claim, Deliver,
         MarkSent, MarkRetry, MarkFailed, MarkSentFails, Stops, history
<1> SUFFICES ASSUME Clean'
             PROVE (\A e \in Dispatchers : HoldsAlone(e)') /\ \A m \in Mails : CopiedOnce(m)'
  BY DEF CopyInv
<1>0. /\ status \in [Mails -> Statuses] /\ stale \in [Mails -> BOOLEAN]
      /\ delivered \in [Mails -> Nat] /\ pc \in [Dispatchers -> PCs]
  BY DEF OutboxInv, TypeOK
<1>1. CleanStep(d) /\ Clean
  BY <1>f, <1>o, CleanSteps DEF Clean
<1>2. (\A e \in Dispatchers : HoldsAlone(e)) /\ \A m \in Mails : CopiedOnce(m)
  BY <1>1 DEF CopyInv
<1> DEFINE c == Current(d)
<1>3. \A e \in Dispatchers : e # d => pc'[e] = pc[e] /\ Current(e)' = Current(e)
  BY OthersStay
<1>4. \A e \in Dispatchers : pc[e] \in {"claim"} \cup Working => Current(e) \in Mails
  BY CurrentIsMail
<1>5. batch' = batch => Current(d)' = c
  BY DEF Current
<1> HIDE DEF c
<1>6. CASE /\ pc[d] \notin Working /\ pc'[d] \notin Working
           /\ UNCHANGED <<status, stale, delivered>>
  <2>1. \A m \in Mails : Held(m) => Held(m)'
    BY <1>3, <1>6 DEF Held
  <2> QED
    BY <1>2, <1>3, <1>6, <2>1 DEF HoldsAlone, CopiedOnce
<1>7. CASE /\ pc[d] = "claim" /\ Claimable(c) /\ pc'[d] = "deliver"
           /\ Row(d, "processing") /\ stale' = [stale EXCEPT ![c] = FALSE]
           /\ UNCHANGED <<delivered, batch>>
  <2>1. /\ c \in Mails /\ Current(d)' = c /\ status' = [status EXCEPT ![c] = "processing"]
        /\ status[c] \in {"pending", "retry"}
    BY <1>2, <1>4, <1>5, <1>7 DEF c, Row, Claimable, CopiedOnce
  <2>2. delivered[c] = 0
    BY <1>0, <1>2, <2>1 DEF CopiedOnce
  <2>3. \A e \in Dispatchers : pc[e] \in Working => Current(e) # c
    BY <1>2, <2>1 DEF HoldsAlone
  <2>4. \A e \in Dispatchers : e # d => HoldsAlone(e)'
    BY <1>0, <1>2, <1>3, <1>4, <1>7, <2>1, <2>3 DEF HoldsAlone
  <2>5. HoldsAlone(d)'
    BY <1>0, <1>3, <1>7, <2>1, <2>2, <2>3 DEF HoldsAlone
  <2>6. \A m \in Mails : (m = c => Held(m)') /\ (Held(m) => Held(m)')
    BY <1>3, <1>7, <2>1 DEF Held, Working
  <2>7. \A m \in Mails : CopiedOnce(m)'
    BY <1>0, <1>2, <1>7, <2>1, <2>2, <2>6 DEF CopiedOnce
  <2> QED
    BY <2>4, <2>5, <2>7
<1>8. CASE /\ pc[d] = "deliver" /\ UNCHANGED <<status, stale, batch>>
           /\ \/ pc'[d] = "mark_sent" /\ delivered' = [delivered EXCEPT ![c] = @ + 1]
              \/ pc'[d] \in {"mark_retry", "mark_failed"} /\ UNCHANGED delivered
  <2>1. c \in Mails /\ Current(d)' = c /\ status[c] = "processing" /\ delivered[c] = 0
    BY <1>2, <1>4, <1>5, <1>8 DEF c, HoldsAlone, Working
  <2>2. \A e \in Dispatchers : pc[e] \in Working /\ Current(e) = c => e = d
    BY <1>2, <1>8 DEF c, HoldsAlone, Working
  <2>3. \A e \in Dispatchers : e # d => HoldsAlone(e)'
    BY <1>0, <1>2, <1>3, <1>4, <1>8, <2>1, <2>2 DEF HoldsAlone
  <2>4. HoldsAlone(d)'
    BY <1>0, <1>3, <1>8, <2>1, <2>2 DEF HoldsAlone
  <2>5. \A m \in Mails : Held(m) => Held(m)'
    BY <1>3, <1>8, <2>1 DEF Held, Working, c
  <2>6. \A m \in Mails : CopiedOnce(m)'
    BY <1>0, <1>2, <1>8, <2>1, <2>5 DEF CopiedOnce
  <2> QED
    BY <2>3, <2>4, <2>6
<1>9. CASE /\ pc[d] \in Working \ {"deliver"} /\ pc'[d] \notin Working
           /\ UNCHANGED <<stale, delivered>>
           /\ \/ status[c] # "processing"
              \/ pc[d] = "mark_sent" /\ Row(d, "sent")
              \/ pc[d] # "mark_sent" /\ (Row(d, "retry") \/ Row(d, "failed"))
  <2>1. /\ c \in Mails /\ status[c] = "processing"
        /\ pc[d] # "mark_sent" => delivered[c] = 0
    BY <1>2, <1>4, <1>9 DEF c, HoldsAlone
  <2>2. \A e \in Dispatchers : pc[e] \in Working /\ Current(e) = c => e = d
    BY <1>2, <1>9 DEF c, HoldsAlone
  <2>3. PICK to \in {"sent", "retry", "failed"} :
          status' = [status EXCEPT ![c] = to] /\ (pc[d] = "mark_sent" => to = "sent")
    BY <1>9, <2>1 DEF Row, c
  <2>4. \A e \in Dispatchers : HoldsAlone(e)'
    BY <1>0, <1>2, <1>3, <1>4, <1>9, <2>1, <2>2, <2>3 DEF HoldsAlone
  <2>5. \A m \in Mails : m # c /\ Held(m) => Held(m)'
    BY <1>3, <1>9 DEF Held, c
  <2>6. \A m \in Mails : CopiedOnce(m)'
    BY <1>0, <1>2, <1>9, <2>1, <2>3, <2>5 DEF CopiedOnce
  <2> QED
    BY <2>4, <2>6
<1> QED
  BY <1>1, <1>6, <1>7, <1>8, <1>9 DEF CleanStep, c

(* A new row, and time, change nothing of it: a held claim that goes stale *)
(* is an overrun.                                                          *)
LEMMA EnvironmentKeepsCopy ==
  ASSUME OutboxInv, CopyInv, NEW n \in Mails, Enqueue(n) \/ BecomesDue(n) \/ BecomesStale(n)
  PROVE CopyInv'
<1>0. /\ status \in [Mails -> Statuses] /\ stale \in [Mails -> BOOLEAN]
      /\ delivered \in [Mails -> Nat] /\ overruns \in Nat
  BY DEF OutboxInv, TypeOK
<1>1. UNCHANGED <<pc, batch, delivered, faults>>
  BY DEF Enqueue, BecomesDue, BecomesStale, control, history
<1>2. overruns' = overruns \/ (BecomesStale(n) /\ Held(n) /\ overruns' = overruns + 1)
  BY DEF Enqueue, BecomesDue, BecomesStale, history
<1> SUFFICES ASSUME Clean'
             PROVE (\A e \in Dispatchers : HoldsAlone(e)') /\ \A m \in Mails : CopiedOnce(m)'
  BY DEF CopyInv
<1>3. Clean /\ overruns' = overruns
  BY <1>0, <1>1, <1>2 DEF Clean
<1>4. (\A e \in Dispatchers : HoldsAlone(e)) /\ \A m \in Mails : CopiedOnce(m)
  BY <1>3 DEF CopyInv
<1>5. ~BecomesStale(n)
  BY <1>0, <1>3, <1>4 DEF BecomesStale, CopiedOnce
<1>6. /\ stale' = stale
      /\ status' = status \/ (status[n] = "absent" /\ status' = [status EXCEPT ![n] = "pending"])
  BY <1>5 DEF Enqueue, BecomesDue
<1>7. \A e \in Dispatchers : Current(e)' = Current(e)
  BY <1>1 DEF Current
<1>8. \A m \in Mails : Held(m)' = Held(m)
  BY <1>1, <1>7 DEF Held
<1>9. \A e \in Dispatchers : pc[e] \in Working => Current(e) \in Mails
  BY CurrentIsMail
<1>10. \A e \in Dispatchers : HoldsAlone(e)'
  BY <1>0, <1>1, <1>4, <1>6, <1>7, <1>9 DEF HoldsAlone
<1>11. \A m \in Mails : CopiedOnce(m)'
  BY <1>0, <1>1, <1>4, <1>6, <1>8 DEF CopiedOnce
<1> QED
  BY <1>10, <1>11

(* Two copies of a mail go out only if something failed or a claim was     *)
(* held for longer than processing_stale_secs: any number of dispatchers   *)
(* that list and claim the same rows at the same time send each mail once  *)
(* (try_claim's conditional update, the marks).                            *)
THEOREM CopiesNeedAFault == Spec => []OneCopy
<1>1. Init => CopyInv
  BY DEF Init, CopyInv, HoldsAlone, CopiedOnce, Working
<1>2. OutboxInv /\ CopyInv /\ [Next]_vars => CopyInv'
  <2> SUFFICES ASSUME OutboxInv, CopyInv, [Next]_vars PROVE CopyInv'
    OBVIOUS
  <2>1. CASE UNCHANGED vars
    BY <2>1 DEF vars, CopyInv, Clean, HoldsAlone, CopiedOnce, Held, Current
  <2> QED
    BY <2>1, DispatcherKeepsCopy, EnvironmentKeepsCopy DEF Next, AnyStep
<1>3. OutboxInv /\ CopyInv => OneCopy
  BY DEF OutboxInv, CopyInv, Clean, CopiedOnce, OneCopy
<1> QED
  BY <1>1, <1>2, <1>3, OutboxInvHolds, PTL DEF Spec
=============================================================================
