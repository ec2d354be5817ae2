----------------------------- MODULE Reminders -----------------------------
(***************************************************************************)
(* Reminder mails of CampaignService: an operator's RemindAsync and         *)
(* RemindPacketAsync, and the scheduler's SendDueRemindersAsync, which share*)
(* SendRemindersAsync.  They run beside the submissions and closes of       *)
(* module Attestation, on the same tables and with no transaction: every    *)
(* statement commits by itself, and the SMTP batch sits between the SELECT  *)
(* of the outstanding packets and the stamping of reminder_sent_at.         *)
(***************************************************************************)
EXTENDS Attestation, FiniteSets

CONSTANTS
  Operators,     \* concurrent operator requests to remind
  Scheduler,     \* the one AuditingSchedulerService of the host
  MaxBatches     \* bound: mail batches handed to the SMTP relay

Senders == Operators \cup {Scheduler}

ASSUME SendersAssumption ==
  /\ Scheduler \notin Operators
  /\ IsFiniteSet(Operators)
  /\ MaxBatches \in Nat

VARIABLES
  shortDue,      \* campaigns launched with due_period <= 7: pre-stamped, never nudged
  reminded,      \* packets whose reminder_sent_at is not NULL
  logged,        \* reminder rows with success = TRUE in email_log, per packet
  stage,         \* where each sender stands
  campaign,      \* the campaign an operator's request is about
  batch,         \* the packets a sender read as outstanding and has not logged yet
  delivered,     \* those it mailed that the relay accepted and it has not stamped yet
  queue,         \* due campaigns the scheduler's tick has left
  mails,         \* history: reminders the relay accepted, per packet
  nudges,        \* history: those of them the scheduler sent
  late,          \* history: those sent after the packet was answered
  batches        \* history: batches sent

history      == <<mails, nudges, late, batches>>
reminderVars == <<shortDue, reminded, logged, stage, campaign, batch, delivered, queue, history>>
allVars      == <<vars, reminderVars>>

Stages == {"idle", "selected", "sending", "stamping"}

ReminderTypeOK ==
  /\ shortDue  \in SUBSET Campaigns
  /\ reminded  \in SUBSET Packets
  /\ logged    \in [Packets -> Nat]
  /\ stage     \in [Senders -> Stages]
  /\ campaign  \in [Senders -> Campaigns \cup {None}]
  /\ batch     \in [Senders -> SUBSET Packets]
  /\ delivered \in [Senders -> SUBSET Packets]
  /\ queue     \in SUBSET Campaigns
  /\ mails     \in [Packets -> Nat]
  /\ nudges    \in [Packets -> Nat]
  /\ late      \in [Packets -> Nat]
  /\ batches   \in 0..MaxBatches

ReminderInit ==
  /\ Init
  /\ shortDue  \in SUBSET Campaigns
  /\ reminded  = {p \in Packets : CampaignOf[p] \in shortDue}
  /\ logged    = [p \in Packets |-> 0]
  /\ stage     = [s \in Senders |-> "idle"]
  /\ campaign  = [s \in Senders |-> None]
  /\ batch     = [s \in Senders |-> {}]
  /\ delivered = [s \in Senders |-> {}]
  /\ queue     = {}
  /\ mails     = [p \in Packets |-> 0]
  /\ nudges    = [p \in Packets |-> 0]
  /\ late      = [p \in Packets |-> 0]
  /\ batches   = 0

\* Mutant: the SELECT lacks AND submitted_at IS NULL.
Outstanding_All(c) == PacketsOf(c)

Outstanding(c) == {p \in PacketsOf(c) : ~Submitted(p)}
\* Mutant: the scheduler does not filter on reminder_sent_at IS NULL.
NeverReminded_All(c) == Outstanding(c)

NeverReminded(c) == Outstanding(c) \ reminded

\* Hand the batch to SendRemindersAsync, which returns at once when it is empty.
Prepare(s, pending) ==
  /\ batch' = [batch EXCEPT ![s] = pending]
  /\ stage' = [stage EXCEPT ![s] = IF pending = {} THEN "idle" ELSE "sending"]

----------------------------------------------------------------------------
\* RemindAsync / RemindPacketAsync, first statement: the campaign must be active.
RemindSelect(s, c) ==
  /\ stage[s] = "idle"
  /\ status[c] = "active"
  /\ stage'    = [stage EXCEPT ![s] = "selected"]
  /\ campaign' = [campaign EXCEPT ![s] = c]
  /\ UNCHANGED <<vars, shortDue, reminded, logged, batch, delivered, queue, history>>

\* RemindAsync, second statement: everyone still outstanding, reminded before or not.
RemindCampaign(s) ==
  /\ stage[s] = "selected"
  /\ Prepare(s, Outstanding(campaign[s]))
  /\ campaign' = [campaign EXCEPT ![s] = None]
  /\ UNCHANGED <<vars, shortDue, reminded, logged, delivered, queue, history>>

\* RemindPacketAsync, second statement: one packet; a Conflict when it is done.
RemindPacket(s, p) ==
  /\ stage[s] = "selected"
  /\ p \in PacketsOf(campaign[s])
  /\ Prepare(s, {p} \cap Outstanding(campaign[s]))
  /\ campaign' = [campaign EXCEPT ![s] = None]
  /\ UNCHANGED <<vars, shortDue, reminded, logged, delivered, queue, history>>

\* Mutant: the tick's list holds packets, not campaigns.
TickSelect_Packets(soon) ==
  /\ stage[Scheduler] = "idle"
  /\ queue = {}
  /\ queue' = UNION {NeverReminded(c) : c \in soon}
  /\ UNCHANGED <<vars, shortDue, reminded, logged, stage, campaign, batch, delivered, history>>

\* SendDueRemindersAsync, first statement.  "soon" is the set of campaigns
\* whose due date lies in the reminder window on the day of the tick.
TickSelect(soon) ==
  /\ stage[Scheduler] = "idle"
  /\ queue = {}
  /\ queue' = {c \in soon : status[c] = "active" /\ NeverReminded(c) # {}}
  /\ UNCHANGED <<vars, shortDue, reminded, logged, stage, campaign, batch, delivered, history>>

\* SendDueRemindersAsync, one turn of its loop: who has never been nudged.  The
\* campaign's status is not read again.
TickCampaign(c) ==
  /\ stage[Scheduler] = "idle"
  /\ c \in queue
  /\ queue' = queue \ {c}
  /\ Prepare(Scheduler, NeverReminded(c))
  /\ UNCHANGED <<vars, shortDue, reminded, logged, campaign, delivered, history>>

----------------------------------------------------------------------------
\* SendRemindersAsync: SendBatchAsync, with one result per mail.
Deliver(s, accepted) ==
  LET Tally(count, new) == [p \in Packets |-> count[p] + (IF p \in new THEN 1 ELSE 0)] IN
  /\ stage[s] = "sending"
  /\ accepted \subseteq batch[s]
  /\ batches < MaxBatches
  /\ batches'   = batches + 1
  /\ stage'     = [stage EXCEPT ![s] = "stamping"]
  /\ delivered' = [delivered EXCEPT ![s] = accepted]
  /\ mails'     = Tally(mails, accepted)
  /\ nudges'    = Tally(nudges, IF s = Scheduler THEN accepted ELSE {})
  /\ late'      = Tally(late, {p \in accepted : Submitted(p)})
  /\ UNCHANGED <<vars, shortDue, reminded, logged, campaign, batch, queue>>

\* Mutant: the stamp is not conditional on results[i].Success.
ToStamp_Always(s, p) == {p}

\* if (results[i].Success): only an accepted mail is stamped once it is logged.
ToStamp(s, p) == {p} \cap delivered[s]

\* Mutant: a stamped packet's result is not logged.
LoggedCount_OnlyFailures(s, p) == logged[p]

\* A successful row is added to email_log for a mail the relay accepted.
LoggedCount(s, p) == IF p \in delivered[s] THEN logged[p] + 1 ELSE logged[p]

\* SendRemindersAsync, the next turn of its loop: LogEmailAsync, which commits by
\* itself.  The turn before has been stamped.
LogResult(s, p) ==
  /\ stage[s] = "stamping"
  /\ delivered[s] \subseteq batch[s]
  /\ p \in batch[s]
  /\ logged'    = [logged EXCEPT ![p] = LoggedCount(s, p)]
  /\ batch'     = [batch EXCEPT ![s] = @ \ {p}]
  /\ delivered' = [delivered EXCEPT ![s] = (@ \ {p}) \cup ToStamp(s, p)]
  /\ stage'     = [stage EXCEPT ![s] = IF batch[s] = {p} /\ ToStamp(s, p) = {}
                                       THEN "idle" ELSE "stamping"]
  /\ UNCHANGED <<vars, shortDue, reminded, campaign, queue, history>>

\* The end of that turn, UPDATE ... SET reminder_sent_at: it waits for a submission
\* that holds the packet's row.
StampReminder(s, p) ==
  /\ stage[s] = "stamping"
  /\ p \in delivered[s] \ batch[s]
  /\ \A r \in Requests : ~HoldsPacket(r, p)
  /\ reminded'  = reminded \cup {p}
  /\ delivered' = [delivered EXCEPT ![s] = @ \ {p}]
  /\ stage'     = [stage EXCEPT ![s] = IF batch[s] = {} THEN "idle" ELSE "stamping"]
  /\ UNCHANGED <<vars, shortDue, logged, campaign, batch, queue, history>>

\* A statement throws or the host stops: what was sent and not yet logged or not yet
\* stamped stays so.  RunOnceAsync swallows the exception of the scheduler; the next
\* tick starts afresh.
SenderFails(s) ==
  /\ stage[s] # "idle" \/ (s = Scheduler /\ queue # {})
  /\ faults < MaxFaults
  /\ faults'    = faults + 1
  /\ stage'     = [stage EXCEPT ![s] = "idle"]
  /\ campaign'  = [campaign EXCEPT ![s] = None]
  /\ batch'     = [batch EXCEPT ![s] = {}]
  /\ delivered' = [delivered EXCEPT ![s] = {}]
  /\ queue'     = IF s = Scheduler THEN {} ELSE queue
  /\ UNCHANGED <<tables, session, byHand, shortDue, reminded, logged, history>>

SendAndStamp(s) ==
  \/ \E accepted \in SUBSET Packets : Deliver(s, accepted)
  \/ \E p \in Packets : LogResult(s, p) \/ StampReminder(s, p)
  \/ SenderFails(s)

Tick ==
  \/ \E soon \in SUBSET Campaigns : TickSelect(soon)
  \/ \E c \in Campaigns : TickCampaign(c)

Remind(s) ==
  \/ \E c \in Campaigns : RemindSelect(s, c)
  \/ RemindCampaign(s)
  \/ \E p \in Packets : RemindPacket(s, p)

ReminderNext ==
  \/ Next /\ UNCHANGED reminderVars
  \/ \E s \in Operators : Remind(s)
  \/ Tick
  \/ \E s \in Senders : SendAndStamp(s)

ReminderSpec == ReminderInit /\ [][ReminderNext]_allVars

----------------------------------------------------------------------------
(* Properties                                                              *)

\* "Dedup on reminder_sent_at so a daily tick never re-nudges the same person":
\* over any number of ticks and manual reminders the scheduler mails a packet
\* once, plus once for each time a send was cut off before its stamp, and never
\* in a campaign whose due period suppresses the reminder.
NudgedOnce ==
  \A p \in Packets :
    /\ nudges[p] <= 1 + faults
    /\ CampaignOf[p] \in shortDue => nudges[p] = 0

\* reminder_sent_at is evidence of a mail: a packet is stamped only when the
\* relay accepted a reminder for it, so a refused one is tried again.
StampMeansMailed ==
  \A p \in reminded : CampaignOf[p] \in shortDue \/ mails[p] > 0

\* Each sender can be stale once: the reminders a recipient gets after
\* answering are at most the batches that were read before the answer.
LateRemindersBounded == \A p \in Packets : late[p] <= Cardinality(Senders)

\* email_log accounts for every reminder the relay accepted, except those a sender
\* is about to log and those of a sender that was cut off.
EveryMailLogged ==
  \A p \in Packets :
    mails[p] <= logged[p] + Cardinality({s \in Senders : p \in delivered[s] \cap batch[s]}) + faults

----------------------------------------------------------------------------
(* The inductive invariant: what a sender's batch says of the tables.      *)

\* A sender has a batch only between its SELECT and its last log row, and results
\* only once the relay has answered; of those logged one at most awaits its stamp.
BatchesSound ==
  \A s \in Senders :
    /\ \A p, q \in delivered[s] \ batch[s] : p = q
    /\ stage[s] \in {"idle", "selected"} => batch[s] = {}
    /\ stage[s] # "stamping" => delivered[s] = {}
    /\ stage[s] = "selected" => campaign[s] \in Campaigns

\* A nudge that is neither stamped nor about to be was cut off, and so is every
\* earlier nudge of a packet the scheduler has read as never reminded.
NudgesSound ==
  \A p \in Packets :
    /\ nudges[p] <= faults + (IF p \in reminded \cup delivered[Scheduler] THEN 1 ELSE 0)
    /\ p \in batch[Scheduler] /\ stage[Scheduler] = "sending" => nudges[p] <= faults
    /\ CampaignOf[p] \in shortDue =>
         p \in reminded /\ p \notin batch[Scheduler] /\ nudges[p] = 0

\* What a sender is about to stamp was mailed.
DeliveredMeansMailed == \A s \in Senders : \A p \in delivered[s] : mails[p] > 0

\* The senders that will still mail the packet, whatever happens to it meanwhile.
AboutToMail(p) == {s \in Senders : stage[s] = "sending" /\ p \in batch[s]}

\* No mail is late before the answer; after it no sender reads the packet as
\* outstanding again, so that each late mail uses up one of those about to mail.
LateSound ==
  \A p \in Packets :
    IF Submitted(p)
    THEN late[p] + Cardinality(AboutToMail(p)) <= Cardinality(Senders)
    ELSE late[p] = 0

ReminderIInv ==
  /\ IInv
  /\ ReminderTypeOK
  /\ BatchesSound
  /\ NudgesSound
  /\ DeliveredMeansMailed
  /\ StampMeansMailed
  /\ LateSound
  /\ EveryMailLogged

=============================================================================
