--------------------------- MODULE LegacyContact ---------------------------
(***************************************************************************)
(* The two older ways to text a customer, composed with the campaigns: the *)
(* reminder scan (api/scheduler.py run_cycle_scan, started by the          *)
(* scheduler, by the catch-up after a restart, or by hand) and the bulk    *)
(* SMS (api/main.py sms_send).  Both write the outbox table                *)
(* (api/persistence.py) and take no lock, so their steps interleave with   *)
(* each other and with every campaign operation.  The scan claims its rows *)
(* first and sends then; the bulk SMS sends first and records then.        *)
(***************************************************************************)
EXTENDS CampaignContact

CONSTANTS
    Scans,         \* scans that may be under way at a time
    Texts,         \* bulk requests that may be under way at a time
    DedupeDays,    \* dedupe_days of the scan
    MaxFaults      \* bound: crashes of the process and reads that fail

ASSUME LegacyAssumption == DedupeDays \in Nat /\ MaxFaults \in Nat

VARIABLES
    claimDay,      \* per customer: the last day a reminder row was created
    realDay,       \* per customer: the last day a row with dry_run = 0 was created
    stage,         \* per process: where it stands in its handler
    audience,      \* per process: the customers it has still to go through
    batch,         \* per process: the customers it claimed or texted
    real,          \* per process: real_send
    crashes,
    unread,        \* reads of the outbox or of the gate that failed
    unchecked,     \* campaigns whose answer says that fatigue was not checked
    \* What happened outside the database:
    lastReminder,  \* per customer: the last day a reminder was received
    lastText,      \* per customer: the last day any legacy message was received
    doubled,       \* customers reminded again within the dedupe days
    textedControl  \* members of a control arm who received a legacy message

Processes == Scans \cup Texts

outboxVars == <<claimDay, realDay>>
processVars == <<stage, audience, batch, real>>
readVars == <<unread, unchecked>>
receivedVars == <<lastReminder, lastText, doubled, textedControl>>
legacyVars == <<outboxVars, processVars, crashes, readVars, receivedVars>>
allVars == <<vars, legacyVars>>

(* Mistake: only rows with dry_run = 0 written before today count. *)
YesterdaysClaimMistake ==
    {c \in Customers : claimDay[c] # Never /\ claimDay[c] < today /\ today < claimDay[c] + DedupeDays}

(* outbox_exists_recent: created_at > now - 7 days, previews included. *)
RecentlyClaimed ==
    {c \in Customers : claimDay[c] # Never /\ today < claimDay[c] + DedupeDays}

(* Mistake: nobody reads the outbox. *)
NoOutboxMistake == {}

(* recent_contact_customer_ids: created_at > now - 14 days and dry_run = 0,  *)
(* whatever the row's status.                                                *)
RecentOutbox ==
    {c \in Customers : realDay[c] # Never /\ today < realDay[c] + FatigueDays}

AllIdle == \A p \in Processes : stage[p] = "idle"

-----------------------------------------------------------------------------
LegacyInit ==
    /\ Init
    /\ claimDay = [c \in Customers |-> Never]
    /\ realDay = [c \in Customers |-> Never]
    /\ stage = [p \in Processes |-> "idle"]
    /\ audience = [p \in Processes |-> {}]
    /\ batch = [p \in Processes |-> {}]
    /\ real = [p \in Processes |-> FALSE]
    /\ crashes = 0 /\ unread = 0 /\ unchecked = {}
    /\ lastReminder = [c \in Customers |-> Never]
    /\ lastText = [c \in Customers |-> Never]
    /\ doubled = {}
    /\ textedControl = {}

Go(p, s) == stage' = [stage EXCEPT ![p] = s]

(* A read fails, and its reader goes on with less. *)
Unread(campaigns) ==
    /\ crashes + unread < MaxFaults
    /\ unread' = unread + 1
    /\ unchecked' = unchecked \cup campaigns

(* run_cycle_scan: the audience without those a reminder is on record for. *)
ScanStart(p) ==
    /\ p \in Scans /\ stage[p] = "idle"
    /\ Go(p, "gate")
    /\ \E A \in SUBSET Customers :
        /\ A # {}
        /\ audience' = [audience EXCEPT ![p] = A \ RecentlyClaimed]
    /\ UNCHANGED <<vars, outboxVars, batch, real, crashes, readVars, receivedVars>>

(* load_gate without fatigue: the gate is a snapshot from here on, and open  *)
(* when it could not be read.                                                *)
ScanGate(p) ==
    /\ stage[p] = "gate"
    /\ Go(p, "claim")
    /\ \/ audience' = [audience EXCEPT ![p] = @ \ Blocked] /\ UNCHANGED readVars
       \/ Unread({}) /\ UNCHANGED audience
    /\ \E b \in BOOLEAN : real' = [real EXCEPT ![p] = b]
    /\ UNCHANGED <<vars, outboxVars, batch, crashes, receivedVars>>

(* Mistake: the claim is written as a preview and never corrected. *)
PreviewClaimMistake(p) ==
    /\ stage[p] = "claim"
    /\ \E c \in audience[p] :
        /\ audience' = [audience EXCEPT ![p] = @ \ {c}]
        /\ batch' = [batch EXCEPT ![p] = @ \cup {c}]
        /\ claimDay' = [claimDay EXCEPT ![c] = today]
    /\ UNCHANGED <<vars, realDay, stage, real, crashes, readVars, receivedVars>>

(* One row after the other is claimed; then the sending begins. *)
ScanClaim(p) ==
    /\ stage[p] = "claim"
    /\ \E c \in audience[p] :
        /\ audience' = [audience EXCEPT ![p] = @ \ {c}]
        /\ batch' = [batch EXCEPT ![p] = @ \cup {c}]
        /\ claimDay' = [claimDay EXCEPT ![c] = today]
        /\ realDay' = IF real[p] THEN [realDay EXCEPT ![c] = today] ELSE realDay
    /\ UNCHANGED <<vars, stage, real, crashes, readVars, receivedVars>>

ScanClaimed(p) ==
    /\ stage[p] = "claim" /\ audience[p] = {}
    /\ IF real[p] THEN Go(p, "send") ELSE Go(p, "idle")
    /\ batch' = IF real[p] THEN batch ELSE [batch EXCEPT ![p] = {}]
    /\ UNCHANGED <<vars, outboxVars, audience, real, crashes, readVars, receivedVars>>

(* A customer receives a legacy message, here and now. *)
Texted(c) ==
    /\ lastText' = [lastText EXCEPT ![c] = today]
    /\ textedControl' = textedControl \cup ({c} \cap ControlOfRunning)

Reminded(c) ==
    /\ Texted(c)
    /\ lastReminder' = [lastReminder EXCEPT ![c] = today]
    /\ doubled' =
           IF lastReminder[c] # Never /\ today < lastReminder[c] + DedupeDays
           THEN doubled \cup {c} ELSE doubled

(* One message after the other goes to the panel, which delivers it or not. *)
ScanSend(p) ==
    /\ stage[p] = "send"
    /\ \E c \in batch[p] :
        /\ batch' = [batch EXCEPT ![p] = @ \ {c}]
        /\ Reminded(c) \/ UNCHANGED receivedVars
    /\ UNCHANGED <<vars, outboxVars, stage, audience, real, crashes, readVars>>

(* Mistake: a stage the handler does not have. *)
DoneMistake(p) ==
    /\ stage[p] = "send" /\ batch[p] = {}
    /\ Go(p, "done")
    /\ UNCHANGED <<vars, outboxVars, audience, batch, real, crashes, readVars, receivedVars>>

(* The statuses are written, which no query asks for. *)
ScanEnd(p) ==
    /\ stage[p] = "send" /\ batch[p] = {}
    /\ Go(p, "idle")
    /\ real' = [real EXCEPT ![p] = FALSE]
    /\ UNCHANGED <<vars, outboxVars, audience, batch, crashes, readVars, receivedVars>>

(* sms_send: the whole gate at once, fatigue included; of a gate that could *)
(* not be read the outbox remains.  A preview leaves only rows with         *)
(* dry_run = 1, which nobody asks for.                                      *)
TextGate(p) ==
    /\ p \in Texts /\ stage[p] = "idle"
    /\ Go(p, "text")
    /\ \E A \in SUBSET Customers :
        /\ A # {}
        /\ \/ /\ audience' = [audience EXCEPT ![p] =
                     A \ (Blocked \cup RecentlyExposed \cup RecentOutbox)]
              /\ UNCHANGED readVars
           \/ /\ audience' = [audience EXCEPT ![p] = A \ RecentOutbox]
              /\ Unread({})
    /\ UNCHANGED <<vars, outboxVars, batch, real, crashes, receivedVars>>

TextSend(p) ==
    /\ stage[p] = "text"
    /\ \E c \in audience[p] :
        /\ audience' = [audience EXCEPT ![p] = @ \ {c}]
        /\ batch' = [batch EXCEPT ![p] = @ \cup {c}]
        /\ \/ Texted(c) /\ UNCHANGED <<lastReminder, doubled>>
           \/ UNCHANGED receivedVars
    /\ UNCHANGED <<vars, outboxVars, stage, real, crashes, readVars>>

TextSent(p) ==
    /\ stage[p] = "text" /\ audience[p] = {}
    /\ Go(p, "record")
    /\ UNCHANGED <<vars, outboxVars, audience, batch, real, crashes, readVars, receivedVars>>

(* One outbox row after the other, whether its message was taken or not. *)
TextRecord(p) ==
    /\ stage[p] = "record"
    /\ \E c \in batch[p] :
        /\ batch' = [batch EXCEPT ![p] = @ \ {c}]
        /\ realDay' = [realDay EXCEPT ![c] = today]
    /\ UNCHANGED <<vars, claimDay, stage, audience, real, crashes, readVars, receivedVars>>

TextEnd(p) ==
    /\ stage[p] = "record" /\ batch[p] = {}
    /\ Go(p, "idle")
    /\ UNCHANGED <<vars, outboxVars, audience, batch, real, crashes, readVars, receivedVars>>

(* The process dies: what was sent is sent, what was claimed is claimed. *)
LegacyCrash ==
    /\ crashes + unread < MaxFaults
    /\ ~AllIdle
    /\ crashes' = crashes + 1
    /\ stage' = [p \in Processes |-> "idle"]
    /\ audience' = [p \in Processes |-> {}]
    /\ batch' = [p \in Processes |-> {}]
    /\ real' = [p \in Processes |-> FALSE]
    /\ UNCHANGED <<vars, outboxVars, readVars, receivedVars>>

LegacyStep(p) ==
    \/ ScanStart(p) \/ ScanGate(p) \/ ScanClaim(p) \/ ScanClaimed(p)
    \/ ScanSend(p) \/ ScanEnd(p)
    \/ TextGate(p) \/ TextSend(p) \/ TextSent(p) \/ TextRecord(p) \/ TextEnd(p)

(* create_campaign when the outbox cannot be read: the campaign is drawn with *)
(* what the campaigns themselves know, and its answer says so.                *)
CreateUnchecked ==
    /\ CreateSome({})
    /\ Unread({nCampaigns'})
    /\ UNCHANGED <<outboxVars, processVars, crashes, receivedVars>>

(* A scan and a bulk request take minutes: they end on the day they began. *)
LegacyNextDay == AllIdle /\ NextDay /\ UNCHANGED legacyVars

LegacyNext ==
    \/ \E p \in Processes : LegacyStep(p)
    \/ LegacyCrash
    \/ Operations(RecentOutbox) /\ UNCHANGED legacyVars
    \/ CreateUnchecked
    \/ LegacyNextDay

LegacySpec == LegacyInit /\ [][LegacyNext]_allVars

-----------------------------------------------------------------------------
(* Types of the outbox, the processes and the history. *)
LegacyTypeOK ==
    /\ TypeOK
    /\ claimDay \in [Customers -> Nat]
    /\ realDay \in [Customers -> Nat]
    /\ stage \in [Processes -> {"idle", "gate", "claim", "send", "text", "record"}]
    /\ audience \in [Processes -> SUBSET Customers]
    /\ batch \in [Processes -> SUBSET Customers]
    /\ real \in [Processes -> BOOLEAN]
    /\ crashes \in Nat
    /\ unread \in Nat
    /\ unchecked \in SUBSET Campaign
    /\ lastReminder \in [Customers -> Nat]
    /\ lastText \in [Customers -> Nat]
    /\ doubled \in SUBSET Customers
    /\ textedControl \in SUBSET Customers

(* "Claim, then send": however the process dies and the scan is made good,  *)
(* one scan at a time never reminds a customer twice within the window.     *)
ReminderOnce == doubled = {}

(* The outbox knows of every message a customer received from the two        *)
(* senders, whichever of them was interrupted by the other (but not by a     *)
(* crash: the bulk text is recorded only after it was sent).                 *)
ReceivedIsInOutbox ==
    AllIdle /\ crashes = 0 => \A c \in Customers :
        lastText[c] # Never /\ today < lastText[c] + FatigueDays => c \in RecentOutbox

(* The campaigns know of the reminders: nobody who received one inside the   *)
(* fatigue window is drawn into a new campaign, even when the scan is still  *)
(* under way or has died, or its gate could not be read; except where the    *)
(* outbox could not be read, and then the campaign's answer does not say     *)
(* that fatigue was checked.                                                 *)
CampaignsSeeReminders ==
    [][\A k \in Campaign \ unchecked', c \in Customers :
          arm[k][c] = "none" /\ arm'[k][c] # "none" /\ lastReminder[c] # Never
              => lastReminder[c] + FatigueDays <= today]_allVars

-----------------------------------------------------------------------------
(* Statements of the code and its tests that the code does not meet.        *)

(* "An additional scan does no harm, the dedupe allows no second message":  *)
(* the same as ReminderOnce, asked when two scans overlap.                  *)
ExtraScanHarmless == ReminderOnce

(* "No path contacts a member of the control arm." *)
ControlGetsNoText == textedControl = {}
=============================================================================
