-------------------------- MODULE CampaignContact --------------------------
(***************************************************************************)
(* Campaigns and who they contact: creation with a randomised control arm, *)
(* the Excel export, the SMS send, the outcome snapshot and closing        *)
(* (api/campaigns_api.py, mktcore/contact, mktcore/campaigns,              *)
(* mktcore/execution/providers.py).                                        *)
(*                                                                         *)
(* Each of these operations is one transaction under the process-wide      *)
(* write lock, hence one action.  The one part of it that a rollback does  *)
(* not undo is the call to the SMS panel, made in the middle of the send   *)
(* transaction: a message may reach the customer although its answer was   *)
(* lost, or although the process died before the commit.                   *)
(*                                                                         *)
(* Time is counted in days; day 0 stands for NULL in a date column.        *)
(***************************************************************************)
EXTENDS Naturals, FiniteSets, ArmAssignment

CONSTANTS
    Customers,
    Stratum,         \* the stratum (lifecycle state or segment) of a customer
    Holdouts,        \* the holdout percentages users ask for
    FatigueDays,     \* DEFAULT_FATIGUE_WINDOW_DAYS
    MaxCampaigns,    \* bound: campaigns created
    MaxDay,          \* bound: days of the run
    MaxUnreported    \* bound: messages per member whose acceptance is lost

ASSUME ContactAssumption ==
    /\ FatigueDays \in Nat
    /\ MaxCampaigns \in Nat
    /\ MaxDay \in Nat
    /\ MaxUnreported \in Nat
    /\ Holdouts \subseteq Nat
    /\ IsFiniteSet(Customers)

VARIABLES
    today,         \* the calendar day
    optedOut,      \* customers with an active row in contact_suppressions
    nCampaigns,    \* campaigns created so far; their ids are 1..nCampaigns
    cstatus,       \* Campaign.status
    arm,           \* CampaignMember.arm, "none" for a customer who is no member
    assigned,      \* CampaignMember.assigned_date, equal for all members
    exposure,      \* CampaignMember.exposure_at / exposure_date
    row,           \* the member's row in campaign_sends: status and dry_run
    window,        \* CampaignOutcome.window_start
    \* What happened outside the database:
    inFile,        \* members an export listed, with a phone or without
    got,           \* SMS the customer received from the campaign
    unreported,    \* those of them whose acceptance the program never learnt
    lastSms        \* the last day a customer received a campaign SMS

contactVars == <<arm, assigned, exposure, row, inFile, got, unreported, lastSms>>
vars == <<today, optedOut, nCampaigns, cstatus, window, contactVars>>

Campaign == 1..MaxCampaigns
Created == 1..nCampaigns
Never == 0

(* CampaignSend.status; "preview" is STATUS_SENT with dry_run set. *)
RowStates == {"none", "sent", "preview", "failed", "skipped"}

-----------------------------------------------------------------------------
(* The contact gate (build_gate, ContactGate.reason_for).                   *)

Running(k) == cstatus[k] = "running"

(* Mistake: the filter on the campaign's state inverted. *)
ControlOfClosedMistake ==
    {c \in Customers : \E k \in Campaign : ~Running(k) /\ arm[k][c] = "control"}

(* control_arm_customer_ids: only campaigns not yet closed protect anybody. *)
ControlOfRunning ==
    {c \in Customers : \E k \in Campaign : Running(k) /\ arm[k][c] = "control"}

(* Mistake: the gate asks for consent alone. *)
ConsentOnlyMistake == optedOut

(* What the gate asks at export and send: consent and control arm. *)
Blocked == optedOut \cup ControlOfRunning

(* recent_exposures: stamped contacts inside the fatigue window.  On the     *)
(* window's last day it is the second that decides; here nobody is held back *)
(* any more, and a smaller M stands for those who still are.                 *)
RecentlyExposed ==
    {c \in Customers : \E k \in Campaign :
        exposure[k][c] # Never /\ today < exposure[k][c] + FatigueDays}

-----------------------------------------------------------------------------
NoMember(v) == [k \in Campaign |-> [c \in Customers |-> v]]

Init ==
    /\ today = 1
    /\ optedOut = {}
    /\ nCampaigns = 0
    /\ cstatus = [k \in Campaign |-> "none"]
    /\ arm = NoMember("none")
    /\ assigned = [k \in Campaign |-> Never]
    /\ exposure = NoMember(Never)
    /\ row = NoMember("none")
    /\ window = NoMember(Never)
    /\ inFile = [k \in Campaign |-> {}]
    /\ got = NoMember(0)
    /\ unreported = NoMember(0)
    /\ lastSms = [c \in Customers |-> Never]

(* Mistake: the gate is left to the export, the customers are drawn without. *)
UngatedCreateMistake(M, C, outbox) ==
    LET k == nCampaigns + 1 IN
    /\ nCampaigns < MaxCampaigns
    /\ M # {}
    /\ nCampaigns' = k
    /\ cstatus' = [cstatus EXCEPT ![k] = "running"]
    /\ arm' = [arm EXCEPT ![k] = [c \in Customers |->
                   IF c \in C THEN "control" ELSE IF c \in M THEN "treatment" ELSE "none"]]
    /\ assigned' = [assigned EXCEPT ![k] = today]
    /\ UNCHANGED <<today, optedOut, window, exposure, row, inFile, got, unreported, lastSms>>

(* create_campaign.  M are the customers of the open opportunities left     *)
(* after the gate and the limit; outbox is what recent_contact_customer_ids *)
(* of the legacy send history answered (nothing when it could not be read). *)
CreateCampaign(M, C, outbox) ==
    LET k == nCampaigns + 1 IN
    /\ nCampaigns < MaxCampaigns
    /\ M # {}
    /\ M \cap (Blocked \cup RecentlyExposed \cup outbox) = {}
    /\ nCampaigns' = k
    /\ cstatus' = [cstatus EXCEPT ![k] = "running"]
    /\ arm' = [arm EXCEPT ![k] = [c \in Customers |->
                   IF c \in C THEN "control" ELSE IF c \in M THEN "treatment" ELSE "none"]]
    /\ assigned' = [assigned EXCEPT ![k] = today]
    /\ UNCHANGED <<today, optedOut, window, exposure, row, inFile, got, unreported, lastSms>>

Treatment(k) == {c \in Customers : arm[k][c] = "treatment"}

(* Mistake: the last contact is stamped. *)
RestampMistake(k, S) ==
    [exposure EXCEPT ![k] = [c \in Customers |-> IF c \in S THEN today ELSE exposure[k][c]]]

(* Only the first contact is stamped: the outcome window starts there. *)
Stamped(k, S) ==
    [exposure EXCEPT ![k] = [c \in Customers |->
        IF c \in S /\ exposure[k][c] = Never THEN today ELSE exposure[k][c]]]

(* export_campaign: the whole treatment arm but those the gate keeps out.   *)
(* Neither closing nor an earlier SMS stops it.  Whoever is listed is       *)
(* stamped, also without a phone to call, and the stamps are committed      *)
(* before the workbook is on its way.                                       *)
ExportCampaign(k) ==
    LET M == Treatment(k) \ Blocked IN
    /\ k \in Created
    /\ M # {}
    /\ exposure' = Stamped(k, M)
    /\ inFile' = [inFile EXCEPT ![k] = inFile[k] \cup M]
    /\ UNCHANGED <<today, optedOut, nCampaigns, cstatus, window,
                   arm, assigned, row, got, unreported, lastSms>>

(* Mistake: the rows of earlier sends are not consulted. *)
ForgetfulPendingMistake(k) == Treatment(k)

(* The treatment arm without the rows that say "sent", whoever sent them. *)
Pending(k) == {c \in Treatment(k) : row[k][c] \notin {"sent", "preview"}}

(* Mistake: the gate is not asked at the send. *)
UngatedSendMistake(k) == Pending(k)

Screened(k) == Pending(k) \ Blocked

(* Members of one send: some of the screened ones, by the request's limit;  *)
(* the query has no order, so which ones is open.                           *)
Batch(k, P) == Running(k) /\ P # {} /\ P \subseteq Screened(k)

(* What becomes of one draft.  "skipped": no phone, no text, or a text that *)
(* needs an approved offer.  "lost": the panel took the message but its     *)
(* answer did not come back, so the provider reports an error.              *)
Answers == {"skipped", "ok", "rejected", "lost"}
(* Mistakes: the provider's own word as the status; every answer a success. *)
RawStatusMistake(answer) == answer
AlwaysSentMistake(answer) == IF answer = "skipped" THEN "skipped" ELSE "sent"

RowOf(answer) ==
    IF answer = "skipped" THEN "skipped" ELSE IF answer = "ok" THEN "sent" ELSE "failed"

(* Messages delivered to the members in S; those in L nobody knows about. *)
Delivered(k, S, L) ==
    /\ got' = [got EXCEPT ![k] = [c \in Customers |->
                   IF c \in S THEN got[k][c] + 1 ELSE got[k][c]]]
    /\ unreported' = [unreported EXCEPT ![k] = [c \in Customers |->
                   IF c \in L THEN unreported[k][c] + 1 ELSE unreported[k][c]]]
    /\ lastSms' = [c \in Customers |-> IF c \in S THEN today ELSE lastSms[c]]

(* send_campaign_sms for real: the panel is asked message by message, then  *)
(* the rows are written and the successful ones stamped.                    *)
SendCampaignSms(k, P, answer) ==
    LET ok == {c \in P : answer[c] = "ok"}
        lost == {c \in P : answer[c] = "lost"} IN
    /\ Batch(k, P)
    /\ \A c \in lost : unreported[k][c] < MaxUnreported
    /\ row' = [row EXCEPT ![k] = [c \in Customers |->
                  IF c \in P THEN RowOf(answer[c]) ELSE row[k][c]]]
    /\ exposure' = Stamped(k, ok)
    /\ Delivered(k, ok \cup lost, lost)
    /\ UNCHANGED <<today, optedOut, nCampaigns, cstatus, window, arm, assigned, inFile>>

(* The same request as a preview (dry_run, no confirm, or no panel set up): *)
(* every sendable member S of the batch gets a row with STATUS_SENT.        *)
PreviewCampaignSms(k, P, S) ==
    /\ Batch(k, P)
    /\ row' = [row EXCEPT ![k] = [c \in Customers |->
                  IF c \in S THEN "preview" ELSE IF c \in P THEN "skipped" ELSE row[k][c]]]
    /\ UNCHANGED <<today, optedOut, nCampaigns, cstatus, window,
                   arm, assigned, exposure, inFile, got, unreported, lastSms>>

(* The process dies, or the transaction fails, after the panel took the     *)
(* messages of S: the rows are rolled back, the messages are not.           *)
CrashInSend(k, P, S) ==
    /\ Batch(k, P)
    /\ S # {} /\ S \subseteq P
    /\ \A c \in S : unreported[k][c] < MaxUnreported
    /\ Delivered(k, S, S)
    /\ UNCHANGED <<today, optedOut, nCampaigns, cstatus, window,
                   arm, assigned, exposure, row, inFile>>

(* close_campaign. *)
CloseCampaign(k) ==
    /\ k \in Created
    /\ cstatus' = [cstatus EXCEPT ![k] = "closed"]
    /\ UNCHANGED <<today, optedOut, nCampaigns, window, contactVars>>

(* Mistake: every member is measured. *)
AllActiveMistake(k) == {c \in Customers : arm[k][c] # "none"}

(* The members whose measurement has started, and where it starts. *)
Active(k) == {c \in Customers : arm[k][c] = "control" \/ exposure[k][c] # Never}
Anchor(k, c) == IF exposure[k][c] # Never THEN exposure[k][c] ELSE assigned[k]

(* Mistake: closed campaigns are measured on. *)
MeasureClosedMistake ==
    /\ window' = [k \in Campaign |-> [c \in Customers |->
            IF c \in Active(k) THEN Anchor(k, c) ELSE window[k][c]]]
    /\ UNCHANGED <<today, optedOut, nCampaigns, cstatus, contactVars>>

(* compute_campaign_outcomes: the snapshot of every campaign not closed. *)
ComputeOutcomes ==
    /\ window' = [k \in Campaign |-> [c \in Customers |->
            IF Running(k) /\ c \in Active(k) THEN Anchor(k, c) ELSE window[k][c]]]
    /\ UNCHANGED <<today, optedOut, nCampaigns, cstatus, contactVars>>

(* record_opt_out and revoke_opt_out of one customer. *)
OptOut(c) ==
    /\ optedOut' = optedOut \cup {c}
    /\ UNCHANGED <<today, nCampaigns, cstatus, window, contactVars>>

RevokeOptOut(c) ==
    /\ c \in optedOut
    /\ optedOut' = optedOut \ {c}
    /\ UNCHANGED <<today, nCampaigns, cstatus, window, contactVars>>

NextDay ==
    /\ today < MaxDay
    /\ today' = today + 1
    /\ UNCHANGED <<optedOut, nCampaigns, cstatus, window, contactVars>>

CreateSome(outbox) ==
    \E M \in SUBSET Customers, h \in Holdouts :
        \E C \in ControlArms(M, Stratum, h) : CreateCampaign(M, C, outbox)

CampaignStep(k) ==
    \/ ExportCampaign(k)
    \/ CloseCampaign(k)
    \/ \E P \in SUBSET Customers :
           \/ \E answer \in [P -> Answers] : SendCampaignSms(k, P, answer)
           \/ \E S \in SUBSET P : PreviewCampaignSms(k, P, S)
           \/ \E S \in SUBSET P : CrashInSend(k, P, S)

(* Every request and job that touches campaigns. *)
Operations(outbox) ==
    \/ CreateSome(outbox)
    \/ \E k \in Campaign : CampaignStep(k)
    \/ ComputeOutcomes
    \/ \E c \in Customers : OptOut(c) \/ RevokeOptOut(c)

(* Whom the outbox names besides the customers the gate already knows only  *)
(* makes M smaller, and M is any set: the empty answer covers the others.   *)
Next == Operations({}) \/ NextDay

Spec == Init /\ [][Next]_vars

-----------------------------------------------------------------------------
(* Types of the rows and columns, and of the history. *)
TypeOK ==
    /\ today \in Nat \ {Never}
    /\ optedOut \in SUBSET Customers
    /\ nCampaigns \in 0..MaxCampaigns
    /\ cstatus \in [Campaign -> {"none", "running", "closed"}]
    /\ arm \in [Campaign -> [Customers -> {"none", "control", "treatment"}]]
    /\ assigned \in [Campaign -> Nat]
    /\ exposure \in [Campaign -> [Customers -> Nat]]
    /\ row \in [Campaign -> [Customers -> RowStates]]
    /\ window \in [Campaign -> [Customers -> Nat]]
    /\ inFile \in [Campaign -> SUBSET Customers]
    /\ got \in [Campaign -> [Customers -> Nat]]
    /\ unreported \in [Campaign -> [Customers -> Nat]]
    /\ lastSms \in [Customers -> Nat]

(* The control arm stays clean: while a campaign runs, none of its control  *)
(* members has a contact stamped, by any campaign, from the fatigue window  *)
(* before the assignment onwards.  Two campaigns must interleave to break   *)
(* this, one created before the other contacts (create's gate) or after it  *)
(* (the gate of export and send).                                           *)
CleanControl ==
    \A k, j \in Campaign, c \in Customers :
        Running(k) /\ arm[k][c] = "control" /\ exposure[j][c] # Never
            => exposure[j][c] + FatigueDays <= assigned[k]

(* The same for what the customer really received: no SMS of any campaign   *)
(* reaches a control member of a running campaign after its assignment,     *)
(* also when the answer of the panel is lost or the sender dies.            *)
ControlGetsNoSms ==
    \A k \in Campaign, c \in Customers :
        Running(k) /\ arm[k][c] = "control" => lastSms[c] <= assigned[k]

(* A customer kept as control is in no later campaign while the first runs, *)
(* and at most in the treatment arm of an earlier one: it is never control  *)
(* twice at a time.                                                         *)
ControlIsExclusive ==
    \A k, j \in Campaign, c \in Customers :
        Running(k) /\ arm[k][c] = "control" /\ j # k /\ Running(j) /\ arm[j][c] # "none"
            => j < k /\ arm[j][c] = "treatment"

(* Nobody is contacted against the contact gate, and nobody by a campaign   *)
(* it is no treatment member of: at the moment an export lists a customer   *)
(* or a message reaches one, the customer has not opted out and is no       *)
(* control member of a running campaign, this one or another.               *)
ContactedNow(k, c) == got'[k][c] # got[k][c] \/ c \in inFile'[k] \ inFile[k]
GateAtContact ==
    [][\A k \in Campaign, c \in Customers :
          ContactedNow(k, c) => c \notin Blocked /\ arm[k][c] = "treatment"]_vars

(* "A second send is impossible", as far as the program can know: a member  *)
(* receives one SMS more than those whose acceptance was never reported.    *)
(* The row of a delivered message is never lost or overwritten.             *)
SmsAccounted ==
    \A k \in Campaign, c \in Customers :
        got[k][c] = unreported[k][c] + (IF row[k][c] = "sent" THEN 1 ELSE 0)

(* A stamp means a contact and a known contact has its stamp: the exposure  *)
(* of a member is set iff an export listed it or a delivery was reported.   *)
(* A preview stamps nothing.                                                *)
ExposureIffContact ==
    \A k \in Campaign, c \in Customers :
        exposure[k][c] # Never <=> c \in inFile[k] \/ row[k][c] = "sent"

(* A treatment member enters the denominator only after its contact, and    *)
(* the day it is measured from is the day of the contact.                   *)
MeasuredFromContact ==
    \A k \in Campaign, c \in Customers :
        window[k][c] # Never =>
            /\ arm[k][c] = "treatment" => window[k][c] = exposure[k][c]
            /\ arm[k][c] = "control" => window[k][c] = assigned[k]

(* A holdout never leaves a stratum without anybody to contact: wherever a  *)
(* campaign has members, it has treatment members.                          *)
TreatmentInEveryStratum ==
    \A k \in Created : \A s \in {Stratum[c] : c \in Customers} :
        LET M == {c \in Customers : Stratum[c] = s /\ arm[k][c] # "none"} IN
        M # {} => M \cap Treatment(k) # {}

(* The record of a campaign is true to what happened: every SMS beyond the   *)
(* one on record is one whose acceptance was lost, a stamp stands for a      *)
(* contact, and a member is measured from the day of its contact.            *)
HistoryIsTrue == SmsAccounted /\ ExposureIffContact /\ MeasuredFromContact

(* While a campaign runs its control arm is untouched: no stamp, no SMS, no  *)
(* place in the control arm of another campaign.                             *)
ControlIsClean == CleanControl /\ ControlGetsNoSms /\ ControlIsExclusive

(* A measurement that has begun keeps its window: neither a second export,  *)
(* an SMS after the export, a contact after closing, nor a later snapshot   *)
(* moves the start a member is measured from; and closing ends it, though   *)
(* the campaign may still be exported.                                      *)
MeasurementStands ==
    [][/\ \A k \in Campaign, c \in Customers :
            window[k][c] # Never => window'[k][c] = window[k][c]
       /\ \A k \in Campaign : cstatus[k] = "closed" =>
            cstatus'[k] = "closed" /\ window'[k] = window[k]]_vars

-----------------------------------------------------------------------------
(* What makes the above inductive.                                          *)

(* Members belong to campaigns that were created. *)
MembersOfCreated ==
    \A k \in Campaign, c \in Customers : arm[k][c] # "none" => k \in Created

(* No message is from the future. *)
SmsInPast == \A c \in Customers : lastSms[c] <= today

(* Only treatment members are stamped; only members are measured. *)
OnlyTreatmentStamped ==
    \A k \in Campaign, c \in Customers :
        /\ exposure[k][c] # Never => arm[k][c] = "treatment"
        /\ window[k][c] # Never => arm[k][c] # "none"

(* The inductive invariant. *)
ContactInv ==
    /\ TypeOK
    /\ MembersOfCreated
    /\ SmsInPast
    /\ OnlyTreatmentStamped
    /\ CleanControl
    /\ ControlGetsNoSms
    /\ ControlIsExclusive
    /\ SmsAccounted
    /\ ExposureIffContact
    /\ MeasuredFromContact

-----------------------------------------------------------------------------
(* A statement of the code's comments that the code does not meet.          *)

(* "Only a successful send blocks another attempt": a treatment member that *)
(* received nothing and is not held back by the gate can still be sent to.  *)
OnlyDeliveryBlocks ==
    \A k \in Campaign, c \in Customers :
        Running(k) /\ c \in Treatment(k) \ Blocked /\ got[k][c] = 0 => c \in Screened(k)
=============================================================================
