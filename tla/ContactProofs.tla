---------------------------- MODULE ContactProofs ----------------------------
(***************************************************************************)
(* What holds of campaigns and their contacts for any customers, strata,   *)
(* holdouts, fatigue window and number of campaigns, days and losses; then *)
(* of the older half of the application: of the reminder scan and the bulk *)
(* text beside the campaigns, for any requests, windows and crashes, and   *)
(* of the sessions' jobs, for any sessions, jobs and deaths of the server. *)
(***************************************************************************)
EXTENDS MCLegacyApp, FiniteSetTheorems, SequenceTheorems, TLAPS

(* The next campaign's id is an id.                                          *)
LEMMA NextCampaign ==
    ASSUME TypeOK, nCampaigns < MaxCampaigns
    PROVE  nCampaigns + 1 \in Campaign /\ nCampaigns + 1 \in 0..MaxCampaigns
  BY ContactAssumption DEF TypeOK, Campaign

(* Ids of created campaigns are ids.                                         *)
LEMMA CreatedCampaigns == TypeOK => Created \subseteq Campaign
  BY ContactAssumption DEF TypeOK, Created, Campaign

(* A stamp is a day, for every set of members contacted.                     *)
LEMMA StampedType ==
    ASSUME TypeOK, NEW k, NEW S
    PROVE  Stamped(k, S) \in [Campaign -> [Customers -> Nat]]
  BY DEF TypeOK, Stamped

(* A row gets one of the four states.                                        *)
LEMMA RowOfType == \A answer \in Answers : RowOf(answer) \in RowStates
  BY DEF Answers, RowOf, RowStates

(* Counting deliveries keeps the ghosts' types.                              *)
LEMMA DeliveredType ==
    ASSUME TypeOK, NEW k, NEW S, NEW L, Delivered(k, S, L)
    PROVE  /\ got' \in [Campaign -> [Customers -> Nat]]
           /\ unreported' \in [Campaign -> [Customers -> Nat]]
           /\ lastSms' \in [Customers -> Nat]
<1>1. \A j \in Campaign, c \in Customers : got[j][c] + 1 \in Nat /\ unreported[j][c] + 1 \in Nat
  BY DEF TypeOK
<1> QED
  BY <1>1 DEF TypeOK, Delivered

(* The initial state is well typed.                                          *)
LEMMA InitTypeOK == Init => TypeOK
  BY ContactAssumption DEF Init, TypeOK, NoMember, Never, RowStates

(* Every step of Next is one of the operations with its parameters in range. *)
LEMMA TypeOKStep == TypeOK /\ [Next]_vars => TypeOK'
<1> SUFFICES ASSUME TypeOK, [Next]_vars PROVE TypeOK'
  OBVIOUS
<1>1. CASE CreateSome({})
  <2>1. PICK M \in SUBSET Customers, h \in Holdouts :
            \E C \in ControlArms(M, Stratum, h) : CreateCampaign(M, C, {})
    BY <1>1 DEF CreateSome
  <2>2. PICK C \in ControlArms(M, Stratum, h) : CreateCampaign(M, C, {})
    BY <2>1
  <2>3. arm' \in [Campaign -> [Customers -> {"none", "control", "treatment"}]]
    BY <2>2 DEF CreateCampaign, TypeOK
  <2>4. /\ cstatus' \in [Campaign -> {"none", "running", "closed"}]
        /\ assigned' \in [Campaign -> Nat]
        /\ nCampaigns' \in 0..MaxCampaigns
    BY <2>2, NextCampaign DEF CreateCampaign, TypeOK
  <2> QED
    BY <2>2, <2>3, <2>4 DEF CreateCampaign, TypeOK
<1>2. ASSUME NEW k \in Campaign, ExportCampaign(k) PROVE TypeOK'
  <2>1. Treatment(k) \ Blocked \in SUBSET Customers
    BY DEF Treatment
  <2>2. inFile' \in [Campaign -> SUBSET Customers]
    BY <1>2, <2>1 DEF ExportCampaign, TypeOK
  <2> QED
    BY <1>2, <2>2, StampedType DEF ExportCampaign, TypeOK
<1>3. ASSUME NEW k \in Campaign, CloseCampaign(k) PROVE TypeOK'
  BY <1>3 DEF CloseCampaign, contactVars, TypeOK
<1>4. ASSUME NEW k \in Campaign, NEW P \in SUBSET Customers, NEW answer \in [P -> Answers],
             SendCampaignSms(k, P, answer)
      PROVE TypeOK'
  <2>1. row' \in [Campaign -> [Customers -> RowStates]]
    BY <1>4, RowOfType DEF SendCampaignSms, TypeOK
  <2>2. exposure' \in [Campaign -> [Customers -> Nat]]
    BY <1>4, StampedType DEF SendCampaignSms
  <2> QED
    BY <1>4, <2>1, <2>2, DeliveredType DEF SendCampaignSms, TypeOK
<1>5. ASSUME NEW k \in Campaign, NEW P \in SUBSET Customers, NEW S \in SUBSET P,
             PreviewCampaignSms(k, P, S)
      PROVE TypeOK'
  BY <1>5 DEF PreviewCampaignSms, TypeOK, RowStates
<1>6. ASSUME NEW k \in Campaign, NEW P \in SUBSET Customers, NEW S \in SUBSET P,
             CrashInSend(k, P, S)
      PROVE TypeOK'
  BY <1>6, DeliveredType DEF CrashInSend, TypeOK
<1>7. CASE ComputeOutcomes
  <2>1. \A k \in Campaign, c \in Customers : Anchor(k, c) \in Nat
    BY DEF Anchor, TypeOK
  <2>2. window' \in [Campaign -> [Customers -> Nat]]
    BY <1>7, <2>1 DEF ComputeOutcomes, TypeOK
  <2> QED
    BY <1>7, <2>2 DEF ComputeOutcomes, contactVars, TypeOK
<1>8. ASSUME NEW c \in Customers, OptOut(c) \/ RevokeOptOut(c) PROVE TypeOK'
  BY <1>8 DEF OptOut, RevokeOptOut, contactVars, TypeOK
<1>9. CASE NextDay
  BY <1>9 DEF NextDay, contactVars, TypeOK, Never
<1>10. CASE UNCHANGED vars
  BY <1>10 DEF vars, contactVars, TypeOK
<1> QED
  BY <1>1, <1>2, <1>3, <1>4, <1>5, <1>6, <1>7, <1>8, <1>9, <1>10 DEF Next, Operations, CampaignStep

(* Type correctness of the campaign tables and the contact history.          *)
THEOREM TypeCorrect == Spec => []TypeOK
  BY InitTypeOK, TypeOKStep, PTL DEF Spec

-----------------------------------------------------------------------------
(* Everything but the types, which TypeOKStep covers.                        *)
Contacts ==
    /\ MembersOfCreated
    /\ SmsInPast
    /\ OnlyTreatmentStamped
    /\ CleanControl
    /\ ControlGetsNoSms
    /\ ControlIsExclusive
    /\ SmsAccounted
    /\ ExposureIffContact
    /\ MeasuredFromContact

(* The parts of the invariant hold before the first campaign.                *)
LEMMA InitContacts == Init => Contacts
  BY DEF Init, NoMember, Contacts, MembersOfCreated, SmsInPast, OnlyTreatmentStamped,
         CleanControl, ControlGetsNoSms, ControlIsExclusive, SmsAccounted,
         ExposureIffContact, MeasuredFromContact, Never, Running

(* A new campaign: its members come through the gate, so none is control     *)
(* elsewhere, and none was stamped inside the window.                        *)
LEMMA CreateContacts ==
    ASSUME TypeOK, TypeOK', Contacts, NEW M \in SUBSET Customers, NEW C \in SUBSET M,
           CreateCampaign(M, C, {})
    PROVE  Contacts'
<1> DEFINE n == nCampaigns + 1
<1> USE DEF Contacts, Never
<1>1. /\ n \in Campaign /\ n \notin Created /\ Created' = Created \cup {n}
      /\ \A k \in Created : k < n
  <2>1. nCampaigns \in Nat /\ nCampaigns' = n /\ n \in Campaign
    BY ContactAssumption, NextCampaign DEF CreateCampaign, TypeOK
  <2>2. n \notin Created /\ \A k \in Created : k < n
    BY <2>1 DEF Created
  <2>3. Created' = Created \cup {n}
    BY <2>1 DEF Created
  <2> QED
    BY <2>1, <2>2, <2>3
<1>2. /\ cstatus'[n] = "running" /\ assigned'[n] = today
      /\ \A c \in Customers : arm'[n][c] =
             IF c \in C THEN "control" ELSE IF c \in M THEN "treatment" ELSE "none"
      /\ \A k \in Campaign \ {n} :
             cstatus'[k] = cstatus[k] /\ assigned'[k] = assigned[k] /\ arm'[k] = arm[k]
      /\ UNCHANGED <<today, window, exposure, row, inFile, got, unreported, lastSms>>
  BY <1>1 DEF CreateCampaign, TypeOK
<1>3. \A c \in Customers : arm[n][c] = "none" /\ exposure[n][c] = Never /\ window[n][c] = Never
  BY <1>1 DEF MembersOfCreated, OnlyTreatmentStamped
<1>4. \A c \in M : /\ \A k \in Campaign : ~(Running(k) /\ arm[k][c] = "control")
                   /\ \A k \in Campaign : exposure[k][c] # Never =>
                                              exposure[k][c] + FatigueDays <= today
  <2>1. \A c \in M : c \notin ControlOfRunning /\ c \notin RecentlyExposed
    BY DEF CreateCampaign, Blocked
  <2> QED
    BY <2>1, ContactAssumption DEF ControlOfRunning, RecentlyExposed, TypeOK
<1> HIDE DEF n
<1>5. MembersOfCreated' /\ SmsInPast' /\ OnlyTreatmentStamped'
  BY <1>1, <1>2, <1>3 DEF MembersOfCreated, SmsInPast, OnlyTreatmentStamped
<1>6. CleanControl'
  BY <1>1, <1>2, <1>4 DEF CleanControl, Running
<1>7. ControlGetsNoSms'
  BY <1>1, <1>2 DEF ControlGetsNoSms, Running, SmsInPast
<1>8. ControlIsExclusive'
  <2> SUFFICES ASSUME NEW k \in Campaign, NEW j \in Campaign, NEW c \in Customers,
                      Running(k)', arm'[k][c] = "control", j # k, Running(j)', arm'[j][c] # "none"
               PROVE  j < k /\ arm'[j][c] = "treatment"
    BY DEF ControlIsExclusive
  <2>1. CASE k = n
    <3>1. c \in M /\ j \in Created /\ arm[j][c] # "control" /\ arm[j][c] # "none" /\ arm'[j] = arm[j]
      BY <1>1, <1>2, <1>4, <2>1 DEF MembersOfCreated, Running
    <3> QED
      BY <1>1, <2>1, <3>1 DEF TypeOK
  <2>2. CASE j = n
    BY <1>1, <1>2, <1>4, <2>2 DEF Running
  <2>3. CASE k # n /\ j # n
    BY <1>2, <2>3 DEF ControlIsExclusive, Running
  <2> QED
    BY <2>1, <2>2, <2>3
<1>9. SmsAccounted' /\ ExposureIffContact'
  BY <1>2 DEF SmsAccounted, ExposureIffContact
<1>10. MeasuredFromContact'
  BY <1>1, <1>2, <1>3 DEF MeasuredFromContact
<1> QED
  BY <1>5, <1>6, <1>7, <1>8, <1>9, <1>10

(* A stamp on treatment members the gate let through leaves every control    *)
(* arm clean, and never replaces an earlier stamp.                           *)
LEMMA StampContacts ==
    ASSUME TypeOK, Contacts, NEW k \in Campaign, NEW S \in SUBSET (Treatment(k) \ Blocked),
           exposure' = Stamped(k, S),
           UNCHANGED <<today, nCampaigns, cstatus, window, arm, assigned>>
    PROVE  /\ MembersOfCreated' /\ OnlyTreatmentStamped' /\ CleanControl'
           /\ ControlIsExclusive' /\ MeasuredFromContact'
           /\ \A j \in Campaign, c \in Customers :
                 exposure'[j][c] # Never <=> exposure[j][c] # Never \/ (j = k /\ c \in S)
<1> USE DEF Contacts, Never
<1>1. \A j \in Campaign, c \in Customers :
        exposure'[j][c] = IF j = k /\ c \in S /\ exposure[j][c] = Never
                          THEN today ELSE exposure[j][c]
  BY DEF Stamped, TypeOK
<1>2. today # Never
  BY DEF TypeOK
<1>3. \A c \in S : c \in Customers /\ arm[k][c] = "treatment"
                  /\ \A j \in Campaign : ~(Running(j) /\ arm[j][c] = "control")
  BY DEF Treatment, Blocked, ControlOfRunning
<1>4. MembersOfCreated' /\ ControlIsExclusive'
  BY DEF MembersOfCreated, ControlIsExclusive, Created, Running
<1>5. OnlyTreatmentStamped' /\ MeasuredFromContact'
  BY <1>1, <1>3 DEF OnlyTreatmentStamped, MeasuredFromContact
<1>6. CleanControl'
  BY <1>1, <1>3 DEF CleanControl, Running
<1> QED
  BY <1>1, <1>2, <1>4, <1>5, <1>6

(* A delivery to members the gate let through reaches no control arm.        *)
LEMMA DeliveredContacts ==
    ASSUME TypeOK, Contacts, NEW k \in Campaign, NEW S \in SUBSET Screened(k), NEW L,
           Delivered(k, S, L), UNCHANGED <<today, cstatus, arm, assigned>>
    PROVE  SmsInPast' /\ ControlGetsNoSms'
<1> USE DEF Contacts
<1>1. \A c \in Customers : lastSms'[c] = IF c \in S THEN today ELSE lastSms[c]
  BY DEF Delivered
<1>2. \A c \in S : \A j \in Campaign : ~(Running(j) /\ arm[j][c] = "control")
  BY DEF Screened, Pending, Treatment, Blocked, ControlOfRunning
<1>3. SmsInPast'
  <2>1. today \in Nat /\ today' = today
    BY DEF TypeOK
  <2> QED
    BY <1>1, <2>1 DEF SmsInPast
<1>4. ControlGetsNoSms'
  BY <1>1, <1>2 DEF ControlGetsNoSms, Running
<1> QED
  BY <1>3, <1>4

(* The export.                                                               *)
LEMMA ExportContacts ==
    ASSUME TypeOK, Contacts, NEW k \in Campaign, ExportCampaign(k)
    PROVE  Contacts'
<1> DEFINE M == Treatment(k) \ Blocked
<1>1. /\ MembersOfCreated' /\ OnlyTreatmentStamped' /\ CleanControl'
      /\ ControlIsExclusive' /\ MeasuredFromContact'
      /\ \A j \in Campaign, c \in Customers :
            exposure'[j][c] # Never <=> exposure[j][c] # Never \/ (j = k /\ c \in M)
  BY StampContacts DEF ExportCampaign
<1>2. SmsInPast' /\ ControlGetsNoSms' /\ SmsAccounted'
  BY DEF Contacts, ExportCampaign, SmsInPast, ControlGetsNoSms, SmsAccounted, Running
<1>3. ExposureIffContact'
  <2>1. \A j \in Campaign, c \in Customers :
            c \in inFile'[j] <=> c \in inFile[j] \/ (j = k /\ c \in M)
    BY DEF ExportCampaign, TypeOK
  <2>2. row' = row
    BY DEF ExportCampaign
  <2> QED
    BY <1>1, <2>1, <2>2 DEF Contacts, ExposureIffContact
<1> QED
  BY <1>1, <1>2, <1>3 DEF Contacts

(* The real send: a member with a reported delivery is not asked for again,  *)
(* so its row stays and its deliveries stay counted.                         *)
LEMMA SendContacts ==
    ASSUME TypeOK, Contacts, NEW k \in Campaign, NEW P \in SUBSET Customers,
           NEW answer \in [P -> Answers], SendCampaignSms(k, P, answer)
    PROVE  Contacts'
<1> DEFINE ok == {c \in P : answer[c] = "ok"}
           unheard == {c \in P : answer[c] = "lost"}
<1>1. /\ P \subseteq Screened(k)
      /\ ok \in SUBSET (Treatment(k) \ Blocked) /\ ok \cup unheard \in SUBSET Screened(k)
      /\ \A c \in P : row[k][c] # "sent"
  BY DEF SendCampaignSms, Batch, Screened, Pending
<1>2. /\ MembersOfCreated' /\ OnlyTreatmentStamped' /\ CleanControl'
      /\ ControlIsExclusive' /\ MeasuredFromContact'
      /\ \A j \in Campaign, c \in Customers :
            exposure'[j][c] # Never <=> exposure[j][c] # Never \/ (j = k /\ c \in ok)
  BY <1>1, StampContacts DEF SendCampaignSms
<1>3. SmsInPast' /\ ControlGetsNoSms'
  BY <1>1, DeliveredContacts DEF SendCampaignSms
<1>4. \A j \in Campaign, c \in Customers :
        /\ row'[j][c] = IF j = k /\ c \in P THEN RowOf(answer[c]) ELSE row[j][c]
        /\ got'[j][c] = IF j = k /\ c \in ok \cup unheard THEN got[j][c] + 1 ELSE got[j][c]
        /\ unreported'[j][c] = IF j = k /\ c \in unheard THEN unreported[j][c] + 1
                                                      ELSE unreported[j][c]
        /\ inFile' = inFile
  BY DEF SendCampaignSms, Delivered, TypeOK
<1>5. \A c \in P : /\ RowOf(answer[c]) = "sent" <=> c \in ok
                   /\ ~(c \in ok /\ c \in unheard)
  BY DEF RowOf
<1>6. \A j \in Campaign, c \in Customers :
        row'[j][c] = "sent" <=> row[j][c] = "sent" \/ (j = k /\ c \in ok)
  BY <1>1, <1>4, <1>5
<1>7. SmsAccounted'
  <2> SUFFICES ASSUME NEW j \in Campaign, NEW c \in Customers
               PROVE  got'[j][c] = unreported'[j][c] + (IF row'[j][c] = "sent" THEN 1 ELSE 0)
    BY DEF SmsAccounted
  <2>1. /\ got[j][c] = unreported[j][c] + (IF row[j][c] = "sent" THEN 1 ELSE 0)
        /\ got[j][c] \in Nat /\ unreported[j][c] \in Nat
    BY DEF Contacts, SmsAccounted, TypeOK
  <2>2. CASE j = k /\ c \in ok
    BY <1>1, <1>4, <1>5, <1>6, <2>1, <2>2
  <2>3. CASE j = k /\ c \in unheard
    BY <1>1, <1>4, <1>5, <1>6, <2>1, <2>3
  <2>4. CASE ~(j = k /\ c \in ok \cup unheard)
    BY <1>4, <1>6, <2>1, <2>4
  <2> QED
    BY <2>2, <2>3, <2>4
<1>8. ExposureIffContact'
  BY <1>2, <1>4, <1>6 DEF Contacts, ExposureIffContact
<1> QED
  BY <1>2, <1>3, <1>7, <1>8 DEF Contacts

(* A preview writes rows of members that have none with a delivery.          *)
LEMMA PreviewContacts ==
    ASSUME TypeOK, Contacts, NEW k \in Campaign, NEW P \in SUBSET Customers,
           NEW S \in SUBSET P, PreviewCampaignSms(k, P, S)
    PROVE  Contacts'
<1>1. \A c \in P : row[k][c] # "sent"
  BY DEF PreviewCampaignSms, Batch, Screened, Pending
<1>2. \A j \in Campaign, c \in Customers : row'[j][c] = "sent" <=> row[j][c] = "sent"
  BY <1>1 DEF PreviewCampaignSms, TypeOK
<1>3. SmsAccounted' /\ ExposureIffContact'
  BY <1>2 DEF Contacts, PreviewCampaignSms, SmsAccounted, ExposureIffContact
<1> QED
  BY <1>3 DEF Contacts, PreviewCampaignSms, MembersOfCreated, SmsInPast, OnlyTreatmentStamped,
              CleanControl, ControlGetsNoSms, ControlIsExclusive, MeasuredFromContact,
              Created, Running

(* A crash leaves deliveries no row tells of, all of them unreported.        *)
LEMMA CrashContacts ==
    ASSUME TypeOK, Contacts, NEW k \in Campaign, NEW P \in SUBSET Customers,
           NEW S \in SUBSET P, CrashInSend(k, P, S)
    PROVE  Contacts'
<1>1. S \in SUBSET Screened(k)
  BY DEF CrashInSend, Batch
<1>2. SmsInPast' /\ ControlGetsNoSms'
  BY <1>1, DeliveredContacts DEF CrashInSend
<1>3. SmsAccounted'
  BY DEF Contacts, CrashInSend, Delivered, SmsAccounted, TypeOK
<1> QED
  BY <1>2, <1>3 DEF Contacts, CrashInSend, MembersOfCreated, OnlyTreatmentStamped, CleanControl,
                    ControlIsExclusive, ExposureIffContact, MeasuredFromContact, Created, Running

(* Closing only makes fewer campaigns run.                                   *)
LEMMA CloseContacts ==
    ASSUME TypeOK, Contacts, NEW k \in Campaign, CloseCampaign(k)
    PROVE  Contacts'
<1>1. \A j \in Campaign : Running(j)' => Running(j)
  BY DEF CloseCampaign, TypeOK, Running
<1> QED
  BY <1>1 DEF Contacts, CloseCampaign, contactVars, MembersOfCreated, SmsInPast,
              OnlyTreatmentStamped, CleanControl, ControlGetsNoSms, ControlIsExclusive,
              SmsAccounted, ExposureIffContact, MeasuredFromContact, Created

(* The snapshot measures members from their anchor.                          *)
LEMMA OutcomesContacts ==
    ASSUME TypeOK, Contacts, ComputeOutcomes
    PROVE  Contacts'
<1>1. \A k \in Campaign, c \in Customers :
        window'[k][c] = window[k][c] \/ (c \in Active(k) /\ window'[k][c] = Anchor(k, c))
  BY DEF ComputeOutcomes, TypeOK
<1>2. MeasuredFromContact' /\ OnlyTreatmentStamped'
  BY <1>1 DEF Contacts, ComputeOutcomes, contactVars, MeasuredFromContact, OnlyTreatmentStamped,
              Active, Anchor, Never
<1> QED
  BY <1>2 DEF Contacts, ComputeOutcomes, contactVars, MembersOfCreated, SmsInPast, CleanControl,
              ControlGetsNoSms, ControlIsExclusive, SmsAccounted, ExposureIffContact,
              Created, Running

(* Opt-outs and the calendar touch no campaign table.                        *)
LEMMA OtherContacts ==
    ASSUME TypeOK, Contacts,
           (\E c \in Customers : OptOut(c) \/ RevokeOptOut(c)) \/ NextDay \/ UNCHANGED vars
    PROVE  Contacts'
<1>1. /\ UNCHANGED <<nCampaigns, cstatus, window, contactVars>>
      /\ today' \in Nat /\ today <= today'
  BY DEF OptOut, RevokeOptOut, NextDay, vars, TypeOK
<1>2. SmsInPast'
  BY <1>1 DEF Contacts, SmsInPast, contactVars, TypeOK
<1> QED
  BY <1>1, <1>2 DEF Contacts, contactVars, MembersOfCreated, OnlyTreatmentStamped, CleanControl,
         ControlGetsNoSms, ControlIsExclusive, SmsAccounted, ExposureIffContact,
         MeasuredFromContact, Created, Running

(* Every step keeps the invariant.                                           *)
LEMMA ContactInvStep == ContactInv /\ [Next]_vars => ContactInv'
<1> SUFFICES ASSUME ContactInv, [Next]_vars PROVE ContactInv'
  OBVIOUS
<1>1. TypeOK /\ TypeOK' /\ Contacts
  BY TypeOKStep DEF ContactInv, Contacts
<1>2. CASE CreateSome({})
  <2>1. PICK M \in SUBSET Customers, h \in Holdouts :
            \E C \in ControlArms(M, Stratum, h) : CreateCampaign(M, C, {})
    BY <1>2 DEF CreateSome
  <2>2. PICK C \in SUBSET M : CreateCampaign(M, C, {})
    BY <2>1 DEF ControlArms
  <2> QED
    BY <1>1, <2>2, CreateContacts DEF ContactInv, Contacts
<1>3. ASSUME NEW k \in Campaign, CampaignStep(k) PROVE Contacts'
  BY <1>1, <1>3, ExportContacts, CloseContacts, SendContacts, PreviewContacts, CrashContacts
     DEF CampaignStep
<1>4. CASE ~CreateSome({}) /\ ~(\E k \in Campaign : CampaignStep(k))
  <2>1. \/ ComputeOutcomes
        \/ (\E c \in Customers : OptOut(c) \/ RevokeOptOut(c)) \/ NextDay \/ UNCHANGED vars
    BY <1>4 DEF Next, Operations
  <2> QED
    BY <1>1, <2>1, OutcomesContacts, OtherContacts DEF ContactInv, Contacts
<1> QED
  BY <1>1, <1>2, <1>3, <1>4 DEF ContactInv, Contacts

(* The inductive invariant holds throughout.                                 *)
THEOREM ContactInvariant == Spec => []ContactInv
<1>1. Init => ContactInv
  BY InitTypeOK, InitContacts DEF ContactInv, Contacts
<1> QED
  BY <1>1, ContactInvStep, PTL DEF Spec

(* The control arm of a running campaign is never contacted by another one   *)
(* and nobody is control of two, for any number of campaigns and any order   *)
(* of create, export and send.                                               *)
THEOREM ControlStaysClean == Spec => []ControlIsClean
<1>1. ContactInv => ControlIsClean
  BY DEF ContactInv, ControlIsClean
<1> QED
  BY <1>1, ContactInvariant, PTL

(* The SMS a member received are the one on record and the unreported ones;  *)
(* stamps and measurement windows are true to the contacts.                  *)
THEOREM HistoryRecorded == Spec => []HistoryIsTrue
<1>1. ContactInv => HistoryIsTrue
  BY DEF ContactInv, HistoryIsTrue
<1> QED
  BY <1>1, ContactInvariant, PTL

-----------------------------------------------------------------------------
(* What a step may never do.                                                 *)

(* A closed campaign has been created.                                       *)
ClosedCreated == \A k \in Campaign : cstatus[k] = "closed" => k \in Created

(* New members of a file or receivers of a message, operation by operation.  *)
LEMMA OnlyContactsContact ==
    ASSUME ContactInv, [Next]_vars, NEW k \in Campaign, NEW c \in Customers, ContactedNow(k, c)
    PROVE  c \notin Blocked /\ arm[k][c] = "treatment"
<1>0. TypeOK
  BY DEF ContactInv
<1>1. CASE UNCHANGED <<got, inFile>>
  BY <1>1 DEF ContactedNow
<1>2. ASSUME NEW j \in Campaign, ExportCampaign(j)
      PROVE  c \notin Blocked /\ arm[k][c] = "treatment"
  <2>1. got' = got /\ inFile' = [inFile EXCEPT ![j] = inFile[j] \cup (Treatment(j) \ Blocked)]
    BY <1>2 DEF ExportCampaign
  <2>2. j = k /\ c \in Treatment(j) \ Blocked
    BY <1>0, <2>1 DEF ContactedNow, TypeOK
  <2> QED
    BY <2>2 DEF Treatment
<1>3. ASSUME NEW j \in Campaign, NEW P \in SUBSET Customers, NEW S \in SUBSET P, NEW L,
             Batch(j, P), Delivered(j, S, L), inFile' = inFile
      PROVE  c \notin Blocked /\ arm[k][c] = "treatment"
  <2>1. j = k /\ c \in S
    BY <1>0, <1>3 DEF ContactedNow, Delivered, TypeOK
  <2> QED
    BY <1>3, <2>1 DEF Batch, Screened, Pending, Treatment
<1>4. ASSUME NEW j \in Campaign, NEW P \in SUBSET Customers, NEW answer \in [P -> Answers],
             SendCampaignSms(j, P, answer)
      PROVE  c \notin Blocked /\ arm[k][c] = "treatment"
  <2> DEFINE ok == {x \in P : answer[x] = "ok"}
             unheard == {x \in P : answer[x] = "lost"}
  <2>1. Batch(j, P) /\ Delivered(j, ok \cup unheard, unheard) /\ inFile' = inFile
    BY <1>4 DEF SendCampaignSms
  <2>2. ok \cup unheard \in SUBSET P
    OBVIOUS
  <2> HIDE DEF ok, unheard
  <2> QED
    BY <1>3, <2>1, <2>2
<1>5. ASSUME NEW j \in Campaign, NEW P \in SUBSET Customers, NEW S \in SUBSET P, CrashInSend(j, P, S)
      PROVE  c \notin Blocked /\ arm[k][c] = "treatment"
  BY <1>3, <1>5 DEF CrashInSend
<1>6. ASSUME \/ CreateSome({})
             \/ \E j \in Campaign : \/ CloseCampaign(j)
                                    \/ \E P \in SUBSET Customers : \E S \in SUBSET P :
                                           PreviewCampaignSms(j, P, S)
             \/ ComputeOutcomes
             \/ \E x \in Customers : OptOut(x) \/ RevokeOptOut(x)
             \/ NextDay
             \/ UNCHANGED vars
      PROVE  UNCHANGED <<got, inFile>>
  BY <1>6 DEF CreateSome, CreateCampaign, CloseCampaign, PreviewCampaignSms, ComputeOutcomes,
              OptOut, RevokeOptOut, NextDay, vars, contactVars
<1> QED
  BY <1>1, <1>2, <1>4, <1>5, <1>6 DEF Next, Operations, CampaignStep

(* At the moment of every contact the gate allows it and the member is in    *)
(* the treatment arm: export and send ask again, whatever creation asked.    *)
THEOREM ContactPassesGate == Spec => GateAtContact
<1>1. ContactInv /\ [Next]_vars
        => [\A k \in Campaign, c \in Customers :
               ContactedNow(k, c) => c \notin Blocked /\ arm[k][c] = "treatment"]_vars
  BY OnlyContactsContact
<1> QED
  BY <1>1, ContactInvariant, PTL DEF Spec, GateAtContact

(* What every step of a campaign leaves alone; closing changes its state.    *)
LEMMA CampaignStepFrame ==
    ASSUME NEW k, CampaignStep(k)
    PROVE  /\ today' = today /\ nCampaigns' = nCampaigns /\ arm' = arm /\ window' = window
           /\ \/ cstatus' = cstatus
              \/ k \in Created /\ cstatus' = [cstatus EXCEPT ![k] = "closed"]
<1>1. CASE ExportCampaign(k)
  BY <1>1 DEF ExportCampaign
<1>2. CASE CloseCampaign(k)
  BY <1>2 DEF CloseCampaign, contactVars
<1>3. ASSUME NEW P, NEW answer, SendCampaignSms(k, P, answer)
      PROVE  /\ today' = today /\ nCampaigns' = nCampaigns /\ arm' = arm /\ window' = window
             /\ cstatus' = cstatus
  BY <1>3 DEF SendCampaignSms
<1>4. ASSUME NEW P, NEW S, PreviewCampaignSms(k, P, S)
      PROVE  /\ today' = today /\ nCampaigns' = nCampaigns /\ arm' = arm /\ window' = window
             /\ cstatus' = cstatus
  BY <1>4 DEF PreviewCampaignSms
<1>5. ASSUME NEW P, NEW S, CrashInSend(k, P, S)
      PROVE  /\ today' = today /\ nCampaigns' = nCampaigns /\ arm' = arm /\ window' = window
             /\ cstatus' = cstatus
  BY <1>5 DEF CrashInSend
<1> QED
  BY <1>1, <1>2, <1>3, <1>4, <1>5 DEF CampaignStep

(* So do outcomes, refusals and withdrawals.                                 *)
LEMMA BesideCampaigns ==
    ASSUME ComputeOutcomes \/ \E c \in Customers : OptOut(c) \/ RevokeOptOut(c)
    PROVE  /\ today' = today /\ nCampaigns' = nCampaigns /\ arm' = arm /\ cstatus' = cstatus
           /\ ~ComputeOutcomes => window' = window
<1>1. CASE ComputeOutcomes
  BY <1>1 DEF ComputeOutcomes, contactVars
<1>2. CASE \E c \in Customers : OptOut(c)
  BY <1>2 DEF OptOut, contactVars
<1>3. CASE \E c \in Customers : RevokeOptOut(c)
  BY <1>3 DEF RevokeOptOut, contactVars
<1> QED
  BY <1>1, <1>2, <1>3

(* The windows are written by the snapshot alone.                            *)
LEMMA OnlyOutcomesMeasure ==
    ASSUME [Next]_vars, ~ComputeOutcomes
    PROVE  UNCHANGED window
<1>1. CASE CreateSome({})
  BY <1>1 DEF CreateSome, CreateCampaign
<1>2. CASE \E k \in Campaign : CampaignStep(k)
  BY <1>2, CampaignStepFrame
<1>3. CASE \E c \in Customers : OptOut(c) \/ RevokeOptOut(c)
  BY <1>3, BesideCampaigns
<1>4. CASE NextDay
  BY <1>4 DEF NextDay
<1>5. CASE UNCHANGED vars
  BY <1>5 DEF vars
<1> QED
  BY <1>1, <1>2, <1>3, <1>4, <1>5 DEF Next, Operations

(* A measurement under way is never moved to another day.                    *)
LEMMA WindowsFixed ==
    ASSUME ContactInv, [Next]_vars
    PROVE  \A k \in Campaign, c \in Customers :
              window[k][c] # Never => window'[k][c] = window[k][c]
<1>1. ASSUME NEW k \in Campaign, NEW c \in Customers, window[k][c] # Never
      PROVE  window'[k][c] = window[k][c]
  <2>1. CASE UNCHANGED window
    BY <2>1
  <2>2. CASE ComputeOutcomes
    <3>1. arm[k][c] \in {"control", "treatment"}
      BY <1>1 DEF ContactInv, OnlyTreatmentStamped, TypeOK
    <3>2. Anchor(k, c) = window[k][c]
      BY <1>1, <3>1 DEF ContactInv, MeasuredFromContact, OnlyTreatmentStamped, Anchor
    <3> QED
      BY <2>2, <3>2 DEF ComputeOutcomes
  <2> QED
    BY <1>1, <2>1, <2>2, OnlyOutcomesMeasure
<1> QED
  BY <1>1

(* Who changes the state of a campaign: its creation and its closing.        *)
LEMMA StatusSteps ==
    ASSUME TypeOK, [Next]_vars
    PROVE  \/ UNCHANGED <<nCampaigns, cstatus>>
           \/ /\ nCampaigns' = nCampaigns + 1
              /\ cstatus' = [cstatus EXCEPT ![nCampaigns + 1] = "running"]
           \/ \E k \in Created :
                 nCampaigns' = nCampaigns /\ cstatus' = [cstatus EXCEPT ![k] = "closed"]
<1>1. CASE CreateSome({})
  BY <1>1 DEF CreateSome, CreateCampaign
<1>2. CASE \E k \in Campaign : CampaignStep(k)
  BY <1>2, CampaignStepFrame
<1>3. CASE ComputeOutcomes \/ \E c \in Customers : OptOut(c) \/ RevokeOptOut(c)
  BY <1>3, BesideCampaigns
<1>4. CASE NextDay
  BY <1>4 DEF NextDay
<1>5. CASE UNCHANGED vars
  BY <1>5 DEF vars
<1> QED
  BY <1>1, <1>2, <1>3, <1>4, <1>5 DEF Next, Operations

(* Windows never move, closing is for good, and so are the outcomes of a     *)
(* closed campaign.                                                          *)
THEOREM MeasurementsFixed == Spec => MeasurementStands
<1>1. Init => ClosedCreated
  BY DEF Init, ClosedCreated
<1>2. ASSUME TypeOK, ClosedCreated, [Next]_vars PROVE ClosedCreated'
  <2>1. nCampaigns \in Nat
    BY <1>2 DEF TypeOK
  <2> QED
    BY <1>2, <2>1, StatusSteps DEF ClosedCreated, Created, TypeOK
<1>3. ASSUME TypeOK, ClosedCreated, [Next]_vars, NEW k \in Campaign, cstatus[k] = "closed"
      PROVE  cstatus'[k] = "closed" /\ window'[k] = window[k]
  <2>1. cstatus'[k] = "closed"
    <3>1. nCampaigns \in Nat /\ k \in 1..nCampaigns
      BY <1>3 DEF TypeOK, ClosedCreated, Created
    <3>2. k # nCampaigns + 1
      BY <3>1
    <3> QED
      BY <1>3, <3>2, StatusSteps DEF TypeOK
  <2>2. window'[k] = window[k]
    <3>1. CASE ComputeOutcomes
      <4>1. ~Running(k)
        BY <1>3 DEF Running
      <4>2. window'[k] = [c \in Customers |-> window[k][c]]
        BY <3>1, <4>1 DEF ComputeOutcomes
      <4> QED
        BY <1>3, <4>2 DEF TypeOK
    <3> QED
      BY <1>3, <3>1, OnlyOutcomesMeasure
  <2> QED
    BY <2>1, <2>2
<1>4. ContactInv => TypeOK
  BY DEF ContactInv
<1>5. ContactInv /\ ClosedCreated /\ [Next]_vars
        => [/\ \A k \in Campaign, c \in Customers :
                 window[k][c] # Never => window'[k][c] = window[k][c]
            /\ \A k \in Campaign : cstatus[k] = "closed" =>
                 cstatus'[k] = "closed" /\ window'[k] = window[k]]_vars
  BY <1>3, <1>4, WindowsFixed
<1> QED
  BY <1>1, <1>2, <1>4, <1>5, ContactInvariant, PTL DEF Spec, MeasurementStands

-----------------------------------------------------------------------------
(* The split of the members into arms.                                       *)

(* n_control of assign_arms: whatever holdout is asked for, a stratum keeps  *)
(* somebody to treat, and a holdout above zero leaves somebody of two or     *)
(* more untreated.                                                           *)
THEOREM SplitLeavesBothArms ==
    ASSUME NEW n \in Nat \ {0}, NEW pct \in Int
    PROVE  /\ NControl(n, pct) \in 0..(n - 1)
           /\ n >= 2 /\ pct > 0 => NControl(n, pct) >= 1
<1> DEFINE wanted == CeilDiv(n * Clamp(pct), 100)
<1>1. Clamp(pct) \in 0..100 /\ (pct > 0 => Clamp(pct) >= 1)
  BY DEF Clamp
<1>2. n * Clamp(pct) \in Nat /\ (pct > 0 => n * Clamp(pct) >= 1)
  BY <1>1
<1>3. wanted \in Nat /\ (pct > 0 => wanted >= 1)
  BY <1>2 DEF CeilDiv
<1> HIDE DEF wanted
<1> QED
  BY <1>3 DEF NControl, wanted

(* Of the members drawn from a stratum some are not in the control arm.      *)
LEMMA SomebodyTreated ==
    ASSUME NEW M \in SUBSET Customers, NEW h \in Holdouts, NEW C \in ControlArms(M, Stratum, h),
           NEW s, InStratum(M, Stratum, s) # {}
    PROVE  \E c \in M \ C : Stratum[c] = s
<1> DEFINE inM == InStratum(M, Stratum, s)
           inC == InStratum(C, Stratum, s)
<1>1. IsFiniteSet(inM) /\ h \in Int
  BY ContactAssumption, FS_Subset DEF InStratum
<1>2. Cardinality(inM) \in Nat \ {0}
  BY <1>1, FS_CardinalityType, FS_EmptySet
<1>3. s \in {Stratum[c] : c \in M} /\ C \in SUBSET M
  BY DEF InStratum, ControlArms
<1>4. Cardinality(inC) = NControl(Cardinality(inM), h)
  BY <1>3 DEF ControlArms
<1>5. NControl(Cardinality(inM), h) \in 0..(Cardinality(inM) - 1)
  BY <1>1, <1>2, SplitLeavesBothArms
<1>6. Cardinality(inC) # Cardinality(inM)
  BY <1>2, <1>4, <1>5
<1>7. inC # inM
  BY <1>6
<1> QED
  BY <1>3, <1>7 DEF InStratum

(* The arms of a campaign are drawn once, when it is created.                *)
LEMMA ArmsAreDrawnOnce ==
    ASSUME [Next]_vars
    PROVE  CreateSome({}) \/ UNCHANGED <<arm, nCampaigns>>
<1>1. CASE \E k \in Campaign : CampaignStep(k)
  BY <1>1, CampaignStepFrame
<1>2. CASE ComputeOutcomes \/ \E c \in Customers : OptOut(c) \/ RevokeOptOut(c)
  BY <1>2, BesideCampaigns
<1>3. CASE NextDay
  BY <1>3 DEF NextDay, contactVars
<1>4. CASE UNCHANGED vars
  BY <1>4 DEF vars, contactVars
<1> QED
  BY <1>1, <1>2, <1>3, <1>4 DEF Next, Operations

(* No holdout takes a whole stratum: every stratum of every campaign has     *)
(* somebody to contact, for any customers, strata and percentages.           *)
THEOREM StrataAreTreated == Spec => []TreatmentInEveryStratum
<1>1. Init => TreatmentInEveryStratum
  BY DEF Init, TreatmentInEveryStratum, Created
<1>2. ASSUME TypeOK, TreatmentInEveryStratum, [Next]_vars PROVE TreatmentInEveryStratum'
  <2>1. CASE UNCHANGED <<arm, nCampaigns>>
    BY <1>2, <2>1 DEF TreatmentInEveryStratum, Created, Treatment
  <2>2. CASE CreateSome({})
    <3>1. PICK M \in SUBSET Customers, h \in Holdouts :
              \E C \in ControlArms(M, Stratum, h) : CreateCampaign(M, C, {})
      BY <2>2 DEF CreateSome
    <3>2. PICK C \in ControlArms(M, Stratum, h) : CreateCampaign(M, C, {})
      BY <3>1
    <3> DEFINE n == nCampaigns + 1
    <3>3. /\ nCampaigns \in Nat /\ n \in Campaign /\ nCampaigns' = n
          /\ Created' = Created \cup {n} /\ Created \subseteq Campaign \ {n}
      <4>1. nCampaigns \in Nat /\ nCampaigns < MaxCampaigns /\ nCampaigns' = n
        BY <1>2, <3>2 DEF CreateCampaign, TypeOK
      <4>2. n \in Campaign /\ Created \subseteq Campaign
        BY <1>2, <4>1, NextCampaign, CreatedCampaigns
      <4>3. Created' = Created \cup {n} /\ n \notin Created
        BY <4>1 DEF Created
      <4> QED
        BY <4>1, <4>2, <4>3
    <3>4. /\ \A k \in Created : arm'[k] = arm[k]
          /\ \A c \in Customers : arm'[n][c] = IF c \in C THEN "control"
                                               ELSE IF c \in M THEN "treatment" ELSE "none"
      BY <1>2, <3>2, <3>3 DEF CreateCampaign, TypeOK
    <3> HIDE DEF n
    <3> SUFFICES ASSUME NEW k \in Created', NEW s \in {Stratum[c] : c \in Customers},
                        NEW d \in Customers, Stratum[d] = s, arm'[k][d] # "none"
                 PROVE  \E c \in Customers : Stratum[c] = s /\ arm'[k][c] = "treatment"
      BY DEF TreatmentInEveryStratum, Treatment
    <3>5. CASE k \in Created
      BY <1>2, <3>4, <3>5 DEF TreatmentInEveryStratum, Treatment
    <3>6. CASE k = n
      <4>1. C \in SUBSET M
        BY DEF ControlArms
      <4>2. d \in InStratum(M, Stratum, s)
        BY <3>4, <3>6, <4>1 DEF InStratum
      <4>3. PICK c \in M \ C : Stratum[c] = s
        BY <4>2, SomebodyTreated
      <4> QED
        BY <3>4, <3>6, <4>3
    <3> QED
      BY <3>3, <3>5, <3>6
  <2> QED
    BY <1>2, <2>1, <2>2, ArmsAreDrawnOnce
<1>3. TypeOK /\ TreatmentInEveryStratum /\ [Next]_vars => TreatmentInEveryStratum'
  BY <1>2
<1> QED
  BY <1>1, <1>3, TypeCorrect, PTL DEF Spec

-----------------------------------------------------------------------------
(* The older senders are, to the campaigns, nothing but silence: whatever    *)
(* the outbox answers at the creation of a campaign, it only keeps more      *)
(* customers out.                                                            *)

LEMMA OutboxOnlyKeepsOut ==
    ASSUME NEW outbox, Operations(outbox)
    PROVE  Operations({})
<1>1. ASSUME NEW M, NEW C, CreateCampaign(M, C, outbox) PROVE CreateCampaign(M, C, {})
  BY <1>1 DEF CreateCampaign
<1>2. CreateSome(outbox) => CreateSome({})
  BY <1>1 DEF CreateSome
<1> QED
  BY <1>2 DEF Operations

LEMMA LegacyStepIsContact == [LegacyNext]_allVars => [Next]_vars
<1> SUFFICES ASSUME [LegacyNext]_allVars PROVE [Next]_vars
  OBVIOUS
<1>1. ASSUME NEW p \in Processes, LegacyStep(p) PROVE UNCHANGED vars
  BY <1>1 DEF LegacyStep, ScanStart, ScanGate, ScanClaim, ScanClaimed, ScanSend, ScanEnd,
              TextGate, TextSend, TextSent, TextRecord, TextEnd
<1>2. LegacyCrash => UNCHANGED vars
  BY DEF LegacyCrash
<1>3. Operations(RecentOutbox) => Next
  BY OutboxOnlyKeepsOut DEF Next
<1>4. LegacyNextDay \/ CreateUnchecked => Next
  BY DEF LegacyNextDay, CreateUnchecked, Operations, Next
<1>5. UNCHANGED allVars => UNCHANGED vars
  BY DEF allVars
<1> QED
  BY <1>1, <1>2, <1>3, <1>4, <1>5 DEF LegacyNext

(* With the scan and the bulk text beside them the campaigns behave as they  *)
(* do alone: the composition implements the specification of the campaigns,  *)
(* and what is proved of that holds here (run_cycle_scan, sms_send).         *)
THEOREM CampaignsUndisturbed == LegacySpec => Spec
<1>1. LegacyInit => Init
  BY DEF LegacyInit
<1> QED
  BY <1>1, LegacyStepIsContact, PTL DEF LegacySpec, Spec

-----------------------------------------------------------------------------
(* The outbox.                                                               *)

OutboxTyped ==
    /\ claimDay \in [Customers -> Nat]
    /\ realDay \in [Customers -> Nat]
    /\ stage \in [Processes -> {"idle", "gate", "claim", "send", "text", "record"}]
    /\ audience \in [Processes -> SUBSET Customers]
    /\ batch \in [Processes -> SUBSET Customers]
    /\ real \in [Processes -> BOOLEAN]
    /\ crashes \in Nat
    /\ unread \in Nat
    /\ unchecked \in SUBSET Campaign
    /\ lastReminder \in [Customers -> Nat]
    /\ lastText \in [Customers -> Nat]
    /\ doubled \in SUBSET Customers
    /\ textedControl \in SUBSET Customers

Scanning(p) == stage[p] \in {"gate", "claim", "send"}
Texting(p) == stage[p] \in {"text", "record"}

(* Where a process stands tells what it has in hand.                         *)
InHand ==
    \A p \in Processes :
        /\ Scanning(p) => p \in Scans
        /\ stage[p] \in {"idle", "gate"} => batch[p] = {}
        /\ stage[p] = "send" => real[p] /\ audience[p] = {}

(* What a scan has in its batch it has claimed today, as a real message if   *)
(* that is what it is about to send.                                         *)
Claimed ==
    \A p \in Processes : stage[p] \in {"claim", "send"} =>
        \A c \in batch[p] : claimDay[c] = today /\ (real[p] => realDay[c] = today)

(* Every reminder stands on a claim, and on one the campaigns look at.       *)
RemindersClaimed ==
    \A c \in Customers :
        /\ lastReminder[c] <= claimDay[c] /\ lastReminder[c] <= realDay[c]
        /\ claimDay[c] <= today /\ realDay[c] <= today /\ lastText[c] <= today

(* Nobody a scan has still to claim or to text was reminded within the days. *)
Unreminded(c) == lastReminder[c] = Never \/ lastReminder[c] + DedupeDays <= today

NotYetReminded ==
    \A p \in Processes : Scanning(p) => \A c \in audience[p] \cup batch[p] : Unreminded(c)

(* A text is on record, or will be before its sender ends.                   *)
TextsOnRecord ==
    crashes = 0 => \A c \in Customers :
        \/ lastText[c] <= realDay[c]
        \/ \E p \in Processes : Texting(p) /\ c \in batch[p]

Reminders == InHand /\ Claimed /\ RemindersClaimed /\ TextsOnRecord
OnceInv == NotYetReminded /\ ReminderOnce

(* The scheduler runs a job once at a time (the default of add_job), and     *)
(* nobody scans by hand meanwhile.                                           *)
OneScan == \A p, q \in Scans : p = q

(* Nothing is on record at first. *)
LEMMA OutboxInit == LegacyInit => OutboxTyped /\ Reminders /\ OnceInv
<1> SUFFICES ASSUME LegacyInit PROVE OutboxTyped /\ Reminders /\ OnceInv
  OBVIOUS
<1> USE DEF LegacyInit, Init, Never
<1>1. OutboxTyped
  <2>1. real \in [Processes -> BOOLEAN]
    OBVIOUS
  <2> QED
    BY <2>1 DEF OutboxTyped
<1>2. InHand /\ Claimed /\ NotYetReminded /\ ReminderOnce
  BY DEF InHand, Claimed, NotYetReminded, Scanning, ReminderOnce
<1>3. RemindersClaimed /\ TextsOnRecord
  BY DEF RemindersClaimed, TextsOnRecord
<1> QED
  BY <1>1, <1>2, <1>3 DEF Reminders, OnceInv

(* Every step keeps the types of the outbox and of the processes. *)
LEMMA OutboxTypedStep ==
    ASSUME TypeOK, OutboxTyped, [LegacyNext]_allVars
    PROVE  OutboxTyped'
<1> USE DEF OutboxTyped, Go
<1>1. today \in Nat
  BY DEF TypeOK
<1>2. ASSUME NEW p \in Processes, ScanStart(p) \/ TextGate(p) PROVE OutboxTyped'
  BY <1>2 DEF ScanStart, TextGate, Unread, outboxVars, readVars, receivedVars
<1>3. ASSUME NEW p \in Processes, ScanGate(p) PROVE OutboxTyped'
  <2>1. audience' \in [Processes -> SUBSET Customers]
    BY <1>3 DEF ScanGate
  <2>2. real' \in [Processes -> BOOLEAN]
    BY <1>3 DEF ScanGate
  <2> QED
    BY <1>3, <2>1, <2>2 DEF ScanGate, Unread, outboxVars, readVars, receivedVars
<1>4. ASSUME NEW p \in Processes, ScanClaim(p) PROVE OutboxTyped'
  <2>1. PICK c \in audience[p] :
            /\ audience' = [audience EXCEPT ![p] = @ \ {c}]
            /\ batch' = [batch EXCEPT ![p] = @ \cup {c}]
            /\ claimDay' = [claimDay EXCEPT ![c] = today]
            /\ realDay' = IF real[p] THEN [realDay EXCEPT ![c] = today] ELSE realDay
    BY <1>4 DEF ScanClaim
  <2>2. c \in Customers
    OBVIOUS
  <2>3. realDay' \in [Customers -> Nat]
    <3>1. CASE real[p]
      BY <1>1, <2>1, <2>2, <3>1
    <3>2. CASE ~real[p]
      BY <2>1, <3>2
    <3> QED
      BY <3>1, <3>2
  <2>4. audience' \in [Processes -> SUBSET Customers] /\ batch' \in [Processes -> SUBSET Customers]
        /\ claimDay' \in [Customers -> Nat]
    BY <1>1, <2>1, <2>2
  <2> QED
    BY <1>4, <2>3, <2>4 DEF ScanClaim, readVars, receivedVars
<1>5. ASSUME NEW p \in Processes, ScanClaimed(p) \/ ScanEnd(p) \/ TextSent(p) \/ TextEnd(p)
      PROVE  OutboxTyped'
  BY <1>5 DEF ScanClaimed, ScanEnd, TextSent, TextEnd, outboxVars, readVars, receivedVars
<1>6. ASSUME NEW c \in Customers, Texted(c)
      PROVE  lastText' \in [Customers -> Nat] /\ textedControl' \in SUBSET Customers
  BY <1>1, <1>6 DEF Texted
<1>7. ASSUME NEW p \in Processes, ScanSend(p) PROVE OutboxTyped'
  <2>1. PICK c \in batch[p] : /\ batch' = [batch EXCEPT ![p] = @ \ {c}]
                              /\ Reminded(c) \/ UNCHANGED receivedVars
    BY <1>7 DEF ScanSend
  <2>2. c \in Customers /\ batch' \in [Processes -> SUBSET Customers]
    BY <2>1
  <2>3. CASE Reminded(c)
    <3>1. lastReminder' \in [Customers -> Nat] /\ doubled' \in SUBSET Customers
      BY <1>1, <2>2, <2>3 DEF Reminded
    <3> QED
      BY <1>6, <1>7, <2>2, <2>3, <3>1 DEF ScanSend, Reminded, outboxVars, readVars
  <2>4. CASE UNCHANGED receivedVars
    BY <1>7, <2>2, <2>4 DEF ScanSend, outboxVars, readVars, receivedVars
  <2> QED
    BY <2>1, <2>3, <2>4
<1>8. ASSUME NEW p \in Processes, TextSend(p) PROVE OutboxTyped'
  <2>1. PICK c \in audience[p] : /\ audience' = [audience EXCEPT ![p] = @ \ {c}]
                                 /\ batch' = [batch EXCEPT ![p] = @ \cup {c}]
                                 /\ \/ Texted(c) /\ UNCHANGED <<lastReminder, doubled>>
                                    \/ UNCHANGED receivedVars
    BY <1>8 DEF TextSend
  <2>2. c \in Customers /\ audience' \in [Processes -> SUBSET Customers]
        /\ batch' \in [Processes -> SUBSET Customers]
    BY <2>1
  <2>3. /\ lastText' \in [Customers -> Nat] /\ textedControl' \in SUBSET Customers
        /\ lastReminder' = lastReminder /\ doubled' = doubled
    BY <1>6, <2>1, <2>2 DEF receivedVars
  <2> QED
    BY <1>8, <2>2, <2>3 DEF TextSend, outboxVars, readVars
<1>9. ASSUME NEW p \in Processes, TextRecord(p) PROVE OutboxTyped'
  <2>1. PICK c \in batch[p] : /\ batch' = [batch EXCEPT ![p] = @ \ {c}]
                              /\ realDay' = [realDay EXCEPT ![c] = today]
    BY <1>9 DEF TextRecord
  <2>2. batch' \in [Processes -> SUBSET Customers] /\ realDay' \in [Customers -> Nat]
    BY <1>1, <2>1
  <2> QED
    BY <1>9, <2>2 DEF TextRecord, readVars, receivedVars
<1>10. CASE LegacyCrash
  <2>1. real' \in [Processes -> BOOLEAN]
    BY <1>10 DEF LegacyCrash
  <2> QED
    BY <1>10, <2>1 DEF LegacyCrash, outboxVars, readVars, receivedVars
<1>11. CASE UNCHANGED legacyVars
  BY <1>11 DEF legacyVars, outboxVars, processVars, readVars, receivedVars
<1>13. CASE CreateUnchecked
  <2>1. nCampaigns' \in Campaign
    BY <1>13, NextCampaign DEF CreateUnchecked, CreateSome, CreateCampaign, TypeOK
  <2> QED
    BY <1>13, <2>1 DEF CreateUnchecked, Unread, outboxVars, processVars, receivedVars
<1>12. ASSUME NEW p \in Processes, LegacyStep(p) PROVE OutboxTyped'
  BY <1>2, <1>3, <1>4, <1>5, <1>7, <1>8, <1>9, <1>12 DEF LegacyStep
<1> QED
  BY <1>10, <1>11, <1>12, <1>13 DEF LegacyNext, LegacyNextDay, allVars

(* A step of a scan or a bulk text changes nothing a campaign keeps. *)
LEMMA LegacyStepFrame ==
    ASSUME NEW p, LegacyStep(p)
    PROVE  UNCHANGED vars
<1>1. CASE ScanStart(p) \/ ScanGate(p) \/ ScanClaim(p)
  BY <1>1 DEF ScanStart, ScanGate, ScanClaim
<1>2. CASE ScanClaimed(p) \/ ScanSend(p) \/ ScanEnd(p)
  BY <1>2 DEF ScanClaimed, ScanSend, ScanEnd
<1>3. CASE TextGate(p) \/ TextSend(p) \/ TextSent(p)
  BY <1>3 DEF TextGate, TextSend, TextSent
<1>4. CASE TextRecord(p) \/ TextEnd(p)
  BY <1>4 DEF TextRecord, TextEnd
<1> QED
  BY <1>1, <1>2, <1>3, <1>4 DEF LegacyStep

(* The day ends when no process is under way. *)
LEMMA DayOfStep ==
    ASSUME [LegacyNext]_allVars
    PROVE  today' = today \/ (today' = today + 1 /\ AllIdle)
<1>1. ASSUME Operations(RecentOutbox) PROVE today' = today
  <2>1. CASE CreateSome(RecentOutbox)
    BY <2>1 DEF CreateSome, CreateCampaign
  <2>2. CASE \E k \in Campaign : CampaignStep(k)
    BY <2>2, CampaignStepFrame
  <2>3. CASE ComputeOutcomes \/ \E c \in Customers : OptOut(c) \/ RevokeOptOut(c)
    BY <2>3, BesideCampaigns
  <2> QED
    BY <1>1, <2>1, <2>2, <2>3 DEF Operations
<1>2. ASSUME NEW p \in Processes, LegacyStep(p) PROVE today' = today
  BY <1>2, LegacyStepFrame DEF vars
<1>3. CreateUnchecked => today' = today
  BY DEF CreateUnchecked, CreateSome, CreateCampaign
<1> QED
  BY <1>1, <1>2, <1>3 DEF LegacyNext, LegacyCrash, LegacyNextDay, NextDay, allVars, vars

(* The steps by which a process only goes on, and those of the campaigns.    *)
LEMMA StandingStill ==
    ASSUME TypeOK, OutboxTyped, Reminders, [LegacyNext]_allVars,
           UNCHANGED <<outboxVars, processVars, crashes, receivedVars>>
    PROVE  Reminders'
<1> USE DEF Reminders, outboxVars, processVars, receivedVars
<1>1. today' = today \/ (today' = today + 1 /\ AllIdle)
  BY DayOfStep
<1>2. InHand' /\ TextsOnRecord'
  BY DEF InHand, TextsOnRecord, Scanning, Texting
<1>3. Claimed'
  BY <1>1 DEF Claimed, AllIdle
<1>4. RemindersClaimed'
  <2>1. today \in Nat
    BY DEF TypeOK
  <2> QED
    BY <1>1, <2>1 DEF RemindersClaimed, OutboxTyped
<1> QED
  BY <1>2, <1>3, <1>4

(* One process moves on: the other processes keep what they have in hand.    *)
LEMMA RemindersStep ==
    ASSUME TypeOK, OutboxTyped, Reminders, [LegacyNext]_allVars
    PROVE  Reminders'
<1> USE DEF Go, Scanning, Texting
<1>1. today \in Nat
  BY DEF TypeOK
<1>2. ASSUME NEW p \in Processes, LegacyStep(p) PROVE today' = today /\ crashes' = crashes
  BY <1>2 DEF LegacyStep, ScanStart, ScanGate, ScanClaim, ScanClaimed, ScanSend, ScanEnd,
              TextGate, TextSend, TextSent, TextRecord, TextEnd, vars
<1>3. ASSUME NEW p \in Processes,
             ScanStart(p) \/ TextGate(p) \/ ScanGate(p) \/ ScanClaimed(p)
                \/ ScanEnd(p) \/ TextSent(p) \/ TextEnd(p)
      PROVE  Reminders'
  <2>1. today' = today /\ crashes' = crashes /\ claimDay' = claimDay /\ realDay' = realDay
        /\ lastText' = lastText /\ lastReminder' = lastReminder
    BY <1>2, <1>3 DEF LegacyStep, ScanStart, TextGate, ScanGate, ScanClaimed, ScanEnd,
                      TextSent, TextEnd, outboxVars, receivedVars
  <2>2. \A q \in Processes : q # p =>
            stage'[q] = stage[q] /\ audience'[q] = audience[q] /\ batch'[q] = batch[q]
            /\ real'[q] = real[q]
    BY <1>3 DEF ScanStart, TextGate, ScanGate, ScanClaimed, ScanEnd, TextSent, TextEnd, OutboxTyped
  <2>3. /\ Scanning(p)' => p \in Scans
        /\ stage'[p] \in {"idle", "gate"} => batch'[p] = {}
        /\ stage'[p] = "send" => real'[p] /\ audience'[p] = {}
        /\ stage'[p] \in {"claim", "send"} =>
              batch'[p] = {} \/ (stage[p] = "claim" /\ batch'[p] = batch[p] /\ real'[p] = real[p])
        /\ batch'[p] = batch[p] \/ ~Texting(p)
        /\ Texting(p) => batch[p] = {} \/ Texting(p)'
    BY <1>3 DEF ScanStart, TextGate, ScanGate, ScanClaimed, ScanEnd, TextSent, TextEnd, OutboxTyped,
                Reminders, InHand
  <2>4. InHand' /\ Claimed'
    BY <2>1, <2>2, <2>3 DEF Reminders, InHand, Claimed
  <2>5. RemindersClaimed'
    BY <2>1 DEF Reminders, RemindersClaimed
  <2>6. TextsOnRecord'
    BY <2>1, <2>2, <2>3 DEF Reminders, TextsOnRecord
  <2> QED
    BY <2>4, <2>5, <2>6 DEF Reminders
<1>4. ASSUME NEW p \in Processes, ScanClaim(p) PROVE Reminders'
  <2>1. PICK c \in audience[p] :
            /\ audience' = [audience EXCEPT ![p] = @ \ {c}]
            /\ batch' = [batch EXCEPT ![p] = @ \cup {c}]
            /\ claimDay' = [claimDay EXCEPT ![c] = today]
            /\ realDay' = IF real[p] THEN [realDay EXCEPT ![c] = today] ELSE realDay
    BY <1>4 DEF ScanClaim
  <2>2. /\ c \in Customers /\ today' = today /\ crashes' = crashes /\ stage[p] = "claim"
        /\ stage' = stage /\ real' = real /\ lastReminder' = lastReminder /\ lastText' = lastText
    BY <1>2, <1>4 DEF LegacyStep, ScanClaim, receivedVars, OutboxTyped
  <2>3. /\ \A d \in Customers : /\ claimDay'[d] = IF d = c THEN today ELSE claimDay[d]
                                /\ realDay'[d] = IF d = c /\ real[p] THEN today ELSE realDay[d]
        /\ \A q \in Processes : /\ batch'[q] = IF q = p THEN batch[p] \cup {c} ELSE batch[q]
                                /\ audience'[q] = IF q = p THEN audience[p] \ {c} ELSE audience[q]
    BY <2>1, <2>2 DEF OutboxTyped
  <2>4. InHand' /\ TextsOnRecord'
    <3>1. InHand'
      BY <2>2, <2>3 DEF Reminders, InHand
    <3>2. \A d \in Customers : lastText[d] <= realDay[d] => lastText[d] <= realDay'[d]
      BY <2>3 DEF Reminders, RemindersClaimed
    <3>3. TextsOnRecord'
      BY <2>2, <2>3, <3>2 DEF Reminders, TextsOnRecord
    <3> QED
      BY <3>1, <3>3
  <2>5. Claimed'
    <3> SUFFICES ASSUME NEW q \in Processes, stage[q] \in {"claim", "send"}, NEW d \in batch'[q]
                 PROVE  claimDay'[d] = today /\ (real[q] => realDay'[d] = today)
      BY <2>2 DEF Claimed
    <3>1. d \in Customers
      BY <2>2, <2>3 DEF OutboxTyped
    <3>2. CASE q = p /\ d = c
      BY <2>3, <3>1, <3>2
    <3>3. CASE d \in batch[q]
      BY <2>3, <3>1, <3>3 DEF Reminders, Claimed
    <3> QED
      BY <2>3, <3>2, <3>3
  <2>6. RemindersClaimed'
    <3> SUFFICES ASSUME NEW d \in Customers
                 PROVE  /\ lastReminder[d] <= claimDay'[d] /\ lastReminder[d] <= realDay'[d]
                        /\ claimDay'[d] <= today /\ realDay'[d] <= today /\ lastText[d] <= today
      BY <2>2 DEF RemindersClaimed
    <3>1. /\ lastReminder[d] <= claimDay[d] /\ lastReminder[d] <= realDay[d]
          /\ claimDay[d] <= today /\ realDay[d] <= today /\ lastText[d] <= today
          /\ lastReminder[d] \in Nat /\ claimDay[d] \in Nat /\ realDay[d] \in Nat
      BY DEF Reminders, RemindersClaimed, OutboxTyped
    <3>2. claimDay'[d] \in {today, claimDay[d]} /\ realDay'[d] \in {today, realDay[d]}
      BY <2>3
    <3> QED
      BY <1>1, <3>1, <3>2
  <2> QED
    BY <2>4, <2>5, <2>6 DEF Reminders
<1>5. ASSUME NEW p \in Processes, ScanSend(p) PROVE Reminders'
  <2>1. PICK c \in batch[p] : /\ batch' = [batch EXCEPT ![p] = @ \ {c}]
                              /\ Reminded(c) \/ UNCHANGED receivedVars
    BY <1>5 DEF ScanSend
  <2>2. /\ c \in Customers /\ today' = today /\ crashes' = crashes /\ stage[p] = "send"
        /\ stage' = stage /\ real' = real /\ audience' = audience
        /\ claimDay' = claimDay /\ realDay' = realDay
    BY <1>2, <1>5 DEF LegacyStep, ScanSend, outboxVars, OutboxTyped
  <2>3. claimDay[c] = today /\ realDay[c] = today
    BY <2>2 DEF Reminders, Claimed, InHand
  <2>4. \A d \in Customers : /\ lastText'[d] \in {lastText[d]} \cup (IF d = c THEN {today} ELSE {})
                             /\ lastReminder'[d] \in {lastReminder[d]} \cup (IF d = c THEN {today} ELSE {})
    BY <2>1, <2>2 DEF Reminded, Texted, receivedVars, OutboxTyped
  <2>5. \A q \in Processes : batch'[q] = IF q = p THEN batch[p] \ {c} ELSE batch[q]
    BY <2>1 DEF OutboxTyped
  <2>6. InHand' /\ Claimed'
    BY <2>2, <2>5 DEF Reminders, InHand, Claimed
  <2>7. RemindersClaimed'
    BY <1>1, <2>2, <2>3, <2>4 DEF Reminders, RemindersClaimed, OutboxTyped
  <2>8. TextsOnRecord'
    <3> SUFFICES ASSUME crashes = 0, NEW d \in Customers
                 PROVE  \/ lastText'[d] <= realDay[d]
                        \/ \E q \in Processes : Texting(q) /\ d \in batch'[q]
      BY <2>2 DEF TextsOnRecord
    <3>1. CASE d = c
      BY <1>1, <2>3, <2>4, <3>1 DEF Reminders, RemindersClaimed
    <3>2. CASE d # c
      BY <2>2, <2>4, <2>5, <3>2 DEF Reminders, TextsOnRecord
    <3> QED
      BY <3>1, <3>2
  <2> QED
    BY <2>6, <2>7, <2>8 DEF Reminders
<1>6. ASSUME NEW p \in Processes, TextSend(p) PROVE Reminders'
  <2>1. PICK c \in audience[p] : /\ audience' = [audience EXCEPT ![p] = @ \ {c}]
                                 /\ batch' = [batch EXCEPT ![p] = @ \cup {c}]
                                 /\ \/ Texted(c) /\ UNCHANGED <<lastReminder, doubled>>
                                    \/ UNCHANGED receivedVars
    BY <1>6 DEF TextSend
  <2>2. /\ c \in Customers /\ today' = today /\ crashes' = crashes /\ stage[p] = "text"
        /\ stage' = stage /\ real' = real /\ claimDay' = claimDay /\ realDay' = realDay
        /\ lastReminder' = lastReminder
    BY <1>2, <1>6, <2>1 DEF LegacyStep, TextSend, outboxVars, receivedVars, OutboxTyped
  <2>3. \A d \in Customers : lastText'[d] \in {lastText[d]} \cup (IF d = c THEN {today} ELSE {})
    BY <2>1, <2>2 DEF Texted, receivedVars, OutboxTyped
  <2>4. \A q \in Processes : /\ batch'[q] = IF q = p THEN batch[p] \cup {c} ELSE batch[q]
                             /\ audience'[q] = IF q = p THEN audience[p] \ {c} ELSE audience[q]
    BY <2>1 DEF OutboxTyped
  <2>5. InHand' /\ Claimed'
    BY <2>2, <2>4 DEF Reminders, InHand, Claimed
  <2>6. RemindersClaimed'
    BY <1>1, <2>2, <2>3 DEF Reminders, RemindersClaimed, OutboxTyped
  <2>7. TextsOnRecord'
    BY <2>2, <2>3, <2>4 DEF Reminders, TextsOnRecord
  <2> QED
    BY <2>5, <2>6, <2>7 DEF Reminders
<1>7. ASSUME NEW p \in Processes, TextRecord(p) PROVE Reminders'
  <2>1. PICK c \in batch[p] : /\ batch' = [batch EXCEPT ![p] = @ \ {c}]
                              /\ realDay' = [realDay EXCEPT ![c] = today]
    BY <1>7 DEF TextRecord
  <2>2. /\ c \in Customers /\ today' = today /\ crashes' = crashes /\ stage[p] = "record"
        /\ stage' = stage /\ real' = real /\ audience' = audience /\ claimDay' = claimDay
        /\ lastReminder' = lastReminder /\ lastText' = lastText
    BY <1>2, <1>7 DEF LegacyStep, TextRecord, receivedVars, OutboxTyped
  <2>3. \A d \in Customers : realDay'[d] = IF d = c THEN today ELSE realDay[d]
    BY <2>1, <2>2 DEF OutboxTyped
  <2>4. \A q \in Processes : batch'[q] = IF q = p THEN batch[p] \ {c} ELSE batch[q]
    BY <2>1 DEF OutboxTyped
  <2>5. InHand' /\ Claimed'
    <3>1. InHand'
      BY <2>2, <2>4 DEF Reminders, InHand
    <3>2. \A q \in Processes : stage[q] \in {"claim", "send"} => batch'[q] = batch[q]
      BY <2>2, <2>4
    <3>3. Claimed'
      BY <2>2, <2>3, <3>2 DEF Reminders, Claimed, OutboxTyped
    <3> QED
      BY <3>1, <3>3
  <2>6. RemindersClaimed'
    BY <1>1, <2>2, <2>3 DEF Reminders, RemindersClaimed, OutboxTyped
  <2>7. TextsOnRecord'
    <3> SUFFICES ASSUME crashes = 0, NEW d \in Customers
                 PROVE  \/ lastText[d] <= realDay'[d]
                        \/ \E q \in Processes : Texting(q) /\ d \in batch'[q]
      BY <2>2 DEF TextsOnRecord
    <3>1. CASE d = c
      BY <2>3, <3>1 DEF Reminders, RemindersClaimed
    <3>2. CASE d # c
      BY <2>2, <2>3, <2>4, <3>2 DEF Reminders, TextsOnRecord
    <3> QED
      BY <3>1, <3>2
  <2> QED
    BY <2>5, <2>6, <2>7 DEF Reminders
<1>8. CASE LegacyCrash
  <2>1. /\ today' = today /\ crashes' = crashes + 1 /\ claimDay' = claimDay /\ realDay' = realDay
        /\ lastText' = lastText /\ lastReminder' = lastReminder
        /\ \A p \in Processes : stage'[p] = "idle" /\ batch'[p] = {}
    BY <1>8 DEF LegacyCrash, vars, outboxVars, receivedVars
  <2>2. crashes' # 0
    BY <2>1 DEF OutboxTyped
  <2> QED
    BY <2>1, <2>2 DEF Reminders, InHand, Claimed, RemindersClaimed, TextsOnRecord
<1>9. ASSUME NEW p \in Processes, LegacyStep(p) PROVE Reminders'
  BY <1>3, <1>4, <1>5, <1>6, <1>7, <1>9 DEF LegacyStep
<1>10. CASE CreateUnchecked \/ UNCHANGED legacyVars
  BY <1>10, StandingStill DEF CreateUnchecked, legacyVars
<1> QED
  BY <1>8, <1>9, <1>10 DEF LegacyNext, LegacyNextDay, allVars

(* Every step of one scan at a time keeps what it has still to text          *)
(* unreminded.                                                               *)
LEMMA OnceStep ==
    ASSUME OneScan, TypeOK, OutboxTyped, Reminders, OnceInv, [LegacyNext]_allVars
    PROVE  OnceInv'
<1> USE DEF Go, Scanning
<1>1. today \in Nat /\ DedupeDays \in Nat
  BY LegacyAssumption DEF TypeOK
<1>2. ASSUME NEW p \in Processes, LegacyStep(p), UNCHANGED <<lastReminder, doubled>>,
             Scanning(p)' => \A c \in audience'[p] \cup batch'[p] : Unreminded(c),
             \A q \in Processes : q # p =>
                stage'[q] = stage[q] /\ audience'[q] = audience[q] /\ batch'[q] = batch[q]
      PROVE  OnceInv'
  <2>1. today' = today
    BY <1>2 DEF LegacyStep, ScanStart, ScanGate, ScanClaim, ScanClaimed, ScanSend, ScanEnd,
                TextGate, TextSend, TextSent, TextRecord, TextEnd, vars
  <2>2. NotYetReminded'
    BY <1>2, <2>1 DEF OnceInv, NotYetReminded, Unreminded
  <2> QED
    BY <1>2, <2>2 DEF OnceInv, ReminderOnce
<1>3. ASSUME NEW p \in Processes, ScanStart(p) PROVE OnceInv'
  <2>1. PICK A \in SUBSET Customers : audience' = [audience EXCEPT ![p] = A \ RecentlyClaimed]
    BY <1>3 DEF ScanStart
  <2>2. \A c \in A \ RecentlyClaimed : Unreminded(c)
    <3> SUFFICES ASSUME NEW c \in A \ RecentlyClaimed PROVE Unreminded(c)
      OBVIOUS
    <3>1. claimDay[c] = Never \/ claimDay[c] + DedupeDays <= today
      BY <1>1 DEF RecentlyClaimed, OutboxTyped
    <3>2. lastReminder[c] \in Nat /\ claimDay[c] \in Nat /\ lastReminder[c] <= claimDay[c]
      BY DEF Reminders, RemindersClaimed, OutboxTyped
    <3> QED
      BY <1>1, <3>1, <3>2 DEF Unreminded, Never
  <2>3. batch[p] = {} /\ batch' = batch
    BY <1>3 DEF ScanStart, Reminders, InHand
  <2> QED
    BY <1>2, <1>3, <2>1, <2>2, <2>3 DEF ScanStart, LegacyStep, OutboxTyped, receivedVars
<1>4. ASSUME NEW p \in Processes, ScanGate(p) \/ ScanClaim(p) \/ ScanClaimed(p) \/ ScanEnd(p)
      PROVE  OnceInv'
  <2>1. Scanning(p) /\ audience'[p] \cup batch'[p] \subseteq audience[p] \cup batch[p]
    BY <1>4 DEF ScanGate, ScanClaim, ScanClaimed, ScanEnd, OutboxTyped
  <2>2. \A c \in audience'[p] \cup batch'[p] : Unreminded(c)
    BY <2>1 DEF OnceInv, NotYetReminded
  <2>3. \A q \in Processes : q # p =>
            stage'[q] = stage[q] /\ audience'[q] = audience[q] /\ batch'[q] = batch[q]
    BY <1>4 DEF ScanGate, ScanClaim, ScanClaimed, ScanEnd, OutboxTyped
  <2>4. UNCHANGED <<lastReminder, doubled>> /\ LegacyStep(p)
    BY <1>4 DEF ScanGate, ScanClaim, ScanClaimed, ScanEnd, LegacyStep, receivedVars
  <2> QED
    BY <1>2, <2>2, <2>3, <2>4
<1>5. ASSUME NEW p \in Processes, ScanSend(p) PROVE OnceInv'
  <2>1. PICK c \in batch[p] : /\ batch' = [batch EXCEPT ![p] = @ \ {c}]
                              /\ Reminded(c) \/ UNCHANGED receivedVars
    BY <1>5 DEF ScanSend
  <2>2. /\ c \in Customers /\ stage[p] = "send" /\ stage' = stage /\ audience' = audience
        /\ today' = today /\ p \in Scans /\ audience[p] = {}
    BY <1>5 DEF ScanSend, vars, OutboxTyped, Reminders, InHand
  <2>3. Unreminded(c) /\ lastReminder[c] \in Nat
    BY <2>2 DEF OnceInv, NotYetReminded, OutboxTyped
  <2>4. doubled' = doubled
    BY <1>1, <2>1, <2>3 DEF Reminded, Unreminded, receivedVars
  <2>5. \A d \in Customers : d # c => lastReminder'[d] = lastReminder[d]
    BY <2>1, <2>2 DEF Reminded, receivedVars, OutboxTyped
  <2>6. ASSUME NEW q \in Processes, Scanning(q), NEW d \in audience[q] \cup batch'[q]
        PROVE  Unreminded(d)'
    <3>1. q = p
      BY <2>2, <2>6 DEF Reminders, InHand, OneScan
    <3>2. d \in batch[p] /\ d # c /\ d \in Customers
      BY <2>1, <2>2, <2>6, <3>1 DEF OutboxTyped
    <3>3. Unreminded(d)
      BY <2>2, <3>2 DEF OnceInv, NotYetReminded
    <3> QED
      BY <2>2, <2>5, <3>2, <3>3 DEF Unreminded
  <2>7. NotYetReminded'
    BY <2>2, <2>6 DEF NotYetReminded
  <2> QED
    BY <2>4, <2>7 DEF OnceInv, ReminderOnce
<1>6. ASSUME NEW p \in Processes,
             TextGate(p) \/ TextSend(p) \/ TextSent(p) \/ TextRecord(p) \/ TextEnd(p)
      PROVE  OnceInv'
  <2>1. ~Scanning(p)' /\ UNCHANGED <<lastReminder, doubled>>
    BY <1>6 DEF TextGate, TextSend, TextSent, TextRecord, TextEnd, OutboxTyped, receivedVars, Texted
  <2>2. \A q \in Processes : q # p =>
            stage'[q] = stage[q] /\ audience'[q] = audience[q] /\ batch'[q] = batch[q]
    BY <1>6 DEF TextGate, TextSend, TextSent, TextRecord, TextEnd, OutboxTyped
  <2> QED
    BY <1>2, <1>6, <2>1, <2>2 DEF LegacyStep
<1>7. CASE LegacyCrash
  BY <1>7 DEF LegacyCrash, OnceInv, NotYetReminded, ReminderOnce, receivedVars
<1>8. CASE UNCHANGED <<outboxVars, processVars, crashes, receivedVars>>
  <2>1. today' \in Nat /\ today <= today'
    BY <1>1, DayOfStep
  <2>2. \A p \in Processes : \A c \in audience[p] \cup batch[p] :
            lastReminder[c] \in Nat /\ (Unreminded(c) => Unreminded(c)')
    BY <1>1, <1>8, <2>1 DEF Unreminded, receivedVars, OutboxTyped
  <2>3. /\ stage' = stage /\ audience' = audience /\ batch' = batch
        /\ lastReminder' = lastReminder /\ doubled' = doubled
    BY <1>8 DEF processVars, receivedVars
  <2>4. NotYetReminded'
    BY <2>2, <2>3 DEF OnceInv, NotYetReminded
  <2> QED
    BY <2>3, <2>4 DEF OnceInv, ReminderOnce
<1>9. ASSUME NEW p \in Processes, LegacyStep(p) PROVE OnceInv'
  BY <1>3, <1>4, <1>5, <1>6, <1>9 DEF LegacyStep
<1>10. CreateUnchecked \/ UNCHANGED legacyVars =>
           UNCHANGED <<outboxVars, processVars, crashes, receivedVars>>
  BY DEF CreateUnchecked, legacyVars
<1> QED
  BY <1>7, <1>8, <1>9, <1>10 DEF LegacyNext, LegacyNextDay, allVars

-----------------------------------------------------------------------------
(* The types and the record hold throughout, whatever the requests and the   *)
(* crashes.                                                                  *)
LEMMA OutboxInvariant == LegacySpec => [](TypeOK /\ OutboxTyped /\ Reminders)
<1>1. LegacyInit => OutboxTyped /\ Reminders
  BY OutboxInit
<1>2. TypeOK /\ (OutboxTyped /\ Reminders) /\ [LegacyNext]_allVars => (OutboxTyped /\ Reminders)'
  BY OutboxTypedStep, RemindersStep
<1> QED
  BY <1>1, <1>2, CampaignsUndisturbed, TypeCorrect, PTL DEF LegacySpec

(* Rows, processes and history are of the types the handlers give them       *)
(* (run_cycle_scan, sms_send).                                               *)
THEOREM LegacyTyped == LegacySpec => []LegacyTypeOK
<1>1. TypeOK /\ OutboxTyped => LegacyTypeOK
  BY Zenon DEF OutboxTyped, LegacyTypeOK
<1> QED
  BY <1>1, OutboxInvariant, PTL

(* "Claim, then send": one scan at a time reminds nobody twice within the    *)
(* days of the dedupe, also when the process dies between the claim and the  *)
(* message, and whatever the bulk text and the campaigns do meanwhile.       *)
THEOREM RemindedOnce ==
    ASSUME OneScan
    PROVE  LegacySpec => []ReminderOnce
<1>1. LegacyInit => OnceInv
  BY OutboxInit
<1>2. (TypeOK /\ OutboxTyped /\ Reminders) /\ OnceInv /\ [LegacyNext]_allVars => OnceInv'
  BY OnceStep
<1>3. OnceInv => ReminderOnce
  BY DEF OnceInv
<1> QED
  BY <1>1, <1>2, <1>3, OutboxInvariant, PTL DEF LegacySpec

(* When no sender is under way and none has died, the outbox knows of every  *)
(* message a customer received from them (add_outbox).                       *)
THEOREM OutboxKnowsTexts == LegacySpec => []ReceivedIsInOutbox
<1>1. TypeOK /\ OutboxTyped /\ Reminders => ReceivedIsInOutbox
  <2> SUFFICES ASSUME TypeOK, OutboxTyped, Reminders, AllIdle, crashes = 0,
                      NEW c \in Customers, lastText[c] # Never, today < lastText[c] + FatigueDays
               PROVE  c \in RecentOutbox
    BY DEF ReceivedIsInOutbox
  <2>1. lastText[c] <= realDay[c]
    BY DEF Reminders, TextsOnRecord, AllIdle, Texting
  <2>2. lastText[c] \in Nat /\ realDay[c] \in Nat /\ today \in Nat /\ FatigueDays \in Nat
    BY ContactAssumption DEF OutboxTyped, TypeOK
  <2> QED
    BY <2>1, <2>2 DEF RecentOutbox, Never
<1> QED
  BY <1>1, OutboxInvariant, PTL

(* Nobody who was reminded inside the fatigue window is drawn into a new     *)
(* campaign that says fatigue was checked, even while the scan is under way, *)
(* after it has died, or when its gate could not be read (create_campaign,   *)
(* recent_contact_customer_ids, load_gate).                                  *)
THEOREM RemindersSeen == LegacySpec => CampaignsSeeReminders
<1>1. ASSUME TypeOK, OutboxTyped, Reminders, [LegacyNext]_allVars,
             NEW k \in Campaign \ unchecked', NEW c \in Customers,
             arm[k][c] = "none", arm'[k][c] # "none", lastReminder[c] # Never
      PROVE  lastReminder[c] + FatigueDays <= today
  <2>1. CreateSome(RecentOutbox)
    <3>1. arm' # arm
      BY <1>1
    <3>2. ASSUME NEW p \in Processes, LegacyStep(p) PROVE FALSE
      BY <3>1, <3>2, LegacyStepFrame DEF vars, contactVars
    <3>3. ~LegacyCrash /\ ~LegacyNextDay /\ ~UNCHANGED allVars
      BY <3>1 DEF LegacyCrash, LegacyNextDay, NextDay, allVars, vars, contactVars
    <3>4. ~CreateUnchecked
      <4> SUFFICES ASSUME CreateUnchecked PROVE FALSE
        OBVIOUS
      <4>1. PICK M \in SUBSET Customers : \E C \in SUBSET M : CreateCampaign(M, C, {})
        BY DEF CreateUnchecked, CreateSome, ControlArms
      <4>2. nCampaigns' \in unchecked' /\ k # nCampaigns'
        BY <1>1 DEF CreateUnchecked, Unread
      <4>3. arm'[k] = arm[k]
        BY <1>1, <4>1, <4>2, NextCampaign DEF CreateCampaign, TypeOK
      <4> QED
        BY <1>1, <4>3
    <3>7. Operations(RecentOutbox)
      BY <1>1, <3>2, <3>3, <3>4 DEF LegacyNext
    <3>5. ASSUME NEW j \in Campaign, CampaignStep(j) PROVE FALSE
      BY <3>1, <3>5, CampaignStepFrame
    <3>6. ~(ComputeOutcomes \/ \E x \in Customers : OptOut(x) \/ RevokeOptOut(x))
      BY <3>1, BesideCampaigns
    <3> QED
      BY <3>5, <3>6, <3>7 DEF Operations
  <2>2. PICK M \in SUBSET Customers : \E C \in SUBSET M : CreateCampaign(M, C, RecentOutbox)
    BY <2>1 DEF CreateSome, ControlArms
  <2>3. c \in M
    BY <1>1, <2>2, NextCampaign DEF CreateCampaign, TypeOK
  <2>4. c \notin RecentOutbox
    BY <2>2, <2>3 DEF CreateCampaign
  <2>5. /\ lastReminder[c] \in Nat /\ realDay[c] \in Nat /\ today \in Nat /\ FatigueDays \in Nat
        /\ lastReminder[c] <= realDay[c]
    BY <1>1, ContactAssumption DEF OutboxTyped, TypeOK, Reminders, RemindersClaimed
  <2> QED
    BY <1>1, <2>4, <2>5 DEF RecentOutbox, Never
<1>2. (TypeOK /\ OutboxTyped /\ Reminders) /\ [LegacyNext]_allVars
        => [\A k \in Campaign \ unchecked', c \in Customers :
               arm[k][c] = "none" /\ arm'[k][c] # "none" /\ lastReminder[c] # Never
                   => lastReminder[c] + FatigueDays <= today]_allVars
  BY <1>1
<1> QED
  BY <1>2, OutboxInvariant, PTL DEF LegacySpec, CampaignsSeeReminders

-----------------------------------------------------------------------------
(* The jobs of the sessions.                                                 *)

Statuses == {"none"} \cup Unfinished \cup Final
Kinds == {"none", "upload", "analyze"}
Steps == {"none", "queued", "raw", "columns", "load", "clean", "bundle", "publish", "end", "over"}

JobsTyped ==
    /\ job \in [Job -> [status : Statuses, kind : Kinds, session : SUBSET Sessions]]
    /\ at \in [Job -> Steps]
    /\ queue \in Seq(Job)
    /\ lost \in SUBSET Job
    /\ up \in BOOLEAN

(* A job waits in the queue once, and what waits there was submitted.        *)
QueueSound ==
    /\ \A i, k \in 1..Len(queue) : queue[i] = queue[k] => i = k
    /\ \A i \in 1..Len(queue) : at[queue[i]] = "queued"

(* A submitted job has a kind; a job is done only when its thread is.        *)
JobsSound ==
    /\ \A j \in Job : at[j] # "none" => job[j].kind \in {"upload", "analyze"}
    /\ \A j \in Job : job[j].status = "done" => at[j] = "over"
    /\ NoOrphanedJob

JobsInv == JobsTyped /\ QueueSound /\ JobsSound

(* No job at first. *)
LEMMA JobsInit == SessionInit => JobsInv
<1> SUFFICES ASSUME SessionInit PROVE JobsInv
  OBVIOUS
<1> USE DEF SessionInit, NoJob, Statuses, Kinds, Steps, Unfinished, Final
<1>1. JobsTyped
  <2>1. up \in BOOLEAN
    OBVIOUS
  <2>2. queue \in Seq(Job)
    OBVIOUS
  <2>3. at \in [Job -> Steps]
    OBVIOUS
  <2>4. job \in [Job -> [status : Statuses, kind : Kinds, session : SUBSET Sessions]]
    OBVIOUS
  <2>5. lost \in SUBSET Job
    OBVIOUS
  <2> QED
    BY <2>1, <2>2, <2>3, <2>4, <2>5 DEF JobsTyped
<1>2. QueueSound
  BY DEF QueueSound
<1>3. JobsSound
  BY DEF JobsSound, NoOrphanedJob
<1> QED
  BY <1>1, <1>2, <1>3 DEF JobsInv

(* Writing a status of a job touches nothing else.                           *)
LEMMA Updated ==
    ASSUME JobsInv, NEW j \in Job, NEW s \in Statuses, Update(j, s)
    PROVE  /\ job' \in [Job -> [status : Statuses, kind : Kinds, session : SUBSET Sessions]]
           /\ job'[j].status = s /\ job'[j].kind = job[j].kind
           /\ \A i \in Job : i # j => job'[i] = job[i]
  BY DEF Update, JobsInv, JobsTyped

(* A job goes on to another step of its thread, and its row with it.         *)
LEMMA WentOn ==
    ASSUME JobsInv, NEW j \in Job, NEW from \in Steps \ {"none", "queued", "over"},
           NEW to \in Steps \ {"none", "queued", "over"}, Goto(j, from, to),
           Update(j, "running") \/ UNCHANGED job, lost' = lost
    PROVE  JobsInv'
<1> USE DEF Statuses, Steps, Unfinished, Final
<1>1. /\ at[j] = from /\ at'[j] = to /\ at' \in [Job -> Steps]
      /\ \A i \in Job : i # j => at'[i] = at[i]
      /\ queue' = queue /\ up' = up
  BY DEF Goto, JobsInv, JobsTyped, world
<1>2. /\ job' \in [Job -> [status : Statuses, kind : Kinds, session : SUBSET Sessions]]
      /\ \A i \in Job : job'[i].kind = job[i].kind
      /\ \A i \in Job : i # j => job'[i] = job[i]
      /\ job'[j].status = "running" \/ job'[j] = job[j]
  BY Updated DEF JobsInv, JobsTyped
<1>3. JobsTyped'
  BY <1>1, <1>2 DEF JobsInv, JobsTyped
<1>4. QueueSound'
  BY <1>1 DEF JobsInv, JobsTyped, QueueSound
<1>5. JobsSound'
  BY <1>1, <1>2 DEF JobsInv, JobsSound, NoOrphanedJob
<1> QED
  BY <1>3, <1>4, <1>5 DEF JobsInv

(* The last resort leaves a final status, or a job that is lost.             *)
LEMMA Resorted ==
    ASSUME JobsInv, NEW j \in Job, LastResort(j)
    PROVE  /\ job' \in [Job -> [status : Statuses, kind : Kinds, session : SUBSET Sessions]]
           /\ job'[j].kind = job[j].kind /\ job'[j].session = job[j].session
           /\ \A i \in Job : i # j => job'[i] = job[i]
           /\ lost \subseteq lost' /\ lost' \subseteq lost \cup {j}
           /\ job'[j].status \in Final \/ j \in lost'
           /\ job'[j].status = "done" => job[j].status = "done"
  BY DEF LastResort, Update, JobsInv, JobsTyped, Final, Statuses

(* A thread ends its job, with a final status, or with none that could be    *)
(* written.                                                                  *)
LEMMA Ended ==
    ASSUME JobsInv, NEW j \in Job, NEW from \in Steps \ {"none", "queued", "over"},
           Goto(j, from, "over"),
           \/ (Update(j, "done") \/ Update(j, "error")) /\ UNCHANGED lost
           \/ LastResort(j)
    PROVE  JobsInv'
<1> USE DEF Statuses, Steps, Unfinished, Final
<1>1. /\ at[j] = from /\ at'[j] = "over" /\ at' \in [Job -> Steps]
      /\ \A i \in Job : i # j => at'[i] = at[i]
      /\ queue' = queue /\ up' = up
  BY DEF Goto, JobsInv, JobsTyped, world
<1>2. /\ job' \in [Job -> [status : Statuses, kind : Kinds, session : SUBSET Sessions]]
      /\ \A i \in Job : job'[i].kind = job[i].kind
      /\ \A i \in Job : i # j => job'[i] = job[i]
      /\ lost \subseteq lost' /\ lost' \subseteq lost \cup {j}
      /\ job'[j].status \in Final \/ j \in lost'
  <2>1. CASE (Update(j, "done") \/ Update(j, "error")) /\ UNCHANGED lost
    BY <2>1, Updated DEF JobsInv, JobsTyped
  <2>2. CASE LastResort(j)
    BY <2>2, Resorted
  <2> QED
    BY <2>1, <2>2
<1>3. JobsTyped'
  BY <1>1, <1>2 DEF JobsInv, JobsTyped
<1>4. QueueSound'
  BY <1>1 DEF JobsInv, JobsTyped, QueueSound
<1>5. JobsSound'
  BY <1>1, <1>2 DEF JobsInv, JobsSound, NoOrphanedJob
<1> QED
  BY <1>3, <1>4, <1>5 DEF JobsInv

(* A new job takes the last place of the queue.                              *)
LEMMA Queued ==
    ASSUME JobsInv, NEW s \in Sessions, NEW kind \in {"upload", "analyze"}, Submit(kind, s), up' = up
    PROVE  JobsInv'
<1> USE DEF Statuses, Steps, Unfinished, Final, Kinds
<1>1. PICK j \in Job :
          /\ j \notin Submitted /\ at[j] = "none"
          /\ job' = [job EXCEPT ![j] = [status |-> "queued", kind |-> kind, session |-> {s}]]
          /\ queue' = Append(queue, j)
          /\ at' = [at EXCEPT ![j] = "queued"]
          /\ lost' = lost
  BY DEF Submit
<1>2. /\ at'[j] = "queued" /\ at' \in [Job -> Steps] /\ \A i \in Job : i # j => at'[i] = at[i]
      /\ job'[j].status = "queued" /\ job'[j].kind = kind
      /\ job' \in [Job -> [status : Statuses, kind : Kinds, session : SUBSET Sessions]]
      /\ \A i \in Job : i # j => job'[i] = job[i]
  BY <1>1 DEF JobsInv, JobsTyped
<1>3. /\ queue' \in Seq(Job) /\ Len(queue') = Len(queue) + 1 /\ Len(queue) \in Nat
      /\ queue'[Len(queue) + 1] = j
      /\ \A i \in 1..Len(queue) : queue'[i] = queue[i] /\ queue[i] \in Job /\ queue[i] # j
  BY <1>1 DEF JobsInv, JobsTyped, QueueSound
<1>8. lost' = lost
  BY <1>1
<1>4. JobsTyped'
  BY <1>2, <1>3, <1>8 DEF JobsInv, JobsTyped
<1>5. \A i \in 1..Len(queue') : i \in 1..Len(queue) \/ i = Len(queue) + 1
  BY <1>3
<1>6. QueueSound'
  BY <1>2, <1>3, <1>5 DEF JobsInv, QueueSound
<1>7. JobsSound'
  BY <1>2, <1>8 DEF JobsInv, JobsSound, NoOrphanedJob
<1> QED
  BY <1>4, <1>6, <1>7 DEF JobsInv

(* Every step keeps the jobs in order. *)
LEMMA JobsInvStep == JobsInv /\ [SessionNext]_sessionVars => JobsInv'
<1> SUFFICES ASSUME JobsInv, [SessionNext]_sessionVars PROVE JobsInv'
  OBVIOUS
<1> USE DEF Statuses, Steps, Unfinished, Final
<1>1. ASSUME UNCHANGED <<jobs, up>> PROVE JobsInv'
  BY <1>1 DEF jobs, JobsInv, JobsTyped, QueueSound, JobsSound, NoOrphanedJob
<1>2. ASSUME NEW s \in Sessions, Upload(s) \/ Analyze(s) PROVE JobsInv'
  <2>1. up' = up
    BY <1>2 DEF Upload, Analyze, world
  <2> QED
    BY <1>2, <2>1, Queued DEF Upload, Analyze
<1>3. ASSUME NEW s \in Sessions, OpenSession(s) \/ DeleteRow(s) \/ DeleteFolder(s)
      PROVE  UNCHANGED <<jobs, up>>
  BY <1>3 DEF OpenSession, DeleteRow, DeleteFolder, world
<1>4. CASE StartWork
  <2> DEFINE j == Head(queue)
  <2>1. /\ Len(queue) \in Nat \ {0} /\ j \in Job /\ j = queue[1] /\ queue' = Tail(queue)
        /\ \/ /\ at' = [at EXCEPT ![j] = FirstStep[job[j].kind]]
              /\ Update(j, "running") /\ lost' = lost
           \/ at' = [at EXCEPT ![j] = "over"] /\ LastResort(j)
        /\ up' = up
    BY <1>4 DEF StartWork, JobsInv, JobsTyped, world
  <2>2. at[j] = "queued" /\ job[j].kind \in {"upload", "analyze"} /\ job[j].status # "done"
    BY <2>1 DEF JobsInv, QueueSound, JobsSound
  <2>3. FirstStep[job[j].kind] \in {"raw", "load"}
    BY <2>2 DEF FirstStep
  <2> HIDE DEF j
  <2>4. /\ at'[j] \in {"raw", "load", "over"} /\ at' \in [Job -> Steps]
        /\ \A i \in Job : i # j => at'[i] = at[i]
    <3>1. \E v \in {"raw", "load", "over"} : at' = [at EXCEPT ![j] = v]
      BY <2>1, <2>3
    <3> QED
      BY <2>1, <3>1 DEF JobsInv, JobsTyped
  <2>5. /\ job' \in [Job -> [status : Statuses, kind : Kinds, session : SUBSET Sessions]]
        /\ job'[j].kind = job[j].kind /\ job'[j].status # "done"
        /\ \A i \in Job : i # j => job'[i] = job[i]
        /\ lost \subseteq lost' /\ lost' \subseteq lost \cup {j}
        /\ at'[j] = "over" => job'[j].status \in Final \/ j \in lost'
    <3>1. CASE at' = [at EXCEPT ![j] = FirstStep[job[j].kind]] /\ Update(j, "running") /\ lost' = lost
      BY <2>1, <2>3, <3>1, Updated DEF JobsInv, JobsTyped
    <3>2. CASE LastResort(j)
      BY <2>1, <2>2, <3>2, Resorted
    <3> QED
      BY <2>1, <3>1, <3>2
  <2>6. /\ queue' \in Seq(Job) /\ Len(queue') = Len(queue) - 1
        /\ \A i \in 1..Len(queue') : queue'[i] = queue[i + 1] /\ i + 1 \in 1..Len(queue)
    BY <2>1 DEF JobsInv, JobsTyped
  <2>7. JobsTyped'
    BY <2>1, <2>4, <2>5, <2>6 DEF JobsInv, JobsTyped
  <2>8. QueueSound'
    <3>1. \A i \in 1..Len(queue') : queue'[i] \in Job /\ queue'[i] # j
      BY <2>1, <2>6 DEF JobsInv, JobsTyped, QueueSound
    <3>2. \A i \in 1..Len(queue') : at'[queue'[i]] = "queued"
      BY <2>4, <2>6, <3>1 DEF JobsInv, QueueSound
    <3>3. \A i, k \in 1..Len(queue') : queue'[i] = queue'[k] => i = k
      BY <2>1, <2>6 DEF JobsInv, QueueSound
    <3> QED
      BY <3>2, <3>3 DEF QueueSound
  <2>9. JobsSound'
    <3>1. ASSUME NEW i \in Job, i # j
          PROVE  at'[i] = at[i] /\ job'[i] = job[i]
      BY <2>4, <2>5, <3>1
    <3>2. ASSUME NEW i \in Job, at'[i] # "none" PROVE job'[i].kind \in {"upload", "analyze"}
      BY <2>2, <2>5, <3>1, <3>2 DEF JobsInv, JobsSound
    <3>3. ASSUME NEW i \in Job, job'[i].status = "done" PROVE at'[i] = "over"
      BY <2>5, <3>1, <3>3 DEF JobsInv, JobsSound
    <3>4. ASSUME up', NEW i \in Job \ lost', job'[i].status \in Unfinished
          PROVE  at'[i] \notin {"none", "over"}
      <4>1. CASE i = j
        BY <2>4, <2>5, <3>4, <4>1
      <4>2. CASE i # j
        <5>1. up /\ i \in Job \ lost /\ at'[i] = at[i] /\ job[i].status \in Unfinished
          BY <2>1, <2>5, <3>1, <3>4, <4>2
        <5> QED
          BY <5>1 DEF JobsInv, JobsSound, NoOrphanedJob
      <4> QED
        BY <4>1, <4>2
    <3> QED
      BY <3>2, <3>3, <3>4 DEF JobsSound, NoOrphanedJob
  <2> QED
    BY <2>7, <2>8, <2>9 DEF JobsInv
<1>5. ASSUME NEW j \in Job, Step(j) PROVE JobsInv'
  <2>1. CASE SaveRaw(j)
    BY <2>1, WentOn DEF SaveRaw
  <2>2. CASE SetColumns(j)
    BY <2>2, WentOn DEF SetColumns
  <2>3. CASE LoadRaw(j)
    BY <2>3, WentOn DEF LoadRaw
  <2>4. CASE SaveClean(j)
    BY <2>4, WentOn DEF SaveClean
  <2>5. CASE SaveBundle(j)
    BY <2>5, WentOn DEF SaveBundle
  <2>6. CASE SetAnalysis(j)
    BY <2>6, WentOn DEF SetAnalysis
  <2>7. CASE GiveUp(j)
    BY <2>7, Ended DEF GiveUp
  <2>8. CASE EndWork(j)
    BY <2>8, Ended DEF EndWork, Conclude
  <2> QED
    BY <1>5, <2>1, <2>2, <2>3, <2>4, <2>5, <2>6, <2>7, <2>8 DEF Step
<1>6. ASSUME NEW j \in Job, Poll(j) PROVE JobsInv'
  <2>1. Update(j, "error") /\ queue' = queue /\ at' = at /\ lost' = lost \ {j} /\ up' = up
    BY <1>6 DEF Poll, world
  <2>2. /\ job' \in [Job -> [status : Statuses, kind : Kinds, session : SUBSET Sessions]]
        /\ job'[j].status = "error" /\ job'[j].kind = job[j].kind
        /\ \A i \in Job : i # j => job'[i] = job[i]
    BY <2>1, Updated
  <2>3. JobsTyped'
    BY <2>1, <2>2 DEF JobsInv, JobsTyped
  <2>4. QueueSound'
    BY <2>1 DEF JobsInv, QueueSound
  <2>5. JobsSound'
    <3>1. NoOrphanedJob'
      BY <2>1, <2>2 DEF JobsInv, JobsSound, NoOrphanedJob
    <3>2. \A i \in Job : at'[i] # "none" => job'[i].kind \in {"upload", "analyze"}
      BY <2>1, <2>2 DEF JobsInv, JobsSound
    <3>3. \A i \in Job : job'[i].status = "done" => at'[i] = "over"
      BY <2>1, <2>2 DEF JobsInv, JobsSound
    <3> QED
      BY <3>1, <3>2, <3>3 DEF JobsSound
  <2> QED
    BY <2>3, <2>4, <2>5 DEF JobsInv
<1>7. CASE RetentionRun
  <2>1. UNCHANGED <<jobs, up>>
    BY <1>7 DEF RetentionRun, PruneStart, PruneWhole, PruneFiles, PruneMark, PruneEnd, Take, world
  <2> QED
    BY <1>1, <2>1
<1>8. CASE Die
  <2>1. up' = FALSE /\ queue' = <<>> /\ job' = job /\ lost' = {}
        /\ at' = [j \in Job |-> IF at[j] = "none" THEN "none" ELSE "over"]
    BY <1>8 DEF Die
  <2>2. JobsTyped'
    <3>1. queue' \in Seq(Job) /\ at' \in [Job -> Steps]
      BY <2>1
    <3>2. up' \in BOOLEAN
      BY <2>1
    <3> QED
      BY <2>1, <3>1, <3>2 DEF JobsInv, JobsTyped
  <2>3. QueueSound'
    BY <2>1 DEF QueueSound
  <2>4. JobsSound'
    BY <2>1 DEF JobsInv, JobsSound, NoOrphanedJob
  <2> QED
    BY <2>2, <2>3, <2>4 DEF JobsInv
<1>9. CASE ComeBack
  <2>1. /\ queue' = queue /\ at' = at /\ lost' = lost
        /\ job' = [j \in Job |-> IF Abandoned(j) THEN [job[j] EXCEPT !.status = "error"] ELSE job[j]]
    BY <1>9 DEF ComeBack
  <2>2. up' \in BOOLEAN
    BY <1>9 DEF ComeBack
  <2>3. \A j \in Job : /\ job'[j] \in [status : Statuses, kind : Kinds, session : SUBSET Sessions]
                       /\ job'[j].kind = job[j].kind /\ job'[j].status \notin Unfinished
                       /\ job'[j].status = "done" => job[j].status = "done"
    BY <2>1 DEF JobsInv, JobsTyped, Abandoned
  <2>4. JobsTyped'
    BY <2>1, <2>2, <2>3 DEF JobsInv, JobsTyped
  <2>5. QueueSound'
    BY <2>1 DEF JobsInv, QueueSound
  <2>6. JobsSound'
    <3>1. NoOrphanedJob'
      BY <2>3 DEF NoOrphanedJob
    <3>2. \A j \in Job : at'[j] # "none" => job'[j].kind \in {"upload", "analyze"}
      BY <2>1, <2>3 DEF JobsInv, JobsSound
    <3>3. \A j \in Job : job'[j].status = "done" => at'[j] = "over"
      BY <2>1, <2>3 DEF JobsInv, JobsSound
    <3> QED
      BY <3>1, <3>2, <3>3 DEF JobsSound
  <2> QED
    BY <2>4, <2>5, <2>6 DEF JobsInv
<1>10. CASE NewDay
  <2>1. UNCHANGED <<jobs, up>>
    BY <1>10 DEF NewDay
  <2> QED
    BY <1>1, <2>1
<1>11. CASE UNCHANGED sessionVars
  BY <1>1, <1>11 DEF sessionVars, world
<1> QED
  BY <1>1, <1>2, <1>3, <1>4, <1>5, <1>6, <1>7, <1>8, <1>9, <1>10, <1>11 DEF SessionNext, Request

(* The inductive invariant of the jobs. *)
LEMMA JobsInvariant == SessionSpec => []JobsInv
  BY JobsInit, JobsInvStep, PTL DEF SessionSpec

(* While the server runs, an unfinished row of a job has a thread or a place *)
(* in the queue, whatever raised, died or was declared dead before, unless   *)
(* the last resort of its thread was itself not written (submit_job,         *)
(* mark_stale_job, recover_stale_jobs).                                      *)
THEOREM NobodyWaitsForNothing == SessionSpec => []NoOrphanedJob
<1>1. JobsInv => NoOrphanedJob
  BY DEF JobsInv, JobsSound
<1> QED
  BY <1>1, JobsInvariant, PTL

(* No step takes a result back: a job that is done has left its thread and   *)
(* the queue, and the watchdog and the start after a crash look for          *)
(* unfinished rows only (mark_stale_job, recover_stale_jobs).                *)
THEOREM ResultsStand == SessionSpec => DoneStands
<1>1. ASSUME JobsInv, [SessionNext]_sessionVars, NEW j \in Job, job[j].status = "done"
      PROVE  job'[j].status = "done"
  <2> USE DEF Unfinished, Final
  <2>1. at[j] = "over"
    BY <1>1 DEF JobsInv, JobsSound
  <2>2. ASSUME NEW i \in Job, NEW s, Update(i, s), i # j PROVE job'[j] = job[j]
    BY <2>2 DEF Update
  <2>3. ASSUME NEW kind, NEW s, Submit(kind, s) PROVE job'[j] = job[j]
    BY <1>1, <2>3 DEF Submit, Submitted
  <2>4. ASSUME NEW s \in Sessions, Request(s) PROVE job'[j] = job[j]
    BY <2>3, <2>4 DEF Request, Upload, Analyze, OpenSession, DeleteRow, DeleteFolder, jobs
  <2>5. CASE StartWork
    <3>1. Head(queue) = queue[1] /\ 1 \in 1..Len(queue) /\ queue[1] \in Job
      BY <1>1, <2>5 DEF StartWork, JobsInv, JobsTyped
    <3>2. Head(queue) # j
      BY <1>1, <2>1, <3>1 DEF JobsInv, QueueSound
    <3> QED
      BY <1>1, <2>2, <2>5, <3>1, <3>2 DEF StartWork, LastResort
  <2>6. ASSUME NEW i \in Job, Step(i) PROVE job'[j] = job[j]
    <3>1. i # j
      BY <2>1, <2>6 DEF Step, SaveRaw, SetColumns, LoadRaw, SaveClean, SaveBundle, SetAnalysis,
                        GiveUp, EndWork, Goto
    <3> QED
      BY <2>2, <2>6, <3>1 DEF Step, SaveRaw, SetColumns, LoadRaw, SaveClean, SaveBundle,
                              SetAnalysis, GiveUp, EndWork, Conclude, LastResort
  <2>7. ASSUME NEW i \in Job, Poll(i) PROVE job'[j] = job[j]
    BY <1>1, <2>2, <2>7 DEF Poll, Stale
  <2>8. RetentionRun => job' = job
    BY DEF RetentionRun, PruneStart, PruneWhole, PruneFiles, PruneMark, PruneEnd, Take, jobs
  <2>9. ComeBack => job'[j] = job[j]
    BY <1>1 DEF ComeBack, Abandoned
  <2>10. Die \/ NewDay \/ UNCHANGED sessionVars => job' = job
    BY DEF Die, NewDay, sessionVars, jobs
  <2> QED
    BY <1>1, <2>4, <2>5, <2>6, <2>7, <2>8, <2>9, <2>10 DEF SessionNext
<1>2. JobsInv /\ [SessionNext]_sessionVars
        => [\A j \in Job : job[j].status = "done" => job'[j].status = "done"]_sessionVars
  BY <1>1
<1> QED
  BY <1>2, JobsInvariant, PTL DEF SessionSpec, DoneStands

-----------------------------------------------------------------------------
(* The rows and the files of the sessions.                                   *)

OneRowEach ==
    /\ recent \in Seq(Sessions)
    /\ \A i, k \in 1..Len(recent) : recent[i] = recent[k] => i = k

(* What is said of a session is said of a session with a row; what is kept   *)
(* of it lies in its directory.                                              *)
RowsAndFiles ==
    /\ columns \subseteq Rows /\ archived \subseteq Rows
    /\ folder \subseteq Sessions
    /\ raw \subseteq folder /\ clean \subseteq folder /\ bundle \subseteq folder
    /\ analysis \in [Sessions -> Version]

PrunerTyped ==
    pruner \in [keep : SUBSET Sessions, todo : SUBSET Sessions, hand : SUBSET Sessions,
                away : SUBSET Sessions, busy : BOOLEAN]

(* A job that has begun is the job of one session.                           *)
JobsOfSessions == \A j \in Job : at[j] # "none" => \E s \in Sessions : job[j].session = {s}

SessionsInv == OneRowEach /\ RowsAndFiles /\ PrunerTyped /\ JobsOfSessions

(* The rows are the elements of the sequence of rows.                        *)
LEMMA RowsAreElements ==
    ASSUME OneRowEach
    PROVE  /\ DOMAIN recent = 1..Len(recent) /\ Len(recent) \in Nat
           /\ Rows = {recent[i] : i \in 1..Len(recent)} /\ Rows \subseteq Sessions
  BY DEF OneRowEach, Rows, ToSet

(* Without drops the row of the session and no other (delete_session).       *)
LEMMA WithoutDropsOne ==
    ASSUME OneRowEach, NEW s \in Rows
    PROVE  /\ Without(s) \in Seq(Sessions)
           /\ \A i, k \in 1..Len(Without(s)) : Without(s)[i] = Without(s)[k] => i = k
           /\ ToSet(Without(s)) = Rows \ {s}
<1> DEFINE k == CHOOSE i \in DOMAIN recent : recent[i] = s
           n == Len(recent)
<1>1. k \in 1..n /\ recent[k] = s /\ n \in Nat
  BY RowsAreElements
<1>2. \A i \in 1..n : recent[i] = s => i = k
  BY <1>1 DEF OneRowEach
<1>3. Without(s) = SubSeq(recent, 1, k - 1) \o SubSeq(recent, k + 1, n)
  BY DEF Without, RemoveAt
<1> HIDE DEF k
<1>4. /\ SubSeq(recent, 1, k - 1) \in Seq(Sessions) /\ Len(SubSeq(recent, 1, k - 1)) = k - 1
      /\ \A i \in 1..(k - 1) : SubSeq(recent, 1, k - 1)[i] = recent[i]
  BY <1>1 DEF OneRowEach
<1>5. /\ SubSeq(recent, k + 1, n) \in Seq(Sessions) /\ Len(SubSeq(recent, k + 1, n)) = n - k
      /\ \A i \in 1..(n - k) : SubSeq(recent, k + 1, n)[i] = recent[i + k]
  BY <1>1 DEF OneRowEach
<1>6. /\ Without(s) \in Seq(Sessions) /\ Len(Without(s)) = n - 1
      /\ \A i \in 1..(n - 1) : Without(s)[i] = IF i < k THEN recent[i] ELSE recent[i + 1]
  <2> DEFINE a == SubSeq(recent, 1, k - 1)
             b == SubSeq(recent, k + 1, n)
  <2>1. /\ a \in Seq(Sessions) /\ b \in Seq(Sessions) /\ Len(a) = k - 1 /\ Len(b) = n - k
        /\ Without(s) = a \o b
    BY <1>3, <1>4, <1>5
  <2>2. \A i \in 1..(k - 1) : a[i] = recent[i]
    BY <1>4
  <2>3. \A i \in 1..(n - k) : b[i] = recent[i + k]
    BY <1>5
  <2> HIDE DEF a, b, n
  <2>4. /\ Without(s) \in Seq(Sessions) /\ Len(Without(s)) = n - 1
        /\ \A i \in 1..(n - 1) : Without(s)[i] = IF i < k THEN a[i] ELSE b[i - k + 1]
    <3>1. Without(s) \in Seq(Sessions) /\ Len(Without(s)) = Len(a) + Len(b)
      BY <2>1, ConcatProperties
    <3>2. \A i \in 1..(Len(a) + Len(b)) :
              Without(s)[i] = IF i <= Len(a) THEN a[i] ELSE b[i - Len(a)]
      BY <2>1, ConcatProperties
    <3>3. Len(a) + Len(b) = n - 1
      BY <1>1, <2>1
    <3>4. \A i \in 1..(n - 1) : (i < k <=> i <= Len(a)) /\ i - Len(a) = i - k + 1
      BY <1>1, <2>1
    <3> QED
      BY <3>1, <3>2, <3>3, <3>4
  <2>5. \A i \in 1..(n - 1) : (i < k => i \in 1..(k - 1)) /\ (~(i < k) => i - k + 1 \in 1..(n - k))
    BY <1>1
  <2>6. \A i \in 1..(n - 1) : (i - k + 1) + k = i + 1
    BY <1>1
  <2>7. ASSUME NEW i \in 1..(n - 1)
        PROVE  Without(s)[i] = IF i < k THEN recent[i] ELSE recent[i + 1]
    <3>1. CASE i < k
      BY <2>2, <2>4, <2>5, <3>1
    <3>2. CASE ~(i < k)
      <4>1. Without(s)[i] = b[i - k + 1] /\ i - k + 1 \in 1..(n - k)
        BY <2>4, <2>5, <3>2
      <4>2. b[i - k + 1] = recent[(i - k + 1) + k]
        BY <2>3, <4>1
      <4> QED
        BY <2>6, <3>2, <4>1, <4>2
    <3> QED
      BY <3>1, <3>2
  <2> QED
    BY <2>4, <2>7
<1>7. ASSUME NEW i \in 1..(n - 1), NEW j \in 1..(n - 1), Without(s)[i] = Without(s)[j]
      PROVE  i = j
  <2>1. \A x, y \in 1..n : recent[x] = recent[y] => x = y
    BY DEF OneRowEach
  <2>2. \A x \in 1..(n - 1) : x \in 1..n /\ x + 1 \in 1..n /\ x \in Int
    BY <1>1
  <2> DEFINE from(x) == IF x < k THEN x ELSE x + 1
  <2>3. \A x \in 1..(n - 1) : Without(s)[x] = recent[from(x)] /\ from(x) \in 1..n
    BY <1>6, <2>2
  <2>4. \A x, y \in 1..(n - 1) : from(x) = from(y) => x = y
    BY <1>1, <2>2
  <2> HIDE DEF n, k, from
  <2>5. recent[from(i)] = recent[from(j)] /\ from(i) \in 1..n /\ from(j) \in 1..n
    BY <1>7, <2>3
  <2>6. from(i) = from(j)
    BY <2>1, <2>5
  <2> QED
    BY <2>4, <2>6
<1>8. ASSUME NEW x PROVE x \in ToSet(Without(s)) <=> x \in Rows \ {s}
  <2>1. ToSet(Without(s)) = {Without(s)[i] : i \in 1..(n - 1)}
    BY <1>6 DEF ToSet
  <2>2. ASSUME x \in ToSet(Without(s)) PROVE x \in Rows \ {s}
    <3>1. PICK i \in 1..(n - 1) : x = Without(s)[i]
      BY <2>1, <2>2
    <3>2. PICK j \in 1..n : x = recent[j] /\ j # k
      <4>1. CASE i < k
        <5>1. i \in 1..n /\ i # k
          BY <1>1, <4>1
        <5>2. x = recent[i]
          BY <1>6, <3>1, <4>1
        <5> QED
          BY <5>1, <5>2
      <4>2. CASE ~(i < k)
        <5>1. i + 1 \in 1..n /\ i + 1 # k
          BY <1>1, <4>2
        <5>2. x = recent[i + 1]
          BY <1>6, <3>1, <4>2
        <5> QED
          BY <5>1, <5>2
      <4> QED
        BY <4>1, <4>2
    <3> QED
      BY <1>2, <3>2, RowsAreElements
  <2>3. ASSUME x \in Rows \ {s} PROVE x \in ToSet(Without(s))
    <3>1. PICK j \in 1..n : x = recent[j] /\ j # k
      BY <1>1, <2>3, RowsAreElements
    <3>2. CASE j < k
      BY <1>1, <1>6, <2>1, <3>1, <3>2
    <3>3. CASE j > k
      <4>1. j - 1 \in 1..(n - 1) /\ Without(s)[j - 1] = x
        BY <1>1, <1>6, <3>1, <3>3
      <4> QED
        BY <2>1, <4>1
    <3> QED
      BY <1>1, <3>1, <3>2, <3>3
  <2> QED
    BY <2>2, <2>3
<1> QED
  BY <1>6, <1>7, <1>8

(* The analysed sessions have a row each at first, and their files. *)
LEMMA SessionsInit == SessionInit => SessionsInv
<1> SUFFICES ASSUME SessionInit PROVE SessionsInv
  OBVIOUS
<1>1. /\ recent \in [1..Cardinality(Analysed) -> Analysed] /\ IsInjective(recent)
      /\ Cardinality(Analysed) \in Nat /\ ToSet(recent) = Analysed
  <2>1. IsFiniteSet(Analysed) /\ Cardinality(Analysed) \in Nat
        /\ ExistsBijection(1..Cardinality(Analysed), Analysed)
    BY SessionsAssumption, FS_Subset, FS_CardinalityType
  <2>2. PICK f \in Bijection(1..Cardinality(Analysed), Analysed) : TRUE
    BY <2>1 DEF ExistsBijection
  <2>3. f \in [1..Cardinality(Analysed) -> Analysed] /\ IsInjective(f)
    BY <2>2 DEF Bijection, Injection, IsInjective
  <2>4. recent \in [1..Cardinality(Analysed) -> Analysed] /\ IsInjective(recent)
    BY <2>3 DEF SessionInit, SetToSeq
  <2>5. recent \in Injection(1..Cardinality(Analysed), Analysed)
    BY <2>4 DEF Injection, IsInjective
  <2>6. Cardinality(1..Cardinality(Analysed)) = Cardinality(Analysed)
    BY <2>1, FS_Interval
  <2>7. recent \in Surjection(1..Cardinality(Analysed), Analysed)
    BY <2>1, <2>5, <2>6, FS_Injection
  <2>8. ToSet(recent) = Analysed
    BY <2>4, <2>7 DEF Surjection, ToSet
  <2> QED
    BY <2>1, <2>4, <2>8
<1>2. OneRowEach
  <2>1. recent \in Seq(Analysed)
    BY <1>1
  <2> QED
    BY <1>1, <2>1, SessionsAssumption DEF OneRowEach, IsInjective
<1>3. RowsAndFiles
  BY <1>1, SessionsAssumption DEF RowsAndFiles, Rows, SessionInit, Version
<1>4. PrunerTyped
  BY DEF PrunerTyped, SessionInit, NoRun
<1>5. JobsOfSessions
  BY DEF JobsOfSessions, SessionInit
<1> QED
  BY <1>2, <1>3, <1>4, <1>5 DEF SessionsInv

(* What the thread of a job works for is a session. *)
LEMMA WorksForASession ==
    ASSUME JobsOfSessions, NEW j \in Job, at[j] # "none"
    PROVE  SessionOf(j) \in Sessions /\ job[j].session = {SessionOf(j)}
  BY DEF JobsOfSessions, SessionOf

(* A row goes: of what is said of its session nothing stays. *)
LEMMA Forgotten ==
    ASSUME OneRowEach, RowsAndFiles, NEW s \in Rows, Forget(s)
    PROVE  /\ OneRowEach' /\ Rows' = Rows \ {s}
           /\ columns' \subseteq Rows' /\ archived' \subseteq Rows'
           /\ analysis' \in [Sessions -> Version]
<1>1. recent' = Without(s)
  BY DEF Forget
<1>2. OneRowEach'
  BY <1>1, WithoutDropsOne DEF OneRowEach
<1>3. Rows' = Rows \ {s}
  BY <1>1, WithoutDropsOne DEF Rows
<1>4. columns' \subseteq Rows' /\ archived' \subseteq Rows'
  BY <1>3 DEF Forget, RowsAndFiles
<1>5. analysis' \in [Sessions -> Version]
  BY DEF Forget, RowsAndFiles, Version
<1> QED
  BY <1>2, <1>3, <1>4, <1>5

(* A row is appended for a session that has none among those that stay. *)
LEMMA Appended ==
    ASSUME NEW r \in Seq(Sessions), NEW s \in Sessions, s \notin ToSet(r),
           \A i, k \in 1..Len(r) : r[i] = r[k] => i = k,
           recent' = Append(r, s)
    PROVE  OneRowEach' /\ Rows' = ToSet(r) \cup {s}
<1>1. /\ Len(r) \in Nat /\ recent' \in Seq(Sessions) /\ Len(recent') = Len(r) + 1
      /\ recent'[Len(r) + 1] = s /\ \A i \in 1..Len(r) : recent'[i] = r[i]
  OBVIOUS
<1>2. ToSet(r) = {r[i] : i \in 1..Len(r)}
  BY DEF ToSet
<1>3. Rows' = {recent'[i] : i \in 1..(Len(r) + 1)}
  BY <1>1 DEF Rows, ToSet
<1>4. \A i \in 1..(Len(r) + 1) : i \in 1..Len(r) \/ i = Len(r) + 1
  BY <1>1
<1>5. OneRowEach'
  BY <1>1, <1>2, <1>4 DEF OneRowEach
<1>6. \A i \in 1..Len(r) : i \in 1..(Len(r) + 1)
  BY <1>1
<1>7. Len(r) + 1 \in 1..(Len(r) + 1)
  BY <1>1
<1>8. Rows' = ToSet(r) \cup {s}
  BY <1>1, <1>2, <1>3, <1>4, <1>6, <1>7
<1> QED
  BY <1>5, <1>8

(* Every step keeps what is said of the sessions' rows and files. *)
LEMMA SessionsStep ==
    ASSUME JobsInv, SessionsInv, [SessionNext]_sessionVars
    PROVE  SessionsInv'
<1> USE DEF SessionsInv
<1>1. Rows \subseteq Sessions
  BY RowsAreElements
<1>2. ASSUME OneRowEach', Rows' = Rows, UNCHANGED <<columns, analysis, archived, files>>
      PROVE  RowsAndFiles'
  BY <1>2 DEF RowsAndFiles, files
<1>3. ASSUME UNCHANGED recent PROVE OneRowEach' /\ Rows' = Rows
  BY <1>3 DEF OneRowEach, Rows
<1>4. ASSUME UNCHANGED pruner PROVE PrunerTyped'
  BY <1>4 DEF PrunerTyped
<1>5. ASSUME UNCHANGED jobs PROVE JobsOfSessions'
  BY <1>5 DEF jobs, JobsOfSessions
<1>6. ASSUME NEW kind, NEW s \in Sessions, Submit(kind, s) PROVE JobsOfSessions'
  <2> DEFINE new == [status |-> "queued", kind |-> kind, session |-> {s}]
  <2>1. PICK j \in Job : job' = [job EXCEPT ![j] = new] /\ at' = [at EXCEPT ![j] = "queued"]
    BY <1>6 DEF Submit
  <2>2. DOMAIN job = Job /\ DOMAIN at = Job
    BY DEF JobsInv, JobsTyped
  <2>3. new.session = {s}
    OBVIOUS
  <2> HIDE DEF new
  <2>4. job'[j] = new /\ \A i \in Job : i # j => job'[i] = job[i] /\ at'[i] = at[i]
    BY <2>1, <2>2
  <2>5. \A i \in Job : at[i] # "none" => \E x \in Sessions : job[i].session = {x}
    BY DEF JobsOfSessions
  <2>6. \A i \in Job : at'[i] # "none" => \E x \in Sessions : job'[i].session = {x}
    <3> SUFFICES ASSUME NEW i \in Job, at'[i] # "none"
                 PROVE  \E x \in Sessions : job'[i].session = {x}
      OBVIOUS
    <3>1. CASE i = j
      BY <1>6, <2>3, <2>4, <3>1
    <3>2. CASE i # j
      BY <2>4, <2>5, <3>2
    <3> QED
      BY <3>1, <3>2
  <2> QED
    BY <2>6 DEF JobsOfSessions
<1>7. ASSUME NEW s \in Sessions, Upload(s) PROVE SessionsInv'
  <2>1. recent \in Seq(Sessions) /\ recent' = Append(recent, s) /\ s \notin Rows
    BY <1>7 DEF OneRowEach, Upload
  <2>2. OneRowEach' /\ Rows' = Rows \cup {s}
    BY <2>1, Appended DEF OneRowEach, Rows
  <2>3. RowsAndFiles'
    BY <1>7, <2>2 DEF RowsAndFiles, Upload
  <2> QED
    BY <1>4, <1>6, <1>7, <2>2, <2>3 DEF Upload
<1>8. ASSUME NEW s \in Sessions, Analyze(s) PROVE SessionsInv'
  BY <1>2, <1>3, <1>4, <1>6, <1>8 DEF Analyze, rows
<1>9. ASSUME NEW s \in Sessions, OpenSession(s) PROVE SessionsInv'
  <2>1. s \in Rows /\ recent' = Append(Without(s), s)
    BY <1>9 DEF OpenSession
  <2>2. OneRowEach' /\ Rows' = (Rows \ {s}) \cup {s}
    BY <2>1, WithoutDropsOne, Appended
  <2> QED
    BY <1>2, <1>4, <1>5, <1>9, <2>1, <2>2 DEF OpenSession
<1>10. ASSUME NEW s \in Sessions, s \in Rows, Forget(s), UNCHANGED files
       PROVE  OneRowEach' /\ RowsAndFiles'
  BY <1>10, Forgotten DEF RowsAndFiles, files
<1>11. ASSUME NEW s \in Sessions, DeleteRow(s) PROVE SessionsInv'
  BY <1>4, <1>5, <1>10, <1>11 DEF DeleteRow
<1>12. ASSUME NEW s \in Sessions, DeleteFolder(s) PROVE SessionsInv'
  <2>1. RowsAndFiles'
    BY <1>3, <1>12 DEF DeleteFolder, RowsAndFiles, rows
  <2>2. PrunerTyped'
    BY <1>12 DEF DeleteFolder, PrunerTyped
  <2> QED
    BY <1>3, <1>5, <1>12, <2>1, <2>2 DEF DeleteFolder, rows
<1>13. CASE StartWork
  <2>1. Head(queue) \in Job /\ at[Head(queue)] = "queued"
    BY <1>13 DEF StartWork, JobsInv, JobsTyped, QueueSound
  <2>4. job' = job \/ Update(Head(queue), "running") \/ Update(Head(queue), "error")
    BY <1>13 DEF StartWork, LastResort
  <2>5. \A i \in Job : job'[i].session = job[i].session
    <3> DEFINE h == Head(queue)
    <3>1. h \in Job /\ (job' = job \/ Update(h, "running") \/ Update(h, "error"))
      BY <2>1, <2>4
    <3> HIDE DEF h
    <3>2. \A i \in Job : job[i] \in [status : Statuses, kind : Kinds, session : SUBSET Sessions]
      BY DEF JobsInv, JobsTyped
    <3> QED
      BY <3>1, <3>2 DEF Update, JobsInv, JobsTyped
  <2>6. \E v : at' = [at EXCEPT ![Head(queue)] = v]
    <3> DEFINE h == Head(queue)
               begin == FirstStep[job[h].kind]
    <3>1. at' = [at EXCEPT ![h] = begin] \/ at' = [at EXCEPT ![h] = "over"]
      BY <1>13 DEF StartWork
    <3> HIDE DEF h, begin
    <3>2. \E v : at' = [at EXCEPT ![h] = v]
      BY <3>1
    <3> QED
      BY <3>2 DEF h
  <2>7. \A i \in Job : at'[i] # "none" => at[i] # "none"
    BY <2>1, <2>6 DEF JobsInv, JobsTyped
  <2>2. /\ \A i \in Job : job'[i].session = job[i].session
        /\ \A i \in Job : at'[i] # "none" => at[i] # "none"
    BY <2>5, <2>7
  <2>3. JobsOfSessions'
    BY <2>2 DEF JobsOfSessions
  <2> QED
    BY <1>2, <1>3, <1>4, <1>13, <2>3 DEF StartWork, rows
<1>14. ASSUME NEW j \in Job, Step(j) PROVE SessionsInv'
  <2> DEFINE s == SessionOf(j)
  <2>1. at[j] # "none" /\ UNCHANGED <<recent, pruner>>
    BY <1>14 DEF Step, SaveRaw, SetColumns, LoadRaw, SaveClean, SaveBundle, SetAnalysis,
                 GiveUp, EndWork, Goto, rows
  <2>2. s \in Sessions
    BY <2>1, WorksForASession
  <2>3. /\ \A i \in Job : job'[i].session = job[i].session
        /\ \A i \in Job : at'[i] # "none" => at[i] # "none"
    BY <1>14, <2>1 DEF Step, SaveRaw, SetColumns, LoadRaw, SaveClean, SaveBundle, SetAnalysis,
                 GiveUp, EndWork, Conclude, LastResort, Goto, Update, JobsInv, JobsTyped
  <2>4. JobsOfSessions'
    BY <2>3 DEF JobsOfSessions
  <2>5. Rows' = Rows
    BY <1>3, <2>1
  <2>6. RowsAndFiles'
    <3> HIDE DEF s
    <3> USE DEF RowsAndFiles
    <3>1. CASE SaveRaw(j)
      BY <2>2, <2>5, <3>1 DEF SaveRaw, rows, s
    <3>2. CASE SetColumns(j)
      BY <2>5, <3>2 DEF SetColumns, files
    <3>3. CASE LoadRaw(j) \/ GiveUp(j) \/ EndWork(j)
      BY <2>5, <3>3 DEF LoadRaw, GiveUp, EndWork, rows, files
    <3>4. CASE SaveClean(j)
      BY <2>2, <2>5, <3>4 DEF SaveClean, rows, s
    <3>5. CASE SaveBundle(j)
      BY <2>2, <2>5, <3>5 DEF SaveBundle, rows, s
    <3>6. CASE SetAnalysis(j)
      BY <2>2, <2>5, <3>6 DEF SetAnalysis, files, Version
    <3> QED
      BY <1>14, <3>1, <3>2, <3>3, <3>4, <3>5, <3>6 DEF Step
  <2> QED
    BY <1>3, <1>4, <2>1, <2>4, <2>6
<1>15. ASSUME NEW j \in Job, Poll(j) PROVE SessionsInv'
  <2>1. JobsOfSessions'
    BY <1>15, Updated DEF Poll, JobsOfSessions, Update, JobsInv, JobsTyped
  <2> QED
    BY <1>2, <1>3, <1>4, <1>15, <2>1 DEF Poll, rows
<1>16. CASE PruneStart
  <2>1. Latest \subseteq Sessions
    BY RowsAreElements DEF Latest, OneRowEach
  <2>2. Busy \subseteq Sessions
    BY DEF Busy, JobsInv, JobsTyped
  <2>3. PrunerTyped'
    BY <1>1, <1>16, <2>1, <2>2 DEF PruneStart, PrunerTyped, RowsAndFiles
  <2> QED
    BY <1>2, <1>3, <1>5, <1>16, <2>3 DEF PruneStart, rows
<1>17. ASSUME NEW s \in Sessions, PruneWhole(s) PROVE SessionsInv'
  <2>1. PrunerTyped'
    BY <1>17 DEF PruneWhole, PrunerTyped
  <2>2. Forget(s) /\ UNCHANGED files /\ UNCHANGED jobs
    BY <1>17 DEF PruneWhole, Take
  <2>3. CASE s \in Rows
    BY <1>5, <1>10, <2>1, <2>2, <2>3
  <2>4. CASE s \notin Rows
    <3>1. recent' = recent
      BY <2>2, <2>4 DEF Forget, Without
    <3>2. RowsAndFiles'
      BY <1>3, <2>2, <2>4, <3>1 DEF Forget, RowsAndFiles, files, Version
    <3> QED
      BY <1>3, <1>5, <2>1, <2>2, <3>1, <3>2
  <2> QED
    BY <2>3, <2>4
<1>18. ASSUME NEW s \in Sessions, PruneFiles(s) PROVE SessionsInv'
  <2>1. raw' \subseteq raw /\ clean' \subseteq clean /\ bundle' \subseteq bundle
        /\ UNCHANGED <<rows, folder, jobs>>
    BY <1>18 DEF PruneFiles, Take
  <2>2. RowsAndFiles'
    BY <1>3, <2>1 DEF RowsAndFiles, rows
  <2>3. PrunerTyped'
    <3>1. PICK h \in SUBSET Sessions :
              pruner' = [pruner EXCEPT !.todo = pruner.todo \ {s}, !.hand = h]
      BY <1>18, Zenon DEF PruneFiles
    <3> QED
      BY <3>1 DEF PrunerTyped
  <2> QED
    BY <1>3, <1>5, <2>1, <2>2, <2>3 DEF rows
<1>19. CASE PruneMark
  <2>1. PrunerTyped'
    BY <1>19 DEF PruneMark, PrunerTyped
  <2>2. RowsAndFiles'
    BY <1>3, <1>19 DEF PruneMark, RowsAndFiles, files
  <2> QED
    BY <1>3, <1>5, <1>19, <2>1, <2>2 DEF PruneMark
<1>20. CASE PruneEnd
  BY <1>2, <1>3, <1>5, <1>20 DEF PruneEnd, PrunerTyped, NoRun, rows
<1>21. CASE Die
  <2>1. JobsOfSessions'
    BY <1>21 DEF Die, JobsOfSessions
  <2> QED
    BY <1>2, <1>3, <1>21, <2>1 DEF Die, PrunerTyped, NoRun, rows
<1>22. CASE ComeBack
  <2>1. \A j \in Job : job'[j].session = job[j].session
    BY <1>22 DEF ComeBack, JobsInv, JobsTyped
  <2>2. JobsOfSessions'
    BY <1>22, <2>1 DEF ComeBack, JobsOfSessions
  <2> QED
    BY <1>2, <1>3, <1>4, <1>22, <2>2 DEF ComeBack, rows
<1>23. CASE NewDay \/ UNCHANGED sessionVars
  BY <1>2, <1>3, <1>4, <1>5, <1>23 DEF NewDay, sessionVars, rows
<1> QED
  BY <1>7, <1>8, <1>9, <1>11, <1>12, <1>13, <1>14, <1>15, <1>16, <1>17, <1>18, <1>19, <1>20,
     <1>21, <1>22, <1>23 DEF SessionNext, Request, RetentionRun

(* The inductive invariant of the sessions, on top of that of their jobs. *)
LEMMA SessionsInvariant == SessionSpec => []SessionsInv
<1>1. SessionInit => SessionsInv
  BY SessionsInit
<1>2. JobsInv /\ SessionsInv /\ [SessionNext]_sessionVars => SessionsInv'
  BY SessionsStep
<1> QED
  BY <1>1, <1>2, JobsInvariant, PTL DEF SessionSpec

(* Rows, files, jobs and the memory of a run of retention keep their types:  *)
(* no session has two rows, whatever was opened, deleted or pruned, and      *)
(* nothing is said of a session without a row (create_session, touch_opened, *)
(* delete_session, run_retention).                                           *)
THEOREM SessionsTyped == SessionSpec => []SessionTypeOK
<1>1. ASSUME JobsInv, SessionsInv PROVE SessionTypeOK
  <2> USE <1>1 DEF SessionsInv, JobsInv
  <2>1. Rows \subseteq Sessions /\ IsInjective(recent)
    BY RowsAreElements DEF OneRowEach, IsInjective
  <2>2. /\ columns \subseteq Rows /\ archived \subseteq Rows
        /\ raw \subseteq folder /\ folder \subseteq Sessions
        /\ clean \cup bundle \subseteq folder /\ analysis \in [Sessions -> Version]
    BY DEF RowsAndFiles
  <2>3. \A j \in Job : job[j].status \in {"none"} \cup Unfinished \cup Final
    BY DEF JobsTyped, Statuses
  <2>4. ToSet(queue) \subseteq Job /\ lost \subseteq Job
    BY DEF JobsTyped, ToSet
  <2>5. pruner.keep \subseteq Sessions /\ pruner.todo \subseteq Sessions
    BY DEF PrunerTyped
  <2> QED
    BY <2>1, <2>2, <2>3, <2>4, <2>5 DEF SessionTypeOK
<1>2. JobsInv /\ SessionsInv => SessionTypeOK
  BY <1>1
<1> QED
  BY <1>2, JobsInvariant, SessionsInvariant, PTL

-----------------------------------------------------------------------------
(* The older half as one application.                                        *)

(* Its steps are steps of the senders or of the sessions: the application    *)
(* implements both specifications, and what is proved of them holds of it.   *)
THEOREM AppIsItsParts == AppSpec => LegacySpec /\ SessionSpec
<1>1. AppInit => LegacyInit /\ SessionInit
  BY DEF AppInit
<1>2. [AppNext]_legacyApp => [LegacyNext]_allVars
  BY DEF AppNext, Browser, legacyApp
<1>3. [AppNext]_legacyApp => [SessionNext]_sessionVars
  BY DEF AppNext, Browser, legacyApp
<1> QED
  BY <1>1, <1>2, <1>3, PTL DEF AppSpec, LegacySpec, SessionSpec

(* Nobody is reminded twice within the days of the dedupe and the outbox     *)
(* knows what was sent, beside typed sessions, when scans do not overlap     *)
(* (add_job runs a job once at a time; no scan by hand).                     *)
THEOREM RemindersAreAccounted == OneScan => (AppSpec => []RemindersAccounted)
<1> SUFFICES ASSUME OneScan PROVE AppSpec => []RemindersAccounted
  OBVIOUS
<1>1. LegacySpec => []LegacyTypeOK /\ []ReminderOnce /\ []ReceivedIsInOutbox
  BY LegacyTyped, RemindedOnce, OutboxKnowsTexts, PTL
<1>2. LegacyTypeOK /\ SessionTypeOK /\ ReminderOnce /\ ReceivedIsInOutbox => RemindersAccounted
  BY DEF RemindersAccounted
<1> QED
  BY <1>1, <1>2, AppIsItsParts, SessionsTyped, PTL

(* What holds of the parts holds of the whole: no job without a worker but   *)
(* those no end of which could be written, no result taken back, no campaign *)
(* that checked for fatigue for whom a reminder has just reached.            *)
THEOREM AppKeepsPromises == AppSpec => []NoOrphanedJob /\ DoneStands /\ CampaignsSeeReminders
  BY AppIsItsParts, NobodyWaitsForNothing, ResultsStand, RemindersSeen, PTL

=============================================================================
