----------------------------- MODULE MCLegacyApp -----------------------------
(* The older half of the application: the reminder scan and the bulk text beside *)
(* the campaigns, and the uploads and analyses of the browser's sessions.  They *)
(* share no state but the process; a behaviour is about the one or the other.  *)
EXTENDS LegacyContact, AnalysisSessions

CONSTANTS
    ali, sara, daily, bulk,     \* model values: customers, a scan, a bulk text
    first, second               \* model values: sessions

OneStratum == [c \in Customers |-> "active"]

VARIABLE focus

legacyApp == <<allVars, sessionVars, focus>>

AppInit == LegacyInit /\ SessionInit /\ focus \in {"texts", "sessions"}

Browser(A) == focus = "sessions" /\ A /\ UNCHANGED <<allVars, focus>>
AppNext ==
    \/ focus = "texts" /\ LegacyNext /\ UNCHANGED <<sessionVars, focus>>
    \/ Browser(SessionNext)

(* SessionFairness, for the part that runs. *)
AppFairness ==
    /\ WF_legacyApp(Browser(StartWork))
    /\ \A j \in Job : WF_legacyApp(Browser(Step(j)))
    /\ WF_legacyApp(Browser(ComeBack))

AppSpec == AppInit /\ [][AppNext]_legacyApp /\ AppFairness

(* The outbox, the scans, the sessions and their files keep their types; nobody *)
(* is reminded twice within the days of the dedupe, across crashes between   *)
(* claiming and sending (run_cycle_scan), and what a customer received is in   *)
(* the outbox the campaigns read, once the sender has ended.                 *)
RemindersAccounted == LegacyTypeOK /\ SessionTypeOK /\ ReminderOnce /\ ReceivedIsInOutbox
=============================================================================
