---------------------------- MODULE MCBackOffice ----------------------------
(***************************************************************************)
(* The components behind the API that the payment path does not go         *)
(* through.  They share no state, so that a behaviour follows one of them  *)
(* and leaves the others in their initial states: nothing is lost but the  *)
(* product of their state spaces.                                          *)
(***************************************************************************)
EXTENDS Reviews, AdminAlerts, MCRequestLimits, Groups, Mail, NotificationPrefs,
        InAppNotifications, Merchants, Access, Reports, Exports, Rankings, Fees, TLC

CONSTANTS d1, d2

\* Both disputes are about one payment.
Disputed == [d \in {d1, d2} |-> "payment"]

\* Years of two months; the first month of the third year is longer than those
\* of the years around it.
Starts == <<0, 2, 5, 7, 10, 13, 16, 18, 21, 23, 26>>

Input(preset, from, to) == [preset |-> preset, from |-> from, to |-> to]

\* No range; a year to the day; and a year and a day, which is refused.
Inputs == {NoInput, Input("none", 12, 17), Input("custom", 12, 18)}

\* Of two statuses one has an event.
Statuses == {"pending", "confirmed"}
Events == [s \in {"confirmed"} |-> "payment.confirmed"]

VARIABLE focus

vars ==
    <<focus, reviewVars, alertVars, limitVars, groupVars, mailVars,
      prefVars, noteVars, merchantVars, reportVars, exportVars, rankVars,
      feeVars, accessVars>>

\* The components with several initial states have them when they are followed.
Init ==
    /\ focus \in {"reviews", "alerts", "requests", "groups", "mail", "preferences", "hooks",
                  "notifications", "merchants", "reports", "exports", "rankings", "fees",
                  "access"}
    /\ ReviewInit /\ AlertInit /\ LimitInit /\ GroupInit /\ MailInit /\ PrefInit
    /\ NoteInit /\ MerchantInit /\ ReportInit /\ ExportInit /\ RankInit /\ FeeInit
    /\ focus # "merchants" => merchant.role = "merchant"
    /\ focus # "preferences" => \A e \in EventType : prefs[<<"sms", e>>] = "unset"
    /\ focus # "rankings" => \A m \in RankedMerchant : volume[m] = 0
    /\ IF focus = "access" THEN AccessInit
       ELSE request = "none" /\ verdict = "none" /\ bypassLogged = FALSE

Next ==
    /\ UNCHANGED focus
    /\ \/ /\ focus = "reviews" /\ ReviewNext
          /\ UNCHANGED <<alertVars, limitVars, groupVars, mailVars,
                        prefVars, noteVars, merchantVars, reportVars,
                        exportVars, rankVars, feeVars, accessVars>>
       \/ /\ focus = "alerts" /\ AlertNext
          /\ UNCHANGED <<reviewVars, limitVars, groupVars, mailVars,
                        prefVars, noteVars, merchantVars, reportVars,
                        exportVars, rankVars, feeVars, accessVars>>
       \/ /\ focus = "requests" /\ LimitNext
          /\ UNCHANGED <<reviewVars, alertVars, groupVars, mailVars,
                        prefVars, noteVars, merchantVars, reportVars,
                        exportVars, rankVars, feeVars, accessVars>>
       \/ /\ focus = "groups" /\ GroupNext
          /\ UNCHANGED <<reviewVars, alertVars, limitVars, mailVars,
                        prefVars, noteVars, merchantVars, reportVars,
                        exportVars, rankVars, feeVars, accessVars>>
       \/ /\ focus = "mail" /\ MailNext
          /\ UNCHANGED <<reviewVars, alertVars, limitVars, groupVars,
                        prefVars, noteVars, merchantVars, reportVars,
                        exportVars, rankVars, feeVars, accessVars>>
       \/ /\ \/ focus = "preferences" /\ UpdatesNext
             \/ focus = "hooks" /\ HooksNext
          /\ UNCHANGED <<reviewVars, alertVars, limitVars, groupVars,
                        mailVars, noteVars, merchantVars, reportVars,
                        exportVars, rankVars, feeVars, accessVars>>
       \/ /\ focus = "notifications" /\ NoteNext
          /\ UNCHANGED <<reviewVars, alertVars, limitVars, groupVars,
                        mailVars, prefVars, merchantVars, reportVars,
                        exportVars, rankVars, feeVars, accessVars>>
       \/ /\ focus = "merchants" /\ MerchantNext
          /\ UNCHANGED <<reviewVars, alertVars, limitVars, groupVars,
                        mailVars, prefVars, noteVars, reportVars,
                        exportVars, rankVars, feeVars, accessVars>>
       \/ /\ focus = "reports" /\ ReportNext
          /\ UNCHANGED <<reviewVars, alertVars, limitVars, groupVars,
                        mailVars, prefVars, noteVars, merchantVars,
                        exportVars, rankVars, feeVars, accessVars>>
       \/ /\ focus = "exports" /\ ExportNext
          /\ UNCHANGED <<reviewVars, alertVars, limitVars, groupVars,
                        mailVars, prefVars, noteVars, merchantVars,
                        reportVars, rankVars, feeVars, accessVars>>
       \/ /\ focus = "rankings" /\ RankNext
          /\ UNCHANGED <<reviewVars, alertVars, limitVars, groupVars,
                        mailVars, prefVars, noteVars, merchantVars,
                        reportVars, exportVars, feeVars, accessVars>>
       \/ /\ focus = "fees" /\ FeeNext
          /\ UNCHANGED <<reviewVars, alertVars, limitVars, groupVars,
                        mailVars, prefVars, noteVars, merchantVars,
                        reportVars, exportVars, rankVars, accessVars>>
       \/ /\ focus = "access" /\ AccessNext
          /\ UNCHANGED <<reviewVars, alertVars, limitVars, groupVars,
                        mailVars, prefVars, noteVars, merchantVars,
                        reportVars, exportVars, rankVars, feeVars>>

Spec == Init /\ [][Next]_vars
=============================================================================
