------------------------------- MODULE Alerts -------------------------------
(***************************************************************************)
(* Alert rules: a background task evaluates them one after another against  *)
(* the stored metrics, suppresses what it has just said and sends the rest. *)
(*   crates/pingap-controlplane/src/alerts/scheduler.rs    evaluate_once    *)
(*   crates/pingap-controlplane/src/alerts/suppression.rs  decide           *)
(*   crates/pingap-controlplane/src/alerts/dispatch.rs     send             *)
(*   src/projection.rs                             AlertEvaluationTask      *)
(* A rule is the position list_alert_rules gives it, the metric it watches  *)
(* is above its threshold or not, and time is counted in ticks of the task. *)
(* Nothing reads the history rows back: only whether writing them ends the  *)
(* tick is kept.                                                            *)
(***************************************************************************)
EXTENDS Naturals

CONSTANTS
    NumRules,         \* rows of list_alert_rules
    Channels,         \* rows of list_notification_channels
    ReminderTicks,    \* Suppression::window_secs
    Moving,           \* bound: the rules that are edited or whose metric moves
    MaxMishaps        \* bound: ticks cut short by the store or by a restart

ASSUME AlertAssumption == {NumRules, ReminderTicks, MaxMishaps} \subseteq Nat

Rules == 1..NumRules

VARIABLES
    watched,      \* by rule: "off" (disabled), "low", or "high" (its comparator matches)
    reachable,    \* the channels that are enabled and whose transport delivers
    suppression,  \* Suppression::states: the last evaluation and the ticks since it was sent
    alertTick,    \* evaluate_once: the rule it stands at and what is left to send for it
    told,         \* by rule and channel, the last evaluation delivered; "ok" before the first
    mishaps       \* ticks cut short so far

alertVars == <<watched, reachable, suppression, alertTick, told, mishaps>>

NeverSent == [evaluation |-> "none", age |-> 0]
Waiting == [pc |-> "idle", rule |-> 0, evaluation |-> "none", left |-> {}]

AlertInit ==
    /\ watched = [r \in Rules |-> "low"]
    /\ reachable = Channels
    /\ suppression = [r \in Rules |-> NeverSent]
    /\ alertTick = Waiting
    /\ told = [r \in Rules |-> [c \in Channels |-> "ok"]]
    /\ mishaps = 0

\* traffic moves what a rule watches over or under its threshold, or the rule is edited
MetricMoves(r) ==
    /\ r \in Moving
    /\ \E w \in {"off", "low", "high"} \ {watched[r]} : watched' = [watched EXCEPT ![r] = w]
    /\ UNCHANGED <<reachable, suppression, alertTick, told, mishaps>>

\* a channel is edited, or its transport goes away or comes back
ChannelChanges(c) ==
    /\ reachable' = (reachable \ {c}) \cup ({c} \ reachable)
    /\ UNCHANGED <<watched, suppression, alertTick, told, mishaps>>

SentEarlier(s) ==
    IF s = NeverSent \/ s.age = ReminderTicks THEN s ELSE [s EXCEPT !.age = @ + 1]

\* execute: one `now` for the whole tick.  It lists rules and channels once at its start;
\* an edit during the tick is taken as made at its end, where the next tick sees it.
AlertTickBegins ==
    /\ alertTick.pc = "idle"
    /\ alertTick' = [Waiting EXCEPT !.pc = "rule", !.rule = 1]
    /\ suppression' = [r \in Rules |-> SentEarlier(suppression[r])]
    /\ UNCHANGED <<watched, reachable, told, mishaps>>

NextRule == [Waiting EXCEPT !.pc = "rule", !.rule = alertTick.rule + 1]

\* a read of the metrics fails: `?` gives up the remaining rules
ReadFails ==
    /\ alertTick.pc = "rule" /\ alertTick.rule \in Rules
    /\ mishaps < MaxMishaps
    /\ mishaps' = mishaps + 1
    /\ alertTick' = Waiting
    /\ UNCHANGED <<watched, reachable, suppression, told>>

\* Mutant: only a change is ever announced.
FiresOnChange(prior, evaluation) == prior.evaluation # evaluation

\* decide: a change is announced at once, the same again when the window has passed
Fires(prior, evaluation) ==
    prior.evaluation # evaluation \/ prior.age >= ReminderTicks

\* evaluate: what the comparator makes of the window's samples
Evaluation(r) == IF watched[r] = "high" THEN "firing" ELSE "ok"

\* evaluate, decide; a disabled rule has no evaluation and leaves the suppression alone
Evaluate(r) ==
    /\ alertTick.pc = "rule" /\ alertTick.rule = r
    /\ LET evaluation == Evaluation(r)
       IN  IF watched[r] # "off" /\ Fires(suppression[r], evaluation)
           THEN /\ suppression' = [suppression EXCEPT ![r] =
                                     [evaluation |-> evaluation, age |-> 0]]
                /\ alertTick' = [alertTick EXCEPT !.pc = "send", !.evaluation = evaluation,
                                                  !.left = Channels]
           ELSE UNCHANGED suppression /\ alertTick' = NextRule
    /\ UNCHANGED <<watched, reachable, told, mishaps>>

\* Dispatch::new(1, ..).send: one attempt for each selected channel
SendAlert(c) ==
    /\ alertTick.pc = "send" /\ c \in alertTick.left
    /\ told' = IF c \in reachable
               THEN [told EXCEPT ![alertTick.rule][c] = alertTick.evaluation] ELSE told
    /\ alertTick' = [alertTick EXCEPT !.left = @ \ {c}]
    /\ UNCHANGED <<watched, reachable, suppression, mishaps>>

\* one history row per outcome, or one that says there was no channel
RecordHistory ==
    /\ alertTick.pc = "send" /\ alertTick.left = {}
    /\ alertTick' = NextRule
    /\ UNCHANGED <<watched, reachable, suppression, told, mishaps>>

\* a history row cannot be written: `?` gives up the remaining rules
RecordFails ==
    /\ alertTick.pc = "send" /\ alertTick.left = {}
    /\ mishaps < MaxMishaps
    /\ mishaps' = mishaps + 1
    /\ alertTick' = Waiting
    /\ UNCHANGED <<watched, reachable, suppression, told>>

AlertTickEnds ==
    /\ alertTick.pc = "rule" /\ alertTick.rule > NumRules
    /\ alertTick' = Waiting
    /\ UNCHANGED <<watched, reachable, suppression, told, mishaps>>

\* a new process starts with an empty Suppression, wherever the old one stood
NewProcess ==
    /\ mishaps < MaxMishaps
    /\ mishaps' = mishaps + 1
    /\ suppression' = [r \in Rules |-> NeverSent]
    /\ alertTick' = Waiting
    /\ UNCHANGED <<watched, reachable, told>>

\* evaluate_once goes on: at any time exactly one of these can happen
TaskProceeds ==
    \/ AlertTickBegins \/ RecordHistory \/ AlertTickEnds
    \/ \E r \in Rules : Evaluate(r)
    \/ \E c \in Channels : SendAlert(c)

AlertNext ==
    \/ TaskProceeds
    \/ \E r \in Rules : MetricMoves(r)
    \/ \E c \in Channels : ChannelChanges(c)
    \/ ReadFails \/ RecordFails \/ NewProcess

(* The task runs every minute, and a send answers or times out. *)
AlertSpec == AlertInit /\ [][AlertNext]_alertVars /\ WF_alertVars(TaskProceeds)

-----------------------------------------------------------------------------
(* Properties.                                                              *)

(* evaluate_once: whatever came before (sends that failed, ticks that were   *)
(* given up, a rule or channel switched off and on, a restart), a condition  *)
(* that stays is in the end the last thing every working channel was told,   *)
(* and so is its end.  A send is attempted once and marked as sent even when *)
(* it fails: only the reminder makes up for it.                              *)
AlertsAreHeard ==
    \A r \in Rules, c \in Channels :
        /\ <>[](watched[r] # "off" /\ c \in reachable)
        /\ <>[][UNCHANGED watched[r]]_alertVars
        => <>[](told[r][c] = Evaluation(r))
=============================================================================
