-------------------------------- MODULE Alerts --------------------------------
(***************************************************************************)
(* The alert engine: one alert rule; calls of evaluateEvent that overlap,   *)
(* each reading the rule, then the last alert, then writing; the alerts'    *)
(* history; and which alerts got a job in the mail queue.                   *)
(***************************************************************************)
EXTENDS Integers, Sequences, FiniteSets

CONSTANTS Events,      \* calls of evaluateEvent that may overlap
          Cooldown,    \* the rule's cooldownMinutes
          MaxMinute,   \* bound on time
          MaxAlerts    \* bound on alerts

ASSUME AlertsAssumption == Cooldown \in Nat \ {0} /\ IsFiniteSet(Events)

VARIABLES rule,        \* the rule: operator and active hours (rigid), active, deleted
          minute,      \* now
          alerts,      \* the alerts in the order they were created
          evaluating,  \* where each call of evaluateEvent is
          mailed       \* the alerts whose mail was queued

alertVars == <<rule, minute, alerts, evaluating, mailed>>

Operators == {"GT", "GTE", "LT", "LTE", "EQ", "NE", "BETWEEN", "IN"}
Threshold == 1
Outside == [pc |-> "idle"]

AlertsInit ==
    /\ \E op \in Operators, hours \in {<<0, MaxMinute>>, <<1, MaxMinute - 1>>, <<MaxMinute, 0>>} :
           rule = [operator |-> op, hours |-> hours, active |-> TRUE, deleted |-> FALSE]
    /\ minute = 0
    /\ alerts = <<>>
    /\ evaluating = [e \in Events |-> Outside]
    /\ mailed = {}

(***************************************************************************)
(* Evaluating an event.                                                    *)
(***************************************************************************)
CheckCondition(op, value) ==
    CASE op = "GT" -> value > Threshold
      [] op = "GTE" -> value >= Threshold
      [] op = "LT" -> value < Threshold
      [] op = "LTE" -> value <= Threshold
      [] op = "EQ" -> value = Threshold
      [] op = "NE" -> value # Threshold
      [] op = "BETWEEN" -> value >= Threshold /\ value <= Threshold + 1
      [] op = "IN" -> value \in {Threshold}

\* A range over midnight (start after end) contains no time at all.
IsWithinActiveHours(now) == now >= rule.hours[1] /\ now <= rule.hours[2]

EvaluateEvent(e, value) ==
    /\ evaluating[e] = Outside
    /\ rule.active /\ ~rule.deleted
    /\ CheckCondition(rule.operator, value) /\ IsWithinActiveHours(minute)
    /\ evaluating' = [evaluating EXCEPT ![e] = [pc |-> "cooldown"]]
    /\ UNCHANGED <<rule, minute, alerts, mailed>>

InCooldown_Mailed == Len(alerts) \in mailed /\ minute < alerts[Len(alerts)].at + Cooldown

InCooldown == alerts # <<>> /\ minute < alerts[Len(alerts)].at + Cooldown

IsInCooldown(e) ==
    /\ evaluating[e].pc = "cooldown"
    /\ evaluating' = [evaluating EXCEPT ![e] = IF InCooldown THEN Outside ELSE [pc |-> "create"]]
    /\ UNCHANGED <<rule, minute, alerts, mailed>>

\* The alert's row cannot be inserted when its rule is gone: the error is caught and logged.
CreateAlert(e) ==
    /\ evaluating[e].pc = "create"
    /\ Len(alerts) < MaxAlerts
    /\ IF rule.deleted
       THEN /\ evaluating' = [evaluating EXCEPT ![e] = Outside]
            /\ UNCHANGED alerts
       ELSE /\ alerts' = Append(alerts, [at |-> minute, status |-> "PENDING"])
            /\ evaluating' = [evaluating EXCEPT ![e] = [pc |-> "notify", alert |-> Len(alerts) + 1]]
    /\ UNCHANGED <<rule, minute, mailed>>

\* The job is queued, or the queue refuses it and the alert stays without a mail.
SendNotifications(e, queued) ==
    /\ evaluating[e].pc = "notify"
    /\ mailed' = IF queued THEN mailed \cup {evaluating[e].alert} ELSE mailed
    /\ evaluating' = [evaluating EXCEPT ![e] = Outside]
    /\ UNCHANGED <<rule, minute, alerts>>

(***************************************************************************)
(* Rules and history.                                                      *)
(***************************************************************************)
ToggleRule ==
    /\ ~rule.deleted
    /\ rule' = [rule EXCEPT !.active = ~@]
    /\ UNCHANGED <<minute, alerts, evaluating, mailed>>

\* The alerts' foreign key forbids deleting a rule that has any.
RemoveRule ==
    /\ ~rule.deleted /\ alerts = <<>>
    /\ rule' = [rule EXCEPT !.deleted = TRUE]
    /\ UNCHANGED <<minute, alerts, evaluating, mailed>>

ChangeStatus(a, status) ==
    /\ alerts' = [alerts EXCEPT ![a].status = status]
    /\ UNCHANGED <<rule, minute, evaluating, mailed>>
AcknowledgeAlert(a) == ChangeStatus(a, "ACKNOWLEDGED")
ResolveAlert(a) == ChangeStatus(a, "RESOLVED")

AutoResolveStaleAlerts ==
    /\ alerts' = [a \in DOMAIN alerts |-> IF alerts[a].status = "PENDING" /\ alerts[a].at < minute
                                          THEN [alerts[a] EXCEPT !.status = "RESOLVED"] ELSE alerts[a]]
    /\ UNCHANGED <<rule, minute, evaluating, mailed>>

MinutePasses ==
    /\ minute < MaxMinute
    /\ minute' = minute + 1
    /\ UNCHANGED <<rule, alerts, evaluating, mailed>>

AlertsNext ==
    \/ \E e \in Events :
           \/ \E value \in 0..(Threshold + 1) : EvaluateEvent(e, value)
           \/ IsInCooldown(e) \/ CreateAlert(e)
           \/ \E queued \in BOOLEAN : SendNotifications(e, queued)
    \/ ToggleRule \/ RemoveRule \/ MinutePasses \/ AutoResolveStaleAlerts
    \/ \E a \in DOMAIN alerts : AcknowledgeAlert(a) \/ ResolveAlert(a)

AlertsSpec == AlertsInit /\ [][AlertsNext]_alertVars

(***************************************************************************)
(* Properties.                                                             *)
(***************************************************************************)
\* The cooldown is looked up before the alert is created, so overlapping events
\* may each create one; but no more than one each, however long they take: within
\* a cooldown period there are never more alerts than calls that can overlap.
CooldownBounds ==
    \A a \in DOMAIN alerts :
        Cardinality({b \in a..Len(alerts) : alerts[b].at < alerts[a].at + Cooldown}) <= Cardinality(Events)

==============================================================================
