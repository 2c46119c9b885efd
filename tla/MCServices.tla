------------------------------ MODULE MCServices ------------------------------
(***************************************************************************)
(* The services around the core for TLC: alert engine, notification        *)
(* queues, communication hub, deliveries and devices.  They share no state *)
(* here, so each behaviour exercises one of them, its scope, and the       *)
(* others rest in their initial states.                                    *)
(***************************************************************************)
EXTENDS Alerts, NotificationQueue, Communication, Deliveries, Devices, TLC

CONSTANT Scopes    \* the scopes to be explored

VARIABLE scope

mcVars == <<scope, alertVars, queueVars, commVars, deliveryVars, deviceVars>>

\* One initial state of each service, for the behaviours of the others.
AlertsRest ==
    /\ rule = [operator |-> "GT", hours |-> <<0, 0>>, active |-> FALSE, deleted |-> FALSE]
    /\ minute = 0 /\ alerts = <<>> /\ evaluating = [e \in Events |-> Outside] /\ mailed = {}
CommRests ==
    /\ setup = [mail |-> <<>>, sms |-> <<>>, clients |-> {}]
    /\ stored = NoPreferences /\ subscribed = {} /\ call = AtRest /\ delivered = NothingDelivered

MCInit ==
    /\ scope \in Scopes
    /\ IF scope = "alerts" THEN AlertsInit ELSE AlertsRest
    /\ IF scope = "hub" THEN CommInit ELSE CommRests
    /\ QueueInit /\ DeliveriesInit /\ DevicesInit

MCNext ==
    /\ UNCHANGED scope
    /\ \/ /\ scope = "alerts" /\ AlertsNext
          /\ UNCHANGED <<queueVars, commVars, deliveryVars, deviceVars>>
       \/ /\ scope = "queue" /\ QueueNext
          /\ UNCHANGED <<alertVars, commVars, deliveryVars, deviceVars>>
       \/ /\ scope = "hub" /\ CommNext
          /\ UNCHANGED <<alertVars, queueVars, deliveryVars, deviceVars>>
       \/ /\ scope = "deliveries" /\ DeliveriesNext
          /\ UNCHANGED <<alertVars, queueVars, commVars, deviceVars>>
       \/ /\ scope = "devices" /\ DeviceNext
          /\ UNCHANGED <<alertVars, queueVars, commVars, deliveryVars>>
       \/ /\ scope = "commands" /\ CommandNext
          /\ UNCHANGED <<alertVars, queueVars, commVars, deliveryVars>>

MCSpec == MCInit /\ [][MCNext]_mcVars

\* Only the devices: every permutation is tried on every state of every scope.
Symmetry == Permutations(DeviceIds)

==============================================================================
