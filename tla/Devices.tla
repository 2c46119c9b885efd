------------------------------- MODULE Devices --------------------------------
(***************************************************************************)
(* Devices: registering and reporting, the check that marks silent devices  *)
(* offline, health records, and commands sent over MQTT.  Time is counted  *)
(* in units of which OfflineAfter make the check's fifteen minutes and      *)
(* HealthOfflineAfter the thirty of the health check.  What findOne reads    *)
(* may come from the cache (CacheAside), so a command may go by an older   *)
(* status.                                                                 *)
(***************************************************************************)
EXTENDS Integers, FiniteSets

CONSTANTS DeviceIds, Commands,
          OfflineAfter, HealthOfflineAfter,
          MaxTime      \* bound on time

ASSUME DevicesAssumption == OfflineAfter \in Nat /\ HealthOfflineAfter \in Nat

VARIABLES device,      \* device -> its row, or Unregistered
          time,        \* now
          check,       \* the status check: the devices it has found, and when it looked for them
          touched,     \* history: devices others wrote since then
          health,      \* device -> the status a health check is about to write, or "none"
          connected,   \* MqttService.connected
          command,     \* command -> its row's status and where its call is
          published,   \* history: how often each command went out
          broken,      \* history: commands of which a write failed
          refused      \* history: registrations that were refused

deviceVars == <<device, time, check, touched, health, connected, command, published, broken, refused>>

Unregistered == [status |-> "none", seen |-> -1, active |-> FALSE, updating |-> FALSE]
Statuses == {"ONLINE", "OFFLINE", "MAINTENANCE", "ERROR"}
Registered == {d \in DeviceIds : device[d] # Unregistered}
NoCheck == [pc |-> "idle", due |-> {}, at |-> 0]
NoCommand == [row |-> "none", pc |-> "idle", device |-> "none", firmware |-> FALSE]

DevicesInit ==
    /\ device = [d \in DeviceIds |-> Unregistered]
    /\ time = 0
    /\ check = NoCheck /\ touched = {}
    /\ health = [d \in DeviceIds |-> "none"]
    /\ connected = FALSE
    /\ command = [c \in Commands |-> NoCommand]
    /\ published = [c \in Commands |-> 0]
    /\ broken = {} /\ refused = {}

Write(d, row) == device' = [device EXCEPT ![d] = row] /\ touched' = touched \cup {d}

(***************************************************************************)
(* Registration and reports.                                               *)
(***************************************************************************)
CreateDevice(d) ==
    /\ d \notin Registered
    /\ Write(d, [status |-> "OFFLINE", seen |-> -1, active |-> TRUE, updating |-> FALSE])
    /\ UNCHANGED <<time, check, health, connected, command, published, broken, refused>>

\* An unknown serial number finds a device whose own contains it (here any registered one may), or else
\* any active device; and what is found sends registerDevice to updateBySerialNumber, which knows no such
\* number.
RegisterDevice(d, status, namesFirmware) ==
    /\ \/ /\ d \in Registered \/ \A e \in Registered : ~device[e].active
          /\ Write(d, [status |-> status, seen |-> time, active |-> TRUE,
                       updating |-> device[d].updating /\ ~namesFirmware])
          /\ UNCHANGED refused
       \/ /\ d \notin Registered /\ Registered # {}
          /\ refused' = refused \cup {d}
          /\ UNCHANGED <<device, touched>>
    /\ UNCHANGED <<time, check, health, connected, command, published, broken>>

UpdateDeviceBySerial(d, status) ==
    /\ d \in Registered
    /\ Write(d, [device[d] EXCEPT !.status = status, !.seen = time])
    /\ UNCHANGED <<time, check, health, connected, command, published, broken, refused>>

SetActivation(d) ==
    /\ d \in Registered
    /\ Write(d, [device[d] EXCEPT !.active = ~@])
    /\ UNCHANGED <<time, check, health, connected, command, published, broken, refused>>

(***************************************************************************)
(* The status check and health records.                                    *)
(***************************************************************************)
Overdue_ByHealth(d) ==
    device[d].status = "ONLINE" /\ device[d].seen >= 0 /\ device[d].seen < time - HealthOfflineAfter
Overdue(d) == device[d].status = "ONLINE" /\ device[d].seen >= 0 /\ device[d].seen < time - OfflineAfter

StatusCheckFind ==
    /\ check.pc # "marking"
    /\ LET due == {d \in Registered : Overdue(d)}
       IN  check' = [pc |-> IF due = {} THEN "done" ELSE "marking", due |-> due, at |-> time]
    /\ touched' = {}
    /\ UNCHANGED <<device, time, health, connected, command, published, broken, refused>>

\* One by one, without looking again whether the device has reported meanwhile.
StatusCheckMark(d) ==
    /\ check.pc = "marking" /\ d \in check.due
    /\ device' = [device EXCEPT ![d].status = "OFFLINE"]
    /\ check' = [check EXCEPT !.due = @ \ {d}, !.pc = IF check.due = {d} THEN "done" ELSE "marking"]
    /\ UNCHANGED <<time, touched, health, connected, command, published, broken, refused>>

MapHealthToDeviceStatus(h) ==
    CASE h \in {"HEALTHY", "WARNING"} -> "ONLINE" [] h = "CRITICAL" -> "ERROR"
      [] h = "MAINTENANCE" -> "MAINTENANCE" [] OTHER -> "OFFLINE"

\* A health record that changes the status counts as a sign of life, whatever it says.
RecordHealth(d, h) ==
    /\ d \in Registered
    /\ LET status == MapHealthToDeviceStatus(h)
       IN  IF device[d].status = status THEN UNCHANGED <<device, touched>>
           ELSE Write(d, [device[d] EXCEPT !.status = status, !.seen = time])
    /\ UNCHANGED <<time, check, connected, command, published, broken, refused>>

RecordDeviceHealthBy(d, h) == RecordHealth(d, h) /\ UNCHANGED health

\* The middle answer, WARNING after ten minutes, maps to ONLINE as HEALTHY does.
DetermineHealthStatus(d) ==
    IF device[d].seen < 0 \/ time - device[d].seen > HealthOfflineAfter THEN "OFFLINE" ELSE "HEALTHY"

PerformHealthCheck(d) ==
    /\ d \in Registered /\ health[d] = "none"
    /\ health' = [health EXCEPT ![d] = DetermineHealthStatus(d)]
    /\ UNCHANGED <<device, time, check, touched, connected, command, published, broken, refused>>

HealthCheckRecords(d) ==
    /\ health[d] # "none"
    /\ RecordHealth(d, health[d])
    /\ health' = [health EXCEPT ![d] = "none"]

(***************************************************************************)
(* Commands.                                                               *)
(***************************************************************************)
\* The row's status, or an older one from the cache (stale), is not OFFLINE.
SendCommandCreate(c, d, firmware, stale) ==
    /\ command[c] = NoCommand /\ d \in Registered
    /\ device[d].status # "OFFLINE" \/ stale
    /\ command' = [command EXCEPT ![c] = [row |-> "pending", pc |-> "publish", device |-> d, firmware |-> firmware]]
    /\ UNCHANGED <<device, time, check, touched, health, connected, published, broken, refused>>

Step(c, pc) == command' = [command EXCEPT ![c].pc = pc]

Publish_Resolves(c, error) ==
    /\ command[c].pc = "publish"
    /\ Step(c, "sent")
    /\ published' = IF connected /\ ~error THEN [published EXCEPT ![c] = @ + 1] ELSE published
    /\ UNCHANGED <<device, time, check, touched, health, connected, broken, refused>>

\* Rejected at once without a connection, or by the client's callback.
Publish(c, error) ==
    /\ command[c].pc = "publish"
    /\ Step(c, IF connected /\ ~error THEN "sent" ELSE "failed")
    /\ published' = IF connected /\ ~error THEN [published EXCEPT ![c] = @ + 1] ELSE published
    /\ UNCHANGED <<device, time, check, touched, health, connected, broken, refused>>

\* When the write of sent fails, the command is marked failed.
MarkCommandSent(c, error) ==
    /\ command[c].pc = "sent"
    /\ command' = [command EXCEPT ![c].row = IF error THEN @ ELSE "sent",
                                  ![c].pc = IF error THEN "failed" ELSE IF command[c].firmware THEN "firmware" ELSE "over"]
    /\ broken' = IF error THEN broken \cup {c} ELSE broken
    /\ UNCHANGED <<device, time, check, touched, health, connected, published, refused>>

MarkCommandFailed(c, error) ==
    /\ command[c].pc = "failed"
    /\ command' = [command EXCEPT ![c].row = IF error THEN @ ELSE "failed", ![c].pc = "over"]
    /\ broken' = IF error THEN broken \cup {c} ELSE broken
    /\ UNCHANGED <<device, time, check, touched, health, connected, published, refused>>

\* updateFirmware after its command was sent; the device row says so until a registration names a version.
WriteFirmware(c) ==
    /\ command[c].pc = "firmware"
    /\ Write(command[c].device, [device[command[c].device] EXCEPT !.updating = TRUE])
    /\ Step(c, "over")
    /\ UNCHANGED <<time, check, health, connected, published, broken, refused>>

ProcessStops(c) ==
    /\ command[c].pc \in {"publish", "sent", "failed", "firmware"}
    /\ Step(c, "over")
    /\ broken' = broken \cup {c}
    /\ UNCHANGED <<device, time, check, touched, health, connected, published, refused>>

Connect ==
    /\ connected' = ~connected
    /\ UNCHANGED <<device, time, check, touched, health, command, published, broken, refused>>

TimePasses ==
    /\ time < MaxTime /\ time' = time + 1
    /\ UNCHANGED <<device, check, touched, health, connected, command, published, broken, refused>>

DeviceNext ==
    \/ StatusCheckFind \/ TimePasses
    \/ \E d \in DeviceIds :
        \/ CreateDevice(d) \/ SetActivation(d)
        \/ \E status \in Statuses : RegisterDevice(d, status, FALSE) \/ UpdateDeviceBySerial(d, status)
        \/ StatusCheckMark(d)
        \/ \E h \in {"HEALTHY", "WARNING", "CRITICAL", "OFFLINE", "MAINTENANCE"} : RecordDeviceHealthBy(d, h)
        \/ PerformHealthCheck(d) \/ HealthCheckRecords(d)

CommandNext ==
    \/ \E d \in DeviceIds, status \in Statuses, namesFirmware \in BOOLEAN :
           RegisterDevice(d, status, namesFirmware) \/ UpdateDeviceBySerial(d, status)
    \/ Connect
    \/ \E c \in Commands :
           \/ \E d \in DeviceIds : \E firmware, stale \in BOOLEAN : SendCommandCreate(c, d, firmware, stale)
           \/ \E error \in BOOLEAN : Publish(c, error) \/ MarkCommandSent(c, error) \/ MarkCommandFailed(c, error)
           \/ WriteFirmware(c) \/ ProcessStops(c)

DevicesSpec == DevicesInit /\ [][DeviceNext \/ CommandNext]_deviceVars

(***************************************************************************)
(* Properties.                                                             *)
(***************************************************************************)
\* When a status check has ended, no device is ONLINE that had been silent for
\* longer than the check's threshold when it began, except those others wrote in
\* the meantime; and a device that is ONLINE has been heard of.
NoneOnlineForLong ==
    /\ check.pc = "done" => \A d \in Registered \ touched :
           device[d].status = "ONLINE" => device[d].seen >= check.at - OfflineAfter
    /\ \A d \in Registered : device[d].status = "ONLINE" => device[d].seen >= 0

\* The history of commands says what the device was sent: a command is recorded
\* sent only if it was published, once; and unless a write failed or the process
\* stopped, one that was published and is over is recorded sent and one recorded failed
\* was not published.  A device is shown as updating only when an update went out to it.
CommandsRecorded ==
    /\ \A c \in Commands :
           /\ command[c].row = "sent" => published[c] = 1
           /\ command[c].pc = "over" /\ c \notin broken =>
                  command[c].row = IF published[c] = 1 THEN "sent" ELSE "failed"
    /\ \A d \in Registered : device[d].updating =>
           \E c \in Commands : command[c].firmware /\ command[c].device = d /\ published[c] = 1

\* A new device can register, whoever is registered already: as iot-devices.controller.ts describes it,
\* "Register a new IoT device or update existing device."
RegistrationAccepted == refused = {}

==============================================================================
