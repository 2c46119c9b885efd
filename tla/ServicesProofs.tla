----------------------------- MODULE ServicesProofs -----------------------------
(***************************************************************************)
(* Proofs about the services around the core: devices and their commands,  *)
(* alerts, the notification queue, deliveries and the communication hub.   *)
(* They share no state; each has its own specification and its own         *)
(* inductive invariant.                                                    *)
(***************************************************************************)
EXTENDS Alerts, NotificationQueue, Communication, Deliveries, Devices, FiniteSetTheorems, TLAPS

-----------------------------------------------------------------------------
(***************************************************************************)
(* Devices.                                                                *)
(***************************************************************************)

DeviceRows == [status : Statuses \cup {"none"}, seen : Int, active : BOOLEAN, updating : BOOLEAN]
Checks == [pc : {"idle", "marking", "done"}, due : SUBSET DeviceIds, at : Nat]
HealthAnswers == {"OFFLINE", "HEALTHY"}

\* A device that is ONLINE has been heard of.
HeardOf(row) == row.status = "ONLINE" => row.seen >= 0

\* The check has seen to a device: it was heard of recently enough, or is not ONLINE.
SeenTo(row, at) == row.status = "ONLINE" => row.seen >= at - OfflineAfter

\* The half of the inductive invariant that is about the status check.
StatusInv ==
    /\ device \in [DeviceIds -> DeviceRows] /\ time \in Nat
    /\ check \in Checks /\ health \in [DeviceIds -> HealthAnswers \cup {"none"}]
    /\ \A d \in DeviceIds : HeardOf(device[d])
    /\ check.pc = "done" => check.due = {}
    /\ check.pc # "idle" => \A d \in DeviceIds \ (touched \cup check.due) : SeenTo(device[d], check.at)

CommandStatuses == {"pending", "sent", "failed"}
CommandPcs == {"publish", "sent", "failed", "firmware", "over"}
CommandRecords ==
    [row : CommandStatuses, pc : CommandPcs, device : DeviceIds, firmware : BOOLEAN]

\* What the row of a command may say, by where its call is and what went out.
CommandGood(k, n, isBroken) ==
    /\ n \in {0, 1}
    /\ k = NoCommand => n = 0
    /\ k.pc = "publish" => k.row = "pending" /\ n = 0
    /\ k.pc = "sent" => k.row = "pending" /\ n = 1
    /\ k.pc = "failed" => k.row = "pending" /\ (n = 1 => isBroken)
    /\ k.pc = "firmware" => k.row = "sent" /\ n = 1 /\ k.firmware
    /\ k.pc = "over" => /\ k.row = "sent" => n = 1
                        /\ ~isBroken => k.row = IF n = 1 THEN "sent" ELSE "failed"

\* The command that made a device update.
UpdateSent(d, k, n) == k.firmware /\ k.device = d /\ n = 1

\* The half that is about commands.
CommandInv ==
    /\ command \in [Commands -> CommandRecords \cup {NoCommand}]
    /\ published \in [Commands -> {0, 1}]
    /\ \A c \in Commands : CommandGood(command[c], published[c], c \in broken)
    /\ \A d \in DeviceIds : device[d].updating =>
           \E c \in Commands : UpdateSent(d, command[c], published[c])

\* A device that was never registered has no status, so it is not ONLINE.
LEMMA UnregisteredIsRow ==
    /\ Unregistered \in DeviceRows /\ Unregistered.status = "none" /\ Unregistered.updating = FALSE
    /\ Unregistered.status # "ONLINE"
BY DEF Unregistered, DeviceRows

\* Another's write of a row: the check does not answer for that device any more.
LEMMA WriteKeepsStatus ==
    ASSUME StatusInv, NEW d \in DeviceIds, NEW row \in DeviceRows, HeardOf(row), Write(d, row),
           UNCHANGED <<time, check>>, health' \in [DeviceIds -> HealthAnswers \cup {"none"}]
    PROVE  StatusInv'
<1>1. device' = [device EXCEPT ![d] = row] /\ touched' = touched \cup {d}
  BY DEF Write
<1>2. \A e \in DeviceIds : device'[e] = IF e = d THEN row ELSE device[e]
  BY <1>1 DEF StatusInv
<1>3. device' \in [DeviceIds -> DeviceRows]
  BY <1>1 DEF StatusInv
<1>4. \A e \in DeviceIds : HeardOf(device'[e])
  BY <1>2 DEF StatusInv
<1>5. check'.pc # "idle" =>
          \A e \in DeviceIds \ (touched' \cup check'.due) : SeenTo(device'[e], check'.at)
  BY <1>1, <1>2 DEF StatusInv
<1>6. QED
  BY <1>3, <1>4, <1>5 DEF StatusInv

\* Steps that write no row and leave the check alone.
LEMMA QuietKeepsStatus ==
    ASSUME StatusInv, UNCHANGED <<device, check, touched>>, time' \in Nat,
           health' \in [DeviceIds -> HealthAnswers \cup {"none"}]
    PROVE  StatusInv'
BY DEF StatusInv

\* The row after a report.
LEMMA RowReported ==
    ASSUME NEW row \in DeviceRows, NEW status \in Statuses, NEW now \in Nat
    PROVE  /\ [row EXCEPT !.status = status, !.seen = now] \in DeviceRows
           /\ HeardOf([row EXCEPT !.status = status, !.seen = now])
           /\ [row EXCEPT !.status = status, !.seen = now].updating = row.updating
<1>1. /\ [row EXCEPT !.status = status, !.seen = now] \in DeviceRows
      /\ [row EXCEPT !.status = status, !.seen = now].seen = now
      /\ [row EXCEPT !.status = status, !.seen = now].updating = row.updating
  <2> DEFINE S == Statuses \cup {"none"}
             Times == Int
  <2>1. status \in S /\ now \in Times /\ DeviceRows = [status : S, seen : Times, active : BOOLEAN, updating : BOOLEAN]
    BY DEF DeviceRows
  <2> HIDE DEF S, Times
  <2>2. QED
    BY <2>1
<1>2. now >= 0
  OBVIOUS
<1>3. QED
  BY <1>1, <1>2 DEF HeardOf

\* The row after the device is activated or deactivated.
LEMMA RowToggled ==
    ASSUME NEW row \in DeviceRows
    PROVE  /\ [row EXCEPT !.active = ~@] \in DeviceRows
           /\ HeardOf(row) => HeardOf([row EXCEPT !.active = ~@])
           /\ [row EXCEPT !.active = ~@].updating = row.updating
BY DEF DeviceRows, HeardOf

\* create and registerDevice.
LEMMA CreateKeepsStatus ==
    ASSUME StatusInv, NEW d \in DeviceIds, CreateDevice(d)
    PROVE  StatusInv'
<1> DEFINE row == [status |-> "OFFLINE", seen |-> -1, active |-> TRUE, updating |-> FALSE]
<1>1. row \in DeviceRows /\ HeardOf(row)
  BY DEF DeviceRows, Statuses, HeardOf
<1>2. Write(d, row) /\ UNCHANGED <<time, check, health>>
  BY DEF CreateDevice
<1> HIDE DEF row
<1>3. QED
  BY <1>1, <1>2, WriteKeepsStatus DEF StatusInv

\* The row registerDevice writes.
LEMMA RegisteredRow ==
    ASSUME NEW status \in Statuses, NEW now \in Nat, NEW updating \in BOOLEAN
    PROVE  /\ [status |-> status, seen |-> now, active |-> TRUE, updating |-> updating] \in DeviceRows
           /\ HeardOf([status |-> status, seen |-> now, active |-> TRUE, updating |-> updating])
BY DEF DeviceRows, HeardOf

\* A device registers, for the first time or again.
LEMMA RegisterKeepsStatus ==
    ASSUME StatusInv, NEW d \in DeviceIds, NEW status \in Statuses, NEW namesFirmware \in BOOLEAN,
           RegisterDevice(d, status, namesFirmware)
    PROVE  StatusInv'
<1> DEFINE updating == device[d].updating /\ ~namesFirmware
           row == [status |-> status, seen |-> time, active |-> TRUE, updating |-> updating]
<1>1. updating \in BOOLEAN /\ time \in Nat
  BY DEF StatusInv, DeviceRows
<1>2. UNCHANGED <<time, check, health>> /\ (Write(d, row) \/ UNCHANGED <<device, touched>>)
  BY DEF RegisterDevice
<1> HIDE DEF updating
<1>3. row \in DeviceRows /\ HeardOf(row)
  BY <1>1, RegisteredRow
<1> HIDE DEF row
<1>4. time' \in Nat /\ health' \in [DeviceIds -> HealthAnswers \cup {"none"}]
  BY <1>2 DEF StatusInv
<1>5. QED
  BY <1>2, <1>3, <1>4, WriteKeepsStatus, QuietKeepsStatus

\* Reports and activation.
LEMMA ReportKeepsStatus ==
    ASSUME StatusInv, NEW d \in DeviceIds,
           \/ SetActivation(d)
           \/ \E status \in Statuses : UpdateDeviceBySerial(d, status)
    PROVE  StatusInv'
<1> DEFINE old == device[d]
<1>1. /\ old \in DeviceRows /\ HeardOf(old) /\ time \in Nat
      /\ health \in [DeviceIds -> HealthAnswers \cup {"none"}] /\ "ONLINE" \in Statuses
  BY DEF StatusInv, Statuses
<1>2. UNCHANGED <<time, check, health>>
  BY Zenon DEF SetActivation, UpdateDeviceBySerial
<1>3. CASE SetActivation(d)
  <2> DEFINE row == [old EXCEPT !.active = ~@]
  <2>1. Write(d, row)
    BY <1>3 DEF SetActivation
  <2> HIDE DEF old
  <2>2. row \in DeviceRows /\ HeardOf(row)
    BY <1>1, RowToggled, Zenon
  <2> HIDE DEF row
  <2>3. QED
    BY <1>1, <1>2, <2>1, <2>2, WriteKeepsStatus
<1>4. ASSUME NEW status \in Statuses, UpdateDeviceBySerial(d, status) PROVE StatusInv'
  <2> DEFINE row == [old EXCEPT !.status = status, !.seen = time]
  <2>1. Write(d, row)
    BY <1>4 DEF UpdateDeviceBySerial
  <2> HIDE DEF old
  <2>2. row \in DeviceRows /\ HeardOf(row)
    BY <1>1, RowReported, Zenon
  <2> HIDE DEF row
  <2>3. QED
    BY <1>1, <1>2, <2>1, <2>2, WriteKeepsStatus
<1>5. QED
  BY <1>3, <1>4

\* A health record: a sign of life when it changes the status.
LEMMA RecordKeepsStatus ==
    ASSUME StatusInv, NEW d \in DeviceIds, NEW h, RecordHealth(d, h),
           health' \in [DeviceIds -> HealthAnswers \cup {"none"}]
    PROVE  StatusInv'
<1> DEFINE old == device[d]
           status == MapHealthToDeviceStatus(h)
           row == [old EXCEPT !.status = status, !.seen = time]
<1>1. old \in DeviceRows /\ time \in Nat
  BY DEF StatusInv
<1>2. status \in Statuses
  BY DEF MapHealthToDeviceStatus, Statuses
<1>3. UNCHANGED <<time, check>> /\ (Write(d, row) \/ UNCHANGED <<device, touched>>)
  BY DEF RecordHealth
<1> HIDE DEF old, status
<1>4. row \in DeviceRows /\ HeardOf(row)
  BY <1>1, <1>2, RowReported, Zenon
<1> HIDE DEF row
<1>5. QED
  BY <1>1, <1>3, <1>4, WriteKeepsStatus, QuietKeepsStatus

\* The two halves of a health check.
LEMMA HealthKeepsStatus ==
    ASSUME StatusInv, NEW d \in DeviceIds,
           \/ PerformHealthCheck(d) \/ HealthCheckRecords(d)
           \/ \E h \in {"HEALTHY", "WARNING", "CRITICAL", "OFFLINE", "MAINTENANCE"} :
                  RecordDeviceHealthBy(d, h)
    PROVE  StatusInv'
<1>1. /\ health \in [DeviceIds -> HealthAnswers \cup {"none"}] /\ time \in Nat
  BY DEF StatusInv
<1>2. CASE PerformHealthCheck(d)
  <2>1. DetermineHealthStatus(d) \in HealthAnswers
    BY DEF DetermineHealthStatus, HealthAnswers
  <2>2. health' \in [DeviceIds -> HealthAnswers \cup {"none"}] /\ UNCHANGED <<device, check, touched, time>>
    BY <1>1, <1>2, <2>1 DEF PerformHealthCheck
  <2>3. QED
    BY <1>1, <2>2, QuietKeepsStatus
<1>3. CASE HealthCheckRecords(d)
  <2>1. health' \in [DeviceIds -> HealthAnswers \cup {"none"}]
    BY <1>1, <1>3 DEF HealthCheckRecords
  <2>2. RecordHealth(d, health[d])
    BY <1>3 DEF HealthCheckRecords
  <2>3. QED
    BY <2>1, <2>2, RecordKeepsStatus
<1>4. ASSUME NEW h, RecordDeviceHealthBy(d, h) PROVE StatusInv'
  BY <1>1, <1>4, RecordKeepsStatus DEF RecordDeviceHealthBy
<1>5. QED
  BY <1>2, <1>3, <1>4

\* The check looks: whoever is not due has been heard of.
LEMMA FindKeepsStatus ==
    ASSUME StatusInv, StatusCheckFind
    PROVE  StatusInv'
<1> DEFINE due == {d \in Registered : Overdue(d)}
<1>1. /\ check' = [pc |-> IF due = {} THEN "done" ELSE "marking", due |-> due, at |-> time]
      /\ touched' = {} /\ UNCHANGED <<device, time, health>>
  BY DEF StatusCheckFind
<1>2. due \in SUBSET DeviceIds /\ time \in Nat
  BY DEF Registered, StatusInv
<1>3. ASSUME NEW d \in DeviceIds, d \notin due PROVE SeenTo(device[d], time)
  <2>1. SUFFICES ASSUME device[d].status = "ONLINE" PROVE device[d].seen >= time - OfflineAfter
    BY DEF SeenTo
  <2>2. d \in Registered
    BY <2>1, UnregisteredIsRow DEF Registered
  <2>3. device[d].seen \in Int /\ device[d].seen >= 0
    BY <2>1 DEF StatusInv, DeviceRows, HeardOf
  <2>4. ~(device[d].seen < time - OfflineAfter)
    BY <1>3, <2>1, <2>2, <2>3 DEF Overdue
  <2>5. QED
    BY <1>2, <2>3, <2>4, DevicesAssumption
<1> HIDE DEF due
<1>4. /\ check' \in Checks /\ check'.due = due /\ check'.at = time
      /\ check'.pc = "done" => check'.due = {}
  BY <1>1, <1>2 DEF Checks
<1>5. QED
  BY <1>1, <1>3, <1>4 DEF StatusInv

\* The check marks one of those it has found.
LEMMA MarkKeepsStatus ==
    ASSUME StatusInv, NEW d \in DeviceIds, StatusCheckMark(d)
    PROVE  StatusInv'
<1> DEFINE old == device[d]
           row == [old EXCEPT !.status = "OFFLINE"]
<1>1. /\ d \in check.due /\ check.pc = "marking" /\ device' = [device EXCEPT ![d] = row]
      /\ check' = [check EXCEPT !.due = @ \ {d}, !.pc = IF check.due = {d} THEN "done" ELSE "marking"]
      /\ UNCHANGED <<time, touched, health>>
  BY DEF StatusCheckMark
<1>2. old \in DeviceRows
  BY DEF StatusInv
<1> HIDE DEF old
<1>3. row \in DeviceRows /\ row.status = "OFFLINE"
  BY <1>2 DEF DeviceRows, Statuses
<1> HIDE DEF row
<1>4. \A e \in DeviceIds : device'[e] = IF e = d THEN row ELSE device[e]
  BY <1>1 DEF StatusInv
<1>5. device' \in [DeviceIds -> DeviceRows]
  BY <1>1, <1>3 DEF StatusInv
<1>6. \A e \in DeviceIds : HeardOf(device'[e])
  BY <1>3, <1>4 DEF StatusInv, HeardOf
<1>7. /\ check' \in Checks /\ check'.due = check.due \ {d} /\ check'.at = check.at
      /\ check'.pc = "done" => check'.due = {}
  BY <1>1 DEF StatusInv, Checks
<1>8. ASSUME NEW e \in DeviceIds \ (touched \cup check'.due) PROVE SeenTo(device'[e], check.at)
  <2>1. CASE e = d
    BY <1>3, <1>4, <2>1 DEF SeenTo
  <2>2. CASE e # d
    BY <1>1, <1>4, <1>7, <1>8, <2>2 DEF StatusInv
  <2>3. QED
    BY <2>1, <2>2
<1>9. QED
  BY <1>1, <1>5, <1>6, <1>7, <1>8 DEF StatusInv


\* updateFirmware's write, and the steps of the commands and the connection.
LEMMA FirmwareKeepsStatus ==
    ASSUME StatusInv, CommandInv, NEW c \in Commands, WriteFirmware(c)
    PROVE  StatusInv'
<1> DEFINE d == command[c].device
           old == device[d]
           row == [old EXCEPT !.updating = TRUE]
<1>1. Write(d, row) /\ UNCHANGED <<time, check, health>> /\ command[c].pc = "firmware"
  BY DEF WriteFirmware
<1>2. d \in DeviceIds
  BY <1>1 DEF CommandInv, CommandRecords, NoCommand
<1>3. /\ old \in DeviceRows /\ HeardOf(old)
      /\ health \in [DeviceIds -> HealthAnswers \cup {"none"}]
  BY <1>2 DEF StatusInv
<1> HIDE DEF d, old
<1>4. row \in DeviceRows /\ HeardOf(row)
  BY <1>3 DEF DeviceRows, HeardOf
<1> HIDE DEF row
<1>5. QED
  BY <1>1, <1>2, <1>3, <1>4, WriteKeepsStatus

\* Time, commands and the connection leave the rows alone.
LEMMA OthersKeepStatus ==
    ASSUME StatusInv,
           \/ TimePasses \/ Connect \/ UNCHANGED deviceVars
           \/ \E c \in Commands :
                 \/ \E d \in DeviceIds : \E firmware, stale \in BOOLEAN : SendCommandCreate(c, d, firmware, stale)
                 \/ \E error \in BOOLEAN :
                       Publish(c, error) \/ MarkCommandSent(c, error) \/ MarkCommandFailed(c, error)
                 \/ ProcessStops(c)
    PROVE  StatusInv'
<1>1. UNCHANGED <<device, check, touched, health>> /\ (time' = time \/ time' = time + 1)
  BY DEF TimePasses, Connect, deviceVars, SendCommandCreate, Publish, MarkCommandSent,
         MarkCommandFailed, ProcessStops
<1>2. QED
  BY <1>1, QuietKeepsStatus DEF StatusInv

\* A command's record with some fields written.
CommandWith(k, row, pc) == [k EXCEPT !.row = row, !.pc = pc]

\* What is left of it.
LEMMA CommandWithFields ==
    ASSUME NEW k \in CommandRecords, NEW row \in CommandStatuses, NEW pc \in CommandPcs
    PROVE  /\ CommandWith(k, row, pc) \in CommandRecords /\ CommandWith(k, row, pc) # NoCommand
           /\ CommandWith(k, row, pc).row = row /\ CommandWith(k, row, pc).pc = pc
           /\ CommandWith(k, row, pc).device = k.device
           /\ CommandWith(k, row, pc).firmware = k.firmware
BY DEF CommandWith, CommandRecords, CommandPcs, CommandStatuses, NoCommand

\* What is known of a command that has been created.
LEMMA CommandFields ==
    ASSUME CommandInv, NEW c \in Commands, command[c].pc # "idle"
    PROVE  /\ command[c] \in CommandRecords /\ command[c] # NoCommand
           /\ command[c].row \in CommandStatuses /\ command[c].pc \in CommandPcs
           /\ CommandGood(command[c], published[c], c \in broken)
BY DEF CommandInv, CommandRecords, NoCommand

\* One step of a call: the rest of the commands are as they were, and so is what made devices update.
LEMMA CommandStepKeeps ==
    ASSUME CommandInv, NEW c \in Commands, NEW k \in CommandRecords, NEW n \in {0, 1},
           command' = [command EXCEPT ![c] = k], published' = [published EXCEPT ![c] = n],
           broken' = broken \/ broken' = broken \cup {c},
           CommandGood(k, n, c \in broken'), UNCHANGED device,
           \A d : UpdateSent(d, command[c], published[c]) => UpdateSent(d, k, n)
    PROVE  CommandInv'
<1>1. \A b \in Commands : /\ command'[b] = IF b = c THEN k ELSE command[b]
                          /\ published'[b] = IF b = c THEN n ELSE published[b]
  BY DEF CommandInv
<1>2. /\ command' \in [Commands -> CommandRecords \cup {NoCommand}]
      /\ published' \in [Commands -> {0, 1}]
  BY DEF CommandInv
<1>3. ASSUME NEW b \in Commands PROVE CommandGood(command'[b], published'[b], b \in broken')
  <2>1. CASE b = c
    BY <1>1, <2>1
  <2>2. CASE b # c
    <3>1. b \in broken' <=> b \in broken
      BY <2>2
    <3>2. CommandGood(command[b], published[b], b \in broken)
      BY DEF CommandInv
    <3>3. command'[b] = command[b] /\ published'[b] = published[b]
      BY <1>1, <2>2
    <3>4. QED
      BY <3>1, <3>2, <3>3 DEF CommandGood
  <2>3. QED
    BY <2>1, <2>2
<1>4. ASSUME NEW d \in DeviceIds, device'[d].updating
      PROVE  \E b \in Commands : UpdateSent(d, command'[b], published'[b])
  <2>1. PICK b \in Commands : UpdateSent(d, command[b], published[b])
    BY <1>4 DEF CommandInv
  <2>2. UpdateSent(d, command'[b], published'[b])
    BY <1>1, <2>1
  <2>3. QED
    BY <2>2
<1>5. QED
  BY <1>2, <1>3, <1>4 DEF CommandInv

\* Rows of devices written while the commands stand still: no device starts to update.
LEMMA DeviceWriteKeepsCommands ==
    ASSUME CommandInv, UNCHANGED <<command, published, broken>>,
           \A d \in DeviceIds : device'[d].updating => device[d].updating
    PROVE  CommandInv'
BY DEF CommandInv


\* A write of a command's place is one of its record.
LEMMA CommandMoved ==
    ASSUME CommandInv, NEW c \in Commands, command[c] \in CommandRecords, NEW pc
    PROVE  [command EXCEPT ![c].pc = pc] =
               [command EXCEPT ![c] = CommandWith(command[c], command[c].row, pc)]
<1>1. \A k \in CommandRecords : [k EXCEPT !.pc = pc] = CommandWith(k, k.row, pc)
  BY DEF CommandWith, CommandRecords
<1>2. QED
  BY <1>1

\* sendCommand creates the row.
LEMMA SendCommandKeeps ==
    ASSUME CommandInv, NEW c \in Commands, NEW d \in DeviceIds, NEW firmware \in BOOLEAN,
           NEW stale \in BOOLEAN, SendCommandCreate(c, d, firmware, stale)
    PROVE  CommandInv'
<1> DEFINE k == [row |-> "pending", pc |-> "publish", device |-> d, firmware |-> firmware]
<1>1. /\ command[c] = NoCommand /\ command' = [command EXCEPT ![c] = k]
      /\ UNCHANGED <<device, published, broken>>
  BY DEF SendCommandCreate
<1>2. k \in CommandRecords /\ k # NoCommand /\ k.pc = "publish" /\ k.row = "pending"
  BY DEF CommandRecords, CommandPcs, CommandStatuses, NoCommand
<1> HIDE DEF k
<1>3. published[c] = 0 /\ published' = [published EXCEPT ![c] = 0]
  BY <1>1 DEF CommandInv, CommandGood
<1>4. CommandGood(k, 0, c \in broken')
  BY <1>2 DEF CommandGood
<1>5. \A e : ~UpdateSent(e, command[c], published[c])
  BY <1>3 DEF UpdateSent
<1>6. QED
  BY <1>1, <1>2, <1>3, <1>4, <1>5, CommandStepKeeps

\* MqttService.publish: one message, or none and the call is on its way to "failed".
LEMMA PublishKeeps ==
    ASSUME CommandInv, NEW c \in Commands, NEW error \in BOOLEAN, Publish(c, error)
    PROVE  CommandInv'
<1> DEFINE out == connected /\ ~error
           pc == IF out THEN "sent" ELSE "failed"
           n == IF out THEN 1 ELSE 0
           k == CommandWith(command[c], "pending", pc)
<1>1. /\ command[c].pc = "publish" /\ command' = [command EXCEPT ![c].pc = pc]
      /\ published' = IF out THEN [published EXCEPT ![c] = @ + 1] ELSE published
      /\ UNCHANGED <<device, broken>>
  BY DEF Publish, Step
<1>2. command[c] \in CommandRecords /\ command[c].row = "pending" /\ published[c] = 0
  BY <1>1, CommandFields DEF CommandGood
<1>3. published' = [published EXCEPT ![c] = n] /\ n \in {0, 1}
  <2>1. published \in [Commands -> {0, 1}]
    BY DEF CommandInv
  <2>2. CASE out
    BY <1>1, <1>2, <2>1, <2>2
  <2>3. CASE ~out
    BY <1>1, <1>2, <2>1, <2>3
  <2>4. QED
    BY <2>2, <2>3
<1>4. command' = [command EXCEPT ![c] = k]
  <2> HIDE DEF pc
  <2>1. command' = [command EXCEPT ![c] = CommandWith(command[c], command[c].row, pc)]
    BY <1>1, <1>2, CommandMoved
  <2>2. QED
    BY <1>2, <2>1
<1>5. pc \in CommandPcs /\ "pending" \in CommandStatuses
  BY DEF CommandPcs, CommandStatuses
<1>6. (pc = "sent" /\ n = 1) \/ (pc = "failed" /\ n = 0)
  OBVIOUS
<1> HIDE DEF pc, n
<1>7. k \in CommandRecords /\ k # NoCommand /\ k.row = "pending" /\ k.pc = pc
  BY <1>2, <1>5, CommandWithFields
<1> HIDE DEF k
<1>8. CommandGood(k, n, c \in broken')
  BY <1>6, <1>7 DEF CommandGood
<1>9. \A d : ~UpdateSent(d, command[c], published[c])
  BY <1>2 DEF UpdateSent
<1>10. UNCHANGED <<device, broken>>
  BY <1>1
<1>11. QED
  BY <1>3, <1>4, <1>7, <1>8, <1>9, <1>10, CommandStepKeeps

\* A write of the row, or of nothing but the place of the call: nothing goes out.
LEMMA RecordStepKeeps ==
    ASSUME CommandInv, NEW c \in Commands, command[c].pc # "idle",
           NEW row \in CommandStatuses, NEW pc \in CommandPcs,
           command' = [command EXCEPT ![c] = CommandWith(command[c], row, pc)],
           broken' = broken \/ broken' = broken \cup {c}, UNCHANGED <<device, published>>,
           CommandGood(CommandWith(command[c], row, pc), published[c], c \in broken')
    PROVE  CommandInv'
<1> DEFINE k == CommandWith(command[c], row, pc)
           n == published[c]
<1>1. command[c] \in CommandRecords
  BY CommandFields
<1>2. k \in CommandRecords /\ k.device = command[c].device /\ k.firmware = command[c].firmware
  BY <1>1, CommandWithFields
<1>3. n \in {0, 1} /\ published' = [published EXCEPT ![c] = n]
  <2>1. published \in [Commands -> {0, 1}] /\ published' = published
    BY DEF CommandInv
  <2>2. QED
    BY <2>1
<1> HIDE DEF k, n
<1>4. \A d : UpdateSent(d, command[c], published[c]) => UpdateSent(d, k, n)
  BY <1>2 DEF UpdateSent, n
<1>5. CommandGood(k, n, c \in broken') /\ command' = [command EXCEPT ![c] = k]
  BY DEF k, n
<1>6. QED
  BY <1>2, <1>3, <1>4, <1>5, CommandStepKeeps

\* The write of "sent", and what follows when it fails.
LEMMA MarkSentKeeps ==
    ASSUME CommandInv, NEW c \in Commands, NEW error \in BOOLEAN, MarkCommandSent(c, error)
    PROVE  CommandInv'
<1> DEFINE row == IF error THEN command[c].row ELSE "sent"
           pc == IF error THEN "failed" ELSE IF command[c].firmware THEN "firmware" ELSE "over"
           k == CommandWith(command[c], row, pc)
<1>1. /\ command[c].pc = "sent" /\ command' = [command EXCEPT ![c].row = row, ![c].pc = pc]
      /\ broken' = (IF error THEN broken \cup {c} ELSE broken) /\ UNCHANGED <<device, published>>
  BY DEF MarkCommandSent
<1>2. command[c] \in CommandRecords /\ command[c].row = "pending" /\ published[c] = 1
  BY <1>1, CommandFields DEF CommandGood
<1>a. row \in CommandStatuses /\ pc \in CommandPcs
  BY <1>2 DEF CommandPcs, CommandStatuses
<1>3. \/ error /\ row = "pending" /\ pc = "failed"
      \/ ~error /\ row = "sent" /\ pc = "firmware" /\ command[c].firmware
      \/ ~error /\ row = "sent" /\ pc = "over"
  BY <1>2 DEF CommandPcs, CommandStatuses
<1>4. error => c \in broken'
  BY <1>1
<1> HIDE DEF row, pc
<1>5. /\ k \in CommandRecords /\ k # NoCommand /\ k.row = row /\ k.pc = pc
      /\ k.firmware = command[c].firmware
  BY <1>2, <1>a, CommandWithFields
<1>6. command' = [command EXCEPT ![c] = k]
  <2>1. command \in [Commands -> CommandRecords \cup {NoCommand}]
    BY DEF CommandInv
  <2>2. QED
    BY <1>1, <1>2, <2>1 DEF CommandWith, CommandRecords
<1> HIDE DEF k
<1>7. CommandGood(k, published[c], c \in broken')
  <2>1. CASE error /\ row = "pending" /\ pc = "failed"
    BY <1>2, <1>4, <1>5, <2>1 DEF CommandGood
  <2>2. CASE ~error /\ row = "sent" /\ pc = "firmware" /\ command[c].firmware
    BY <1>2, <1>5, <2>2 DEF CommandGood
  <2>3. CASE ~error /\ row = "sent" /\ pc = "over"
    BY <1>2, <1>5, <2>3 DEF CommandGood
  <2>4. QED
    BY <1>3, <2>1, <2>2, <2>3
<1>8. /\ command[c].pc # "idle" /\ UNCHANGED <<device, published>>
      /\ broken' = broken \/ broken' = broken \cup {c}
  BY <1>1
<1>9. QED
  BY <1>a, <1>6, <1>7, <1>8, RecordStepKeeps DEF k

\* The write of "failed".
LEMMA MarkFailedKeeps ==
    ASSUME CommandInv, NEW c \in Commands, NEW error \in BOOLEAN, MarkCommandFailed(c, error)
    PROVE  CommandInv'
<1> DEFINE row == IF error THEN command[c].row ELSE "failed"
           k == CommandWith(command[c], row, "over")
<1>1. /\ command[c].pc = "failed" /\ command' = [command EXCEPT ![c].row = row, ![c].pc = "over"]
      /\ broken' = (IF error THEN broken \cup {c} ELSE broken) /\ UNCHANGED <<device, published>>
  BY DEF MarkCommandFailed
<1>2. /\ command[c] \in CommandRecords /\ command[c].row = "pending" /\ published[c] \in {0, 1}
      /\ published[c] = 1 => c \in broken
  BY <1>1, CommandFields DEF CommandGood
<1>a. row \in CommandStatuses /\ "over" \in CommandPcs
  BY <1>2 DEF CommandPcs, CommandStatuses
<1>3. (error /\ row = "pending") \/ (~error /\ row = "failed")
  BY <1>2 DEF CommandPcs, CommandStatuses
<1>4. (error \/ published[c] = 1) => c \in broken'
  BY <1>1, <1>2
<1> HIDE DEF row
<1>5. k \in CommandRecords /\ k # NoCommand /\ k.row = row /\ k.pc = "over"
  BY <1>2, <1>a, CommandWithFields
<1>6. command' = [command EXCEPT ![c] = k]
  <2>1. command \in [Commands -> CommandRecords \cup {NoCommand}]
    BY DEF CommandInv
  <2>2. QED
    BY <1>1, <1>2, <2>1 DEF CommandWith, CommandRecords
<1> HIDE DEF k
<1>7. CommandGood(k, published[c], c \in broken')
  <2>1. CASE error /\ row = "pending"
    BY <1>2, <1>4, <1>5, <2>1 DEF CommandGood
  <2>2. CASE ~error /\ row = "failed"
    BY <1>2, <1>4, <1>5, <2>2 DEF CommandGood
  <2>3. QED
    BY <1>3, <2>1, <2>2
<1>8. /\ command[c].pc # "idle" /\ UNCHANGED <<device, published>>
      /\ broken' = broken \/ broken' = broken \cup {c}
  BY <1>1
<1>9. QED
  BY <1>a, <1>6, <1>7, <1>8, RecordStepKeeps DEF k

\* The process stops between two writes.
LEMMA ProcessStopsKeeps ==
    ASSUME CommandInv, NEW c \in Commands, ProcessStops(c)
    PROVE  CommandInv'
<1> DEFINE row == command[c].row
           k == CommandWith(command[c], row, "over")
<1>1. /\ command[c].pc \in {"publish", "sent", "failed", "firmware"}
      /\ command' = [command EXCEPT ![c].pc = "over"]
      /\ broken' = broken \cup {c} /\ UNCHANGED <<device, published>>
  BY DEF ProcessStops, Step
<1>2. /\ command[c] \in CommandRecords /\ row \in CommandStatuses
      /\ published[c] \in {0, 1} /\ (row = "sent" => published[c] = 1) /\ "over" \in CommandPcs
  BY <1>1, CommandFields DEF CommandGood, CommandPcs
<1>3. command' = [command EXCEPT ![c] = k]
  BY <1>1, <1>2, CommandMoved
<1> HIDE DEF row
<1>4. k \in CommandRecords /\ k # NoCommand /\ k.row = row /\ k.pc = "over"
  BY <1>2, CommandWithFields
<1> HIDE DEF k
<1>5. CommandGood(k, published[c], c \in broken')
  BY <1>1, <1>2, <1>4 DEF CommandGood
<1>6. QED
  BY <1>1, <1>2, <1>3, <1>5, RecordStepKeeps DEF k


\* One row written, which does not start to update.
LEMMA RowWriteKeepsCommands ==
    ASSUME StatusInv, CommandInv, NEW d \in DeviceIds, NEW row,
           device' = [device EXCEPT ![d] = row], row.updating => device[d].updating,
           UNCHANGED <<command, published, broken>>
    PROVE  CommandInv'
<1>1. \A e \in DeviceIds : device'[e] = IF e = d THEN row ELSE device[e]
  BY DEF StatusInv
<1>2. QED
  BY <1>1, DeviceWriteKeepsCommands

\* The steps of the devices leave the commands alone.
LEMMA DevicesKeepCommands ==
    ASSUME StatusInv, CommandInv, DeviceNext
    PROVE  CommandInv'
<1>0. ASSUME UNCHANGED <<device, command, published, broken>> PROVE CommandInv'
  BY <1>0 DEF CommandInv
<1>1. CASE StatusCheckFind \/ TimePasses
  BY <1>0, <1>1 DEF StatusCheckFind, TimePasses
<1>2. ASSUME NEW d \in DeviceIds, CreateDevice(d) PROVE CommandInv'
  <2> DEFINE row == [status |-> "OFFLINE", seen |-> -1, active |-> TRUE, updating |-> FALSE]
  <2>1. row.updating = FALSE
    OBVIOUS
  <2>2. device' = [device EXCEPT ![d] = row] /\ UNCHANGED <<command, published, broken>>
    BY <1>2 DEF CreateDevice, Write
  <2> HIDE DEF row
  <2>3. QED
    BY <2>1, <2>2, RowWriteKeepsCommands
<1>3. ASSUME NEW d \in DeviceIds, NEW status \in Statuses, RegisterDevice(d, status, FALSE)
      PROVE  CommandInv'
  <2> DEFINE updating == device[d].updating /\ ~FALSE
             row == [status |-> status, seen |-> time, active |-> TRUE, updating |-> updating]
  <2>1. row.updating => device[d].updating
    OBVIOUS
  <2>2. /\ device' = [device EXCEPT ![d] = row] \/ UNCHANGED device
        /\ UNCHANGED <<command, published, broken>>
    BY <1>3 DEF RegisterDevice, Write
  <2> HIDE DEF row
  <2>3. QED
    BY <1>0, <2>1, <2>2, RowWriteKeepsCommands
<1>4. ASSUME NEW d \in DeviceIds, NEW row, NEW old, old = device[d], row.updating = old.updating,
             \/ device' = [device EXCEPT ![d] = row] \/ UNCHANGED device,
             UNCHANGED <<command, published, broken>>
      PROVE  CommandInv'
  BY <1>0, <1>4, RowWriteKeepsCommands
<1>5. ASSUME NEW d \in DeviceIds, NEW status \in Statuses, UpdateDeviceBySerial(d, status)
      PROVE  CommandInv'
  <2> DEFINE old == device[d]
             row == [old EXCEPT !.status = status, !.seen = time]
  <2>1. old \in DeviceRows /\ time \in Nat
    BY DEF StatusInv
  <2>2. device' = [device EXCEPT ![d] = row] /\ UNCHANGED <<command, published, broken>>
    BY <1>5 DEF UpdateDeviceBySerial, Write
  <2> HIDE DEF old
  <2>3. row.updating = old.updating
    BY <2>1, RowReported, Zenon
  <2> HIDE DEF row
  <2>4. QED
    BY <1>4, <2>2, <2>3 DEF old
<1>6. ASSUME NEW d \in DeviceIds, SetActivation(d) PROVE CommandInv'
  <2> DEFINE old == device[d]
             row == [old EXCEPT !.active = ~@]
  <2>1. old \in DeviceRows
    BY DEF StatusInv
  <2>2. device' = [device EXCEPT ![d] = row] /\ UNCHANGED <<command, published, broken>>
    BY <1>6 DEF SetActivation, Write
  <2> HIDE DEF old
  <2>3. row.updating = old.updating
    BY <2>1 DEF DeviceRows
  <2> HIDE DEF row
  <2>4. QED
    BY <1>4, <2>2, <2>3 DEF old
<1>7. ASSUME NEW d \in DeviceIds, StatusCheckMark(d) PROVE CommandInv'
  <2> DEFINE old == device[d]
             row == [old EXCEPT !.status = "OFFLINE"]
  <2>1. old \in DeviceRows
    BY DEF StatusInv
  <2>2. device' = [device EXCEPT ![d] = row] /\ UNCHANGED <<command, published, broken>>
    BY <1>7 DEF StatusCheckMark
  <2> HIDE DEF old
  <2>3. row.updating = old.updating
    BY <2>1 DEF DeviceRows
  <2> HIDE DEF row
  <2>4. QED
    BY <1>4, <2>2, <2>3 DEF old
<1>8. ASSUME NEW d \in DeviceIds, NEW h, RecordHealth(d, h) PROVE CommandInv'
  <2> DEFINE old == device[d]
             status == MapHealthToDeviceStatus(h)
             row == [old EXCEPT !.status = status, !.seen = time]
  <2>1. old \in DeviceRows /\ time \in Nat /\ status \in Statuses
    BY DEF StatusInv, MapHealthToDeviceStatus, Statuses
  <2>2. /\ device' = [device EXCEPT ![d] = row] \/ UNCHANGED device
        /\ UNCHANGED <<command, published, broken>>
    BY <1>8 DEF RecordHealth, Write
  <2> HIDE DEF old, status
  <2>3. row.updating = old.updating
    BY <2>1, RowReported, Zenon
  <2> HIDE DEF row
  <2>4. QED
    BY <1>4, <2>2, <2>3 DEF old
<1>9. ASSUME NEW d \in DeviceIds, PerformHealthCheck(d) PROVE CommandInv'
  BY <1>0, <1>9 DEF PerformHealthCheck
<1>10. QED
  BY <1>1, <1>2, <1>3, <1>5, <1>6, <1>7, <1>8, <1>9
     DEF DeviceNext, RecordDeviceHealthBy, HealthCheckRecords

\* registerDevice, naming a version or not.
LEMMA RegisterKeepsCommands ==
    ASSUME StatusInv, CommandInv, NEW d \in DeviceIds, NEW status \in Statuses,
           NEW namesFirmware \in BOOLEAN, RegisterDevice(d, status, namesFirmware)
    PROVE  CommandInv'
<1> DEFINE updating == device[d].updating /\ ~namesFirmware
           row == [status |-> status, seen |-> time, active |-> TRUE, updating |-> updating]
<1>1. row.updating => device[d].updating
  OBVIOUS
<1>2. /\ device' = [device EXCEPT ![d] = row] \/ UNCHANGED device
      /\ UNCHANGED <<command, published, broken>>
  BY DEF RegisterDevice, Write
<1> HIDE DEF row
<1>3. CASE UNCHANGED device
  BY <1>2, <1>3 DEF CommandInv
<1>4. QED
  BY <1>1, <1>2, <1>3, RowWriteKeepsCommands

\* updateFirmware's write: the device updates because of this command.
LEMMA FirmwareKeepsCommands ==
    ASSUME StatusInv, CommandInv, NEW c \in Commands, WriteFirmware(c)
    PROVE  CommandInv'
<1> DEFINE d == command[c].device
           old == device[d]
           row == [old EXCEPT !.updating = TRUE]
           k == CommandWith(command[c], "sent", "over")
<1>1. /\ command[c].pc = "firmware" /\ device' = [device EXCEPT ![d] = row]
      /\ command' = [command EXCEPT ![c].pc = "over"] /\ UNCHANGED <<published, broken>>
  BY DEF WriteFirmware, Write, Step
<1>2. /\ command[c] \in CommandRecords /\ command[c].row = "sent" /\ command[c].firmware
      /\ published[c] = 1
  BY <1>1, CommandFields DEF CommandGood
<1>3. command' = [command EXCEPT ![c] = k]
  <2>1. command' = [command EXCEPT ![c] = CommandWith(command[c], command[c].row, "over")]
    BY <1>1, <1>2, CommandMoved
  <2>2. QED
    BY <1>2, <2>1
<1>4. "sent" \in CommandStatuses /\ "over" \in CommandPcs
  BY DEF CommandPcs, CommandStatuses
<1>5. /\ k \in CommandRecords /\ k # NoCommand /\ k.row = "sent" /\ k.pc = "over"
      /\ k.device = d /\ k.firmware = command[c].firmware
  BY <1>2, <1>4 DEF CommandWith, CommandRecords, CommandPcs, NoCommand
<1> HIDE DEF k, d, row
<1>6. \A b \in Commands : command'[b] = IF b = c THEN k ELSE command[b]
  BY <1>3 DEF CommandInv
<1>7. command' \in [Commands -> CommandRecords \cup {NoCommand}]
  BY <1>3, <1>5 DEF CommandInv
<1>8. CommandGood(k, published[c], c \in broken)
  BY <1>2, <1>5 DEF CommandGood
<1>9. \A b \in Commands : CommandGood(command'[b], published[b], b \in broken)
  BY <1>6, <1>8 DEF CommandInv
<1>10. ASSUME NEW e \in DeviceIds, device'[e].updating
       PROVE  \E b \in Commands : UpdateSent(e, command'[b], published[b])
  <2>1. CASE e = d
    <3>1. UpdateSent(e, command'[c], published[c])
      BY <1>2, <1>5, <1>6, <2>1 DEF UpdateSent
    <3>2. QED
      BY <3>1
  <2>2. CASE e # d
    <3>1. device[e].updating
      BY <1>1, <1>10, <2>2 DEF StatusInv
    <3>2. PICK b \in Commands : UpdateSent(e, command[b], published[b])
      BY <3>1 DEF CommandInv
    <3>3. b # c
      BY <2>2, <3>2 DEF UpdateSent, d
    <3>4. QED
      BY <1>6, <3>2, <3>3
  <2>3. QED
    BY <2>1, <2>2
<1>11. QED
  BY <1>1, <1>7, <1>9, <1>10 DEF CommandInv

\* Every step of devices and commands keeps both halves.
LEMMA DevicesStep ==
    ASSUME StatusInv, CommandInv, [DeviceNext \/ CommandNext]_deviceVars
    PROVE  StatusInv' /\ CommandInv'
<1>1. CASE UNCHANGED deviceVars
  BY <1>1, OthersKeepStatus DEF deviceVars, CommandInv
<1>2. CASE DeviceNext
  <2>1. FALSE \in BOOLEAN
    OBVIOUS
  <2>2. ASSUME NEW d \in DeviceIds, NEW status \in Statuses, RegisterDevice(d, status, FALSE)
        PROVE  StatusInv'
    BY <2>1, <2>2, RegisterKeepsStatus
  <2>3. StatusInv'
    BY <1>2, <2>2, FindKeepsStatus, MarkKeepsStatus, CreateKeepsStatus, ReportKeepsStatus,
       HealthKeepsStatus, OthersKeepStatus DEF DeviceNext
  <2>4. QED
    BY <1>2, <2>3, DevicesKeepCommands
<1>3. ASSUME NEW d \in DeviceIds, NEW status \in Statuses, NEW namesFirmware \in BOOLEAN,
             RegisterDevice(d, status, namesFirmware)
      PROVE  StatusInv' /\ CommandInv'
  BY <1>3, RegisterKeepsStatus, RegisterKeepsCommands
<1>4. ASSUME NEW d \in DeviceIds, NEW status \in Statuses, UpdateDeviceBySerial(d, status)
      PROVE  StatusInv' /\ CommandInv'
  BY <1>2, <1>4 DEF DeviceNext
<1>5. CASE Connect
  BY <1>5, OthersKeepStatus DEF Connect, CommandInv
<1>6. ASSUME NEW c \in Commands, NEW d \in DeviceIds, NEW firmware \in BOOLEAN, NEW stale \in BOOLEAN,
             SendCommandCreate(c, d, firmware, stale)
      PROVE  StatusInv' /\ CommandInv'
  BY <1>6, OthersKeepStatus, SendCommandKeeps
<1>7. ASSUME NEW c \in Commands, NEW error \in BOOLEAN,
             Publish(c, error) \/ MarkCommandSent(c, error) \/ MarkCommandFailed(c, error)
      PROVE  StatusInv' /\ CommandInv'
  BY <1>7, OthersKeepStatus, PublishKeeps, MarkSentKeeps, MarkFailedKeeps
<1>8. ASSUME NEW c \in Commands, ProcessStops(c)
      PROVE  StatusInv' /\ CommandInv'
  BY <1>8, OthersKeepStatus, ProcessStopsKeeps
<1>9. ASSUME NEW c \in Commands, WriteFirmware(c)
      PROVE  StatusInv' /\ CommandInv'
  BY <1>9, FirmwareKeepsStatus, FirmwareKeepsCommands
<1>10. CASE CommandNext
  BY <1>3, <1>4, <1>5, <1>6, <1>7, <1>8, <1>9, <1>10 DEF CommandNext
<1>11. QED
  BY <1>1, <1>2, <1>10

\* No device is registered at first and no command sent.
LEMMA DevicesStart ==
    ASSUME DevicesInit
    PROVE  StatusInv /\ CommandInv
<1>1. StatusInv
  <2>1. \A d \in DeviceIds : device[d] = Unregistered
    BY DEF DevicesInit
  <2>2. device \in [DeviceIds -> DeviceRows] /\ health \in [DeviceIds -> HealthAnswers \cup {"none"}]
    BY UnregisteredIsRow DEF DevicesInit
  <2>3. check \in Checks /\ check.pc = "idle" /\ time \in Nat
    BY DEF DevicesInit, Checks, NoCheck
  <2>4. QED
    BY <2>1, <2>2, <2>3, UnregisteredIsRow DEF StatusInv, HeardOf
<1>2. CommandInv
  <2>1. \A c \in Commands : command[c] = NoCommand /\ published[c] = 0
    BY DEF DevicesInit
  <2>2. CommandGood(NoCommand, 0, FALSE)
    BY DEF CommandGood, NoCommand
  <2>3. \A c \in Commands : (c \in broken) = FALSE
    BY DEF DevicesInit
  <2>4. \A d \in DeviceIds : device[d].updating = FALSE
    BY UnregisteredIsRow DEF DevicesInit
  <2>5. /\ command \in [Commands -> CommandRecords \cup {NoCommand}]
        /\ published \in [Commands -> {0, 1}]
    BY DEF DevicesInit
  <2>6. QED
    BY <2>1, <2>2, <2>3, <2>4, <2>5 DEF CommandInv
<1>3. QED
  BY <1>1, <1>2

(***************************************************************************)
(* When a status check has ended, no device it answers for is ONLINE       *)
(* without having been heard of within the threshold, however many reports *)
(* and health checks fell between the query and the marks, for any number  *)
(* of devices and without a bound on time.                                 *)
(***************************************************************************)
THEOREM NoDeviceOnlineForLong == DevicesSpec => []NoneOnlineForLong
<1>1. DevicesInit => StatusInv /\ CommandInv
  BY DevicesStart
<1>2. StatusInv /\ CommandInv /\ [DeviceNext \/ CommandNext]_deviceVars => (StatusInv /\ CommandInv)'
  BY DevicesStep
<1>3. StatusInv => NoneOnlineForLong
  BY DEF StatusInv, NoneOnlineForLong, Registered, HeardOf, SeenTo
<1>4. QED
  BY <1>1, <1>2, <1>3, PTL DEF DevicesSpec

(***************************************************************************)
(* The history of commands says what the devices were sent, wherever the   *)
(* connection, a write or the process fails between publishing a command   *)
(* and recording it; and a device shown as updating was sent an update.    *)
(***************************************************************************)
THEOREM CommandHistoryIsTrue == DevicesSpec => []CommandsRecorded
<1>1. DevicesInit => StatusInv /\ CommandInv
  BY DevicesStart
<1>2. StatusInv /\ CommandInv /\ [DeviceNext \/ CommandNext]_deviceVars => (StatusInv /\ CommandInv)'
  BY DevicesStep
<1>3. ASSUME CommandInv PROVE CommandsRecorded
  <2>1. ASSUME NEW c \in Commands
        PROVE  /\ command[c].row = "sent" => published[c] = 1
               /\ command[c].pc = "over" /\ c \notin broken =>
                      command[c].row = IF published[c] = 1 THEN "sent" ELSE "failed"
    <3>1. CommandGood(command[c], published[c], c \in broken)
      BY <1>3 DEF CommandInv
    <3>2. CASE command[c] = NoCommand
      BY <3>2 DEF NoCommand
    <3>3. CASE command[c] \in CommandRecords
      <4>1. command[c].pc \in CommandPcs
        BY <3>3 DEF CommandRecords
      <4>2. QED
        BY <3>1, <4>1 DEF CommandGood, CommandPcs
    <3>4. QED
      BY <1>3, <3>2, <3>3 DEF CommandInv
  <2>2. \A d \in Registered : device[d].updating =>
           \E c \in Commands : command[c].firmware /\ command[c].device = d /\ published[c] = 1
    BY <1>3 DEF CommandInv, UpdateSent, Registered
  <2>3. QED
    BY <2>1, <2>2 DEF CommandsRecorded
<1>4. QED
  BY <1>1, <1>2, <1>3, PTL DEF DevicesSpec

-----------------------------------------------------------------------------
(***************************************************************************)
(* The notification queue.                                                 *)
(***************************************************************************)

QueueRows == [job : JobIds, status : {"PENDING", "SENT", "FAILED"}]
JobStates == {"none", "waiting", "sending", "sent", "done", "completed", "failed"}
JobRecords == [state : JobStates, tries : Nat, row : Nat]

\* The rows that say a message of job j was sent.
SentRows(rs, j) == {r \in DOMAIN rs : rs[r].job = j /\ rs[r].status = "SENT"}

\* Where a job is tells what its row says; a message that was sent is not recorded yet.
JobGood(rs, j, job) ==
    /\ job.state \in {"sending", "sent"} =>
           job.row \in DOMAIN rs /\ rs[job.row].job = j /\ rs[job.row].status # "SENT"
    /\ j \notin Texts /\ job.state \in {"done", "completed"} =>
           job.row \in DOMAIN rs /\ rs[job.row].job = j /\ rs[job.row].status = "SENT"

\* Every SENT row, and a message not yet recorded, stands for one the provider accepted.
Covered(rs, j, job, n) ==
    j \notin Texts =>
        Cardinality(SentRows(rs, j)) + (IF job.state = "sent" THEN 1 ELSE 0) <= n

\* The inductive invariant.
QueueInv ==
    /\ jobs \in [JobIds -> JobRecords] /\ rows \in Seq(QueueRows) /\ accepted \in [JobIds -> Nat]
    /\ \A j \in JobIds : JobGood(rows, j, jobs[j]) /\ Covered(rows, j, jobs[j], accepted[j])

\* A write of rows that makes no row of job i SENT, and none that was otherwise.
SameSent(old, new, i) ==
    /\ \A r \in DOMAIN old :
           /\ r \in DOMAIN new /\ new[r].job = old[r].job
           /\ old[r].job = i => (new[r].status = "SENT" <=> old[r].status = "SENT")
    /\ SentRows(new, i) = SentRows(old, i)

\* It leaves what is known of job i.
LEMMA SameSentKeeps ==
    ASSUME NEW old, NEW new, NEW i, SameSent(old, new, i), NEW job, NEW n,
           JobGood(old, i, job), Covered(old, i, job, n)
    PROVE  JobGood(new, i, job) /\ Covered(new, i, job, n)
<1>1. JobGood(new, i, job)
  BY DEF JobGood, SameSent
<1>2. Covered(new, i, job, n)
  BY DEF Covered, SameSent
<1>3. QED
  BY <1>1, <1>2

\* There are finitely many rows.
LEMMA SentRowsFinite ==
    ASSUME NEW rs \in Seq(QueueRows), NEW j
    PROVE  IsFiniteSet(SentRows(rs, j)) /\ Cardinality(SentRows(rs, j)) \in Nat
<1>1. DOMAIN rs = 1 .. Len(rs) /\ Len(rs) \in Int /\ 1 \in Int
  OBVIOUS
<1>2. IsFiniteSet(1 .. Len(rs))
  BY <1>1, FS_Interval
<1>3. SentRows(rs, j) \in SUBSET (1 .. Len(rs))
  BY <1>1 DEF SentRows
<1>4. IsFiniteSet(SentRows(rs, j))
  BY <1>2, <1>3, FS_Subset
<1>5. QED
  BY <1>4, FS_CardinalityType

\* A row that is created is not SENT.
LEMMA AppendSame ==
    ASSUME NEW rs \in Seq(QueueRows), NEW row \in QueueRows, row.status # "SENT", NEW i
    PROVE  SameSent(rs, Append(rs, row), i)
<1> DEFINE new == Append(rs, row)
<1>1. /\ DOMAIN rs = 1 .. Len(rs) /\ DOMAIN new = 1 .. (Len(rs) + 1) /\ Len(rs) \in Nat
      /\ \A r \in 1 .. Len(rs) : new[r] = rs[r]
      /\ new[Len(rs) + 1] = row
  OBVIOUS
<1> HIDE DEF new
<1>2. \A r \in DOMAIN rs : r \in DOMAIN new /\ new[r] = rs[r]
  BY <1>1
<1>3. SentRows(new, i) = SentRows(rs, i)
  BY <1>1 DEF SentRows
<1>4. QED
  BY <1>2, <1>3 DEF SameSent, new

\* Rows that are not SENT marked FAILED.
Marked(rs, S) == [r \in DOMAIN rs |-> IF r \in S THEN [rs[r] EXCEPT !.status = "FAILED"] ELSE rs[r]]

\* None of them becomes SENT.
LEMMA MarkedSame ==
    ASSUME NEW rs \in Seq(QueueRows), NEW S, \A r \in S : r \in DOMAIN rs => rs[r].status # "SENT",
           NEW i
    PROVE  Marked(rs, S) \in Seq(QueueRows) /\ SameSent(rs, Marked(rs, S), i)
<1> DEFINE new == Marked(rs, S)
<1>1. DOMAIN rs = 1 .. Len(rs) /\ Len(rs) \in Nat /\ \A r \in 1 .. Len(rs) : rs[r] \in QueueRows
  OBVIOUS
<1>2. ASSUME NEW row \in QueueRows
      PROVE  /\ [row EXCEPT !.status = "FAILED"] \in QueueRows
             /\ [row EXCEPT !.status = "FAILED"].job = row.job
             /\ [row EXCEPT !.status = "FAILED"].status = "FAILED"
  BY DEF QueueRows
<1>3. DOMAIN new = DOMAIN rs
  BY DEF Marked
<1>4. ASSUME NEW r \in DOMAIN rs
      PROVE  /\ new[r] \in QueueRows /\ new[r].job = rs[r].job
             /\ new[r].status = "SENT" <=> rs[r].status = "SENT"
  <2> DEFINE row == rs[r]
             failed == [row EXCEPT !.status = "FAILED"]
  <2>1. new[r] = IF r \in S THEN failed ELSE row
    BY DEF Marked
  <2>2. row \in QueueRows /\ (r \in S => row.status # "SENT")
    BY <1>1
  <2> HIDE DEF row
  <2>3. failed \in QueueRows /\ failed.job = row.job /\ failed.status = "FAILED"
    BY <1>2, <2>2
  <2> HIDE DEF failed, new
  <2>4. QED
    BY <2>1, <2>2, <2>3 DEF row
<1>5. new \in [1 .. Len(rs) -> QueueRows]
  <2>1. new = [r \in 1 .. Len(rs) |-> new[r]]
    BY <1>1 DEF Marked
  <2>2. QED
    BY <1>1, <1>4, <2>1
<1> HIDE DEF new
<1>6. new \in Seq(QueueRows)
  BY <1>1, <1>5
<1>7. SentRows(new, i) = SentRows(rs, i)
  BY <1>3, <1>4 DEF SentRows
<1>8. QED
  BY <1>3, <1>4, <1>6, <1>7 DEF SameSent, new

\* The row of a job becomes SENT: one more of that job, none of another.
LEMMA SentSame ==
    ASSUME NEW rs \in Seq(QueueRows), NEW r \in DOMAIN rs, rs[r].status # "SENT"
    PROVE  LET new == [rs EXCEPT ![r].status = "SENT"]
           IN  /\ new \in Seq(QueueRows) /\ r \in DOMAIN new /\ new[r].status = "SENT"
               /\ new[r].job = rs[r].job
               /\ SentRows(new, rs[r].job) = SentRows(rs, rs[r].job) \cup {r}
               /\ r \notin SentRows(rs, rs[r].job)
               /\ \A i : i # rs[r].job => SameSent(rs, new, i)
<1> DEFINE row == [rs[r] EXCEPT !.status = "SENT"]
           new == [rs EXCEPT ![r] = row]
<1>1. DOMAIN rs = 1 .. Len(rs) /\ rs[r] \in QueueRows
  OBVIOUS
<1>2. row \in QueueRows /\ row.job = rs[r].job /\ row.status = "SENT"
  BY <1>1 DEF QueueRows
<1> HIDE DEF row
<1>3. /\ new \in Seq(QueueRows) /\ DOMAIN new = DOMAIN rs
      /\ \A q \in DOMAIN rs : new[q] = IF q = r THEN row ELSE rs[q]
  BY <1>2
<1>4. [rs EXCEPT ![r].status = "SENT"] = new
  BY DEF row
<1> HIDE DEF new
<1>5. SentRows(new, rs[r].job) = SentRows(rs, rs[r].job) \cup {r}
  BY <1>2, <1>3 DEF SentRows
<1>6. r \notin SentRows(rs, rs[r].job)
  BY DEF SentRows
<1>7. ASSUME NEW i, i # rs[r].job PROVE SameSent(rs, new, i)
  <2>1. SentRows(new, i) = SentRows(rs, i)
    BY <1>2, <1>3, <1>7 DEF SentRows
  <2>2. QED
    BY <1>2, <1>3, <1>7, <2>1 DEF SameSent
<1>8. QED
  BY <1>2, <1>3, <1>4, <1>5, <1>6, <1>7

\* One step of one job.
LEMMA QueueStepKeeps ==
    ASSUME QueueInv, NEW j \in JobIds, NEW job \in JobRecords, NEW n \in Nat,
           jobs' = [jobs EXCEPT ![j] = job], accepted' = [accepted EXCEPT ![j] = n],
           rows' \in Seq(QueueRows), JobGood(rows', j, job), Covered(rows', j, job, n),
           \A i : i # j => SameSent(rows, rows', i)
    PROVE  QueueInv'
<1>1. /\ jobs' \in [JobIds -> JobRecords] /\ accepted' \in [JobIds -> Nat]
      /\ \A i \in JobIds : /\ jobs'[i] = IF i = j THEN job ELSE jobs[i]
                           /\ accepted'[i] = IF i = j THEN n ELSE accepted[i]
  BY DEF QueueInv
<1>2. ASSUME NEW i \in JobIds
      PROVE  JobGood(rows', i, jobs'[i]) /\ Covered(rows', i, jobs'[i], accepted'[i])
  <2>1. CASE i = j
    BY <1>1, <2>1
  <2>2. CASE i # j
    <3>1. /\ jobs'[i] = jobs[i] /\ accepted'[i] = accepted[i]
          /\ JobGood(rows, i, jobs[i]) /\ Covered(rows, i, jobs[i], accepted[i])
      BY <1>1, <2>2 DEF QueueInv
    <3>2. SameSent(rows, rows', i)
      BY <2>2
    <3>3. JobGood(rows', i, jobs[i]) /\ Covered(rows', i, jobs[i], accepted[i])
      BY <3>1, <3>2, SameSentKeeps
    <3>4. QED
      BY <3>1, <3>3
  <2>3. QED
    BY <2>1, <2>2
<1>3. QED
  BY <1>1, <1>2 DEF QueueInv

\* Rows that were not written are the same.
LEMMA UnwrittenSame ==
    ASSUME NEW rs, NEW i
    PROVE  SameSent(rs, rs, i)
BY DEF SameSent


\* What is known of a job.
LEMMA JobFields ==
    ASSUME QueueInv, NEW j \in JobIds
    PROVE  /\ jobs[j] \in JobRecords /\ accepted[j] \in Nat /\ rows \in Seq(QueueRows)
           /\ jobs[j].state \in JobStates /\ jobs[j].tries \in Nat /\ jobs[j].row \in Nat
           /\ JobGood(rows, j, jobs[j]) /\ Covered(rows, j, jobs[j], accepted[j])
           /\ [accepted EXCEPT ![j] = accepted[j]] = accepted
           /\ Cardinality(SentRows(rows, j)) \in Nat
           /\ j \notin Texts => Cardinality(SentRows(rows, j)) <= accepted[j]
<1>1. /\ jobs[j] \in JobRecords /\ accepted[j] \in Nat /\ rows \in Seq(QueueRows)
      /\ JobGood(rows, j, jobs[j]) /\ Covered(rows, j, jobs[j], accepted[j])
      /\ [accepted EXCEPT ![j] = accepted[j]] = accepted
  BY DEF QueueInv
<1>2. jobs[j].state \in JobStates /\ jobs[j].tries \in Nat /\ jobs[j].row \in Nat
  BY <1>1 DEF JobRecords
<1>3. Cardinality(SentRows(rows, j)) \in Nat
  BY <1>1, SentRowsFinite
<1>4. j \notin Texts => Cardinality(SentRows(rows, j)) <= accepted[j]
  BY <1>1, <1>3 DEF Covered
<1>5. QED
  BY <1>1, <1>2, <1>3, <1>4

\* A job is given another state, no row is written, and the provider accepts some more messages.
LEMMA StateKeeps ==
    ASSUME QueueInv, NEW j \in JobIds, NEW state \in JobStates, NEW n \in Nat,
           jobs' = [jobs EXCEPT ![j].state = state], UNCHANGED rows,
           accepted' = [accepted EXCEPT ![j] = n],
           j \notin Texts => accepted[j] + (IF state = "sent" THEN 1 ELSE 0) <= n,
           state \in {"sending", "sent"} => jobs[j].state = "sending",
           state \in {"done", "completed"} => j \in Texts \/ jobs[j].state = "done"
    PROVE  QueueInv'
<1> DEFINE job == [jobs[j] EXCEPT !.state = state]
<1>1. job \in JobRecords /\ job.state = state /\ job.row = jobs[j].row
  BY JobFields DEF JobRecords
<1>2. jobs' = [jobs EXCEPT ![j] = job]
  OBVIOUS
<1> HIDE DEF job
<1>3. JobGood(rows, j, job)
  BY <1>1, JobFields DEF JobGood
<1>4. Covered(rows, j, job, n)
  BY <1>1, JobFields DEF Covered
<1>5. \A i : i # j => SameSent(rows, rows', i)
  BY UnwrittenSame
<1>6. rows' \in Seq(QueueRows)
  BY JobFields
<1>7. JobGood(rows', j, job) /\ Covered(rows', j, job, n)
  BY <1>3, <1>4
<1>8. QED
  BY <1>1, <1>2, <1>5, <1>6, <1>7, QueueStepKeeps

\* The queues take jobs.
LEMMA SendKeeps ==
    ASSUME QueueInv, NEW j \in JobIds, SendEmail(j) \/ SendSms(j) \/ SendPush(j)
    PROVE  QueueInv'
<1>1. jobs' = [jobs EXCEPT ![j].state = "waiting"] /\ UNCHANGED <<rows, accepted>>
  BY DEF SendEmail, SendSms, SendPush
<1> DEFINE n == accepted[j]
<1>2. n \in Nat /\ accepted' = [accepted EXCEPT ![j] = n] /\ accepted[j] + 0 <= n
  BY <1>1, JobFields
<1>3. "waiting" \in JobStates
  BY DEF JobStates
<1> HIDE DEF n
<1>4. QED
  BY <1>1, <1>2, <1>3, StateKeeps

\* An attempt creates its row.
LEMMA CreateRecordKeeps ==
    ASSUME QueueInv, NEW j \in JobIds, CreateNotificationRecord(j)
    PROVE  QueueInv'
<1> DEFINE row == [job |-> j, status |-> "PENDING"]
           at == Len(rows) + 1
           job == [jobs[j] EXCEPT !.state = "sending", !.row = at]
           n == accepted[j]
<1>1. /\ rows' = Append(rows, row) /\ UNCHANGED accepted
      /\ jobs' = [jobs EXCEPT ![j].state = "sending", ![j].row = at]
  BY DEF CreateNotificationRecord
<1>2. row \in QueueRows /\ row.status = "PENDING" /\ row.job = j
  BY DEF QueueRows
<1>3. rows \in Seq(QueueRows) /\ at \in Nat /\ jobs[j] \in JobRecords /\ jobs \in [JobIds -> JobRecords]
  BY DEF QueueInv
<1> HIDE DEF row
<1>4. rows' \in Seq(QueueRows) /\ at \in DOMAIN rows' /\ rows'[at] = row
  BY <1>1, <1>2, <1>3
<1>5. \A i : SameSent(rows, rows', i)
  BY <1>1, <1>2, <1>3, AppendSame
<1> HIDE DEF at
<1>6. jobs' = [jobs EXCEPT ![j] = job]
  BY <1>1, <1>3 DEF JobRecords
<1>7. job \in JobRecords /\ job.state = "sending" /\ job.row = at
  BY <1>3 DEF JobRecords, JobStates
<1> HIDE DEF job
<1>8. JobGood(rows', j, job)
  BY <1>2, <1>4, <1>7 DEF JobGood
<1>9. n \in Nat /\ accepted' = [accepted EXCEPT ![j] = n]
  BY <1>1, JobFields
<1>10. Covered(rows', j, job, n)
  <2>1. SentRows(rows', j) = SentRows(rows, j)
    BY <1>5 DEF SameSent
  <2>2. QED
    BY <1>7, <2>1, JobFields DEF Covered
<1> HIDE DEF n
<1>11. QED
  BY <1>4, <1>5, <1>6, <1>7, <1>8, <1>9, <1>10, QueueStepKeeps

\* The processors send.
LEMMA ProcessKeeps ==
    ASSUME QueueInv, NEW j \in JobIds,
           \/ \E copies \in 1..2 : ProcessEmail(j, copies)
           \/ ProcessPush(j)
    PROVE  QueueInv'
<1>1. PICK copies \in 1..2 :
          /\ jobs[j].state = "sending" /\ accepted' = [accepted EXCEPT ![j] = @ + copies]
          /\ jobs' = [jobs EXCEPT ![j].state = "sent"] /\ UNCHANGED rows
  <2>1. CASE ProcessPush(j)
    <3>1. 1 \in 1..2
      OBVIOUS
    <3>2. QED
      BY <2>1, <3>1 DEF ProcessPush
  <2>2. CASE \E copies \in 1..2 : ProcessEmail(j, copies)
    BY <2>2 DEF ProcessEmail
  <2>3. QED
    BY <2>1, <2>2
<1> DEFINE n == accepted[j] + copies
<1>2. n \in Nat /\ accepted' = [accepted EXCEPT ![j] = n] /\ accepted[j] + 1 <= n
  BY <1>1, JobFields
<1>3. "sent" \in JobStates
  BY DEF JobStates
<1> HIDE DEF n
<1>4. QED
  BY <1>1, <1>2, <1>3, StateKeeps

\* The SMS processor sends nothing.
LEMMA ProcessSmsKeeps ==
    ASSUME QueueInv, NEW j \in JobIds, NEW isConfigured \in BOOLEAN, ProcessSms(j, isConfigured)
    PROVE  QueueInv'
<1> DEFINE state == IF isConfigured THEN "done" ELSE "sent"
           n == accepted[j]
<1>1. /\ Channel(j) = "SMS" /\ jobs[j].state = "sending" /\ jobs' = [jobs EXCEPT ![j].state = state]
      /\ UNCHANGED <<rows, accepted>>
  BY DEF ProcessSms
<1>2. j \in Texts
  BY <1>1 DEF Channel
<1>3. n \in Nat /\ accepted' = [accepted EXCEPT ![j] = n]
  BY <1>1, JobFields
<1>4. state \in JobStates
  BY DEF JobStates
<1> HIDE DEF state, n
<1>5. QED
  BY <1>1, <1>2, <1>3, <1>4, StateKeeps

\* The job's row becomes SENT, which the provider's acceptance covers.
LEMMA MarkSentRowKeeps ==
    ASSUME QueueInv, NEW j \in JobIds, MarkSent(j)
    PROVE  QueueInv'
<1> DEFINE r == jobs[j].row
           job == [jobs[j] EXCEPT !.state = "done"]
           n == accepted[j]
           new == [rows EXCEPT ![r].status = "SENT"]
<1>1. jobs[j].state = "sent" /\ rows' = new /\ jobs' = [jobs EXCEPT ![j] = job] /\ UNCHANGED accepted
  BY DEF MarkSent
<1>2. rows \in Seq(QueueRows) /\ r \in DOMAIN rows /\ rows[r].job = j /\ rows[r].status # "SENT"
  BY <1>1, JobFields DEF JobGood
<1>3. job \in JobRecords /\ job.state = "done" /\ job.row = r
  BY JobFields DEF JobRecords, JobStates
<1>4. n \in Nat /\ accepted' = [accepted EXCEPT ![j] = n]
  BY <1>1, JobFields
<1>5. j \notin Texts => Cardinality(SentRows(rows, j)) + 1 <= n
  BY <1>1, JobFields DEF Covered
<1> HIDE DEF r, job, n
<1>6. /\ new \in Seq(QueueRows) /\ r \in DOMAIN new /\ new[r].status = "SENT" /\ new[r].job = j
      /\ SentRows(new, j) = SentRows(rows, j) \cup {r} /\ r \notin SentRows(rows, j)
      /\ \A i : i # j => SameSent(rows, new, i)
  BY <1>2, SentSame
<1> HIDE DEF new
<1>7. Cardinality(SentRows(new, j)) = Cardinality(SentRows(rows, j)) + 1
  BY <1>2, <1>6, SentRowsFinite, FS_AddElement
<1>8. JobGood(new, j, job)
  BY <1>3, <1>6 DEF JobGood
<1>9. Covered(new, j, job, n)
  BY <1>2, <1>3, <1>4, <1>5, <1>7, SentRowsFinite DEF Covered
<1>10. QED
  BY <1>1, <1>3, <1>4, <1>6, <1>8, <1>9, QueueStepKeeps

\* What the queue makes of a job whose attempt ended badly.
LEMMA RetryFields ==
    ASSUME NEW job \in JobRecords
    PROVE  Retry(job) \in JobRecords /\ Retry(job).state \in {"waiting", "failed"}
<1> DEFINE tries == job.tries + 1
           state == IF tries < Attempts THEN "waiting" ELSE "failed"
<1>1. tries \in Nat /\ state \in JobStates /\ state \in {"waiting", "failed"}
  BY DEF JobRecords, JobStates
<1>2. Retry(job) = [job EXCEPT !.tries = tries, !.state = state]
  BY DEF Retry
<1> HIDE DEF tries, state
<1>3. QED
  BY <1>1, <1>2 DEF JobRecords

\* Such a job claims nothing of its rows.
LEMMA RetryKeeps ==
    ASSUME QueueInv, NEW j \in JobIds, jobs' = [jobs EXCEPT ![j] = Retry(jobs[j])], NEW n \in Nat,
           accepted' = [accepted EXCEPT ![j] = n], accepted[j] <= n,
           rows' \in Seq(QueueRows), \A i : SameSent(rows, rows', i)
    PROVE  QueueInv'
<1> DEFINE job == Retry(jobs[j])
<1>1. job \in JobRecords /\ job.state \in {"waiting", "failed"}
  BY JobFields, RetryFields
<1> HIDE DEF job
<1>2. JobGood(rows', j, job)
  BY <1>1 DEF JobGood
<1>3. SentRows(rows', j) = SentRows(rows, j)
  BY DEF SameSent
<1>4. Covered(rows', j, job, n)
  BY <1>1, <1>3, JobFields DEF Covered
<1>5. jobs' = [jobs EXCEPT ![j] = job]
  BY DEF job
<1>6. QED
  BY <1>1, <1>2, <1>4, <1>5, QueueStepKeeps

\* An attempt that failed: it may sweep the pending rows of other jobs.
LEMMA FailKeeps ==
    ASSUME QueueInv, NEW j \in JobIds, NEW timedOut \in BOOLEAN, NEW marks \in BOOLEAN,
           Fail(j, timedOut, marks)
    PROVE  QueueInv'
<1> DEFINE S == IF marks THEN Swept(j) ELSE {}
           n == IF timedOut THEN accepted[j] + 1 ELSE accepted[j]
<1>1. /\ accepted' = (IF timedOut THEN [accepted EXCEPT ![j] = @ + 1] ELSE accepted)
      /\ rows' = [r \in DOMAIN rows |-> IF marks /\ r \in Swept(j)
                                        THEN [rows[r] EXCEPT !.status = "FAILED"] ELSE rows[r]]
      /\ jobs' = [jobs EXCEPT ![j] = Retry(jobs[j])]
  BY DEF Fail
<1>2. n \in Nat /\ accepted[j] <= n /\ accepted' = [accepted EXCEPT ![j] = n]
  <2>1. CASE timedOut
    BY <1>1, <2>1, JobFields
  <2>2. CASE ~timedOut
    BY <1>1, <2>2, JobFields
  <2>3. QED
    BY <2>1, <2>2
<1>3. rows' = Marked(rows, S)
  <2>1. CASE marks
    BY <1>1, <2>1 DEF Marked
  <2>2. CASE ~marks
    BY <1>1, <2>2 DEF Marked
  <2>3. QED
    BY <2>1, <2>2
<1>4. \A r \in S : r \in DOMAIN rows => rows[r].status # "SENT"
  BY DEF Swept
<1> HIDE DEF S, n
<1>5. rows' \in Seq(QueueRows) /\ \A i : SameSent(rows, rows', i)
  BY <1>3, <1>4, JobFields, MarkedSame
<1>6. QED
  BY <1>1, <1>2, <1>5, RetryKeeps

\* The worker stops, or the queue hears that a job is done.
LEMMA CrashKeeps ==
    ASSUME QueueInv, NEW j \in JobIds, WorkerCrash(j) \/ Acknowledge(j)
    PROVE  QueueInv'
<1> DEFINE n == accepted[j]
<1>1. n \in Nat /\ accepted[j] <= n /\ accepted = [accepted EXCEPT ![j] = n] /\ accepted[j] + 0 <= n
  BY JobFields
<1> HIDE DEF n
<1>2. CASE WorkerCrash(j)
  <2>1. jobs' = [jobs EXCEPT ![j] = Retry(jobs[j])] /\ UNCHANGED <<rows, accepted>>
    BY <1>2 DEF WorkerCrash
  <2>2. rows' \in Seq(QueueRows) /\ \A i : SameSent(rows, rows', i)
    BY <2>1, JobFields, UnwrittenSame
  <2>3. QED
    BY <1>1, <2>1, <2>2, RetryKeeps
<1>3. CASE Acknowledge(j)
  <2>1. /\ jobs[j].state = "done" /\ jobs' = [jobs EXCEPT ![j].state = "completed"]
        /\ UNCHANGED <<rows, accepted>>
    BY <1>3 DEF Acknowledge
  <2>2. "completed" \in JobStates
    BY DEF JobStates
  <2>3. QED
    BY <1>1, <2>1, <2>2, StateKeeps
<1>4. QED
  BY <1>2, <1>3

(***************************************************************************)
(* The notification rows tell no success that was none: for any number of  *)
(* jobs, attempts, time-outs, sweeps of other jobs' rows and workers that  *)
(* stop between sending and recording, there are never more SENT rows for  *)
(* a mail or a push than messages its provider accepted, and a completed   *)
(* job keeps the SENT row of its last attempt.                             *)
(***************************************************************************)
THEOREM SentRowsAreCovered == QueueSpec => []SentRowPerMail
<1>1. ASSUME QueueInit PROVE QueueInv
  <2>1. NoJob \in JobRecords /\ NoJob.state = "none"
    BY DEF NoJob, JobRecords, JobStates
  <2>2. /\ jobs \in [JobIds -> JobRecords] /\ rows \in Seq(QueueRows) /\ accepted \in [JobIds -> Nat]
        /\ \A j \in JobIds : jobs[j].state = "none" /\ accepted[j] = 0
    BY <1>1, <2>1 DEF QueueInit
  <2>3. \A j : SentRows(rows, j) = {}
    BY <1>1 DEF QueueInit, SentRows
  <2>4. \A j \in JobIds : JobGood(rows, j, jobs[j]) /\ Covered(rows, j, jobs[j], accepted[j])
    <3>1. Cardinality({}) = 0
      BY FS_EmptySet
    <3>2. ASSUME NEW j \in JobIds PROVE JobGood(rows, j, jobs[j])
      BY <2>2, <3>2 DEF JobGood
    <3>3. ASSUME NEW j \in JobIds PROVE Covered(rows, j, jobs[j], accepted[j])
      <4>1. jobs[j].state # "sent" /\ Cardinality(SentRows(rows, j)) = 0 /\ accepted[j] = 0
        BY <2>2, <2>3, <3>1, <3>3
      <4>2. QED
        BY <4>1 DEF Covered
    <3>4. QED
      BY <3>2, <3>3
  <2>5. QED
    BY <2>2, <2>4 DEF QueueInv
<1>2. ASSUME QueueInv, [QueueNext]_queueVars PROVE QueueInv'
  <2>1. CASE UNCHANGED queueVars
    BY <1>2, <2>1 DEF queueVars, QueueInv
  <2>2. CASE QueueNext
    BY <1>2, <2>2, SendKeeps, CreateRecordKeeps, ProcessKeeps, ProcessSmsKeeps, MarkSentRowKeeps,
       FailKeeps, CrashKeeps DEF QueueNext
  <2>3. QED
    BY <1>2, <2>1, <2>2
<1>3. ASSUME QueueInv PROVE SentRowPerMail
  <2>1. ASSUME NEW j \in AlertMails \cup Mails \cup Pushes PROVE j \in JobIds /\ j \notin Texts
    BY QueueAssumption DEF JobIds
  <2>2. ASSUME NEW j \in AlertMails \cup Mails \cup Pushes
        PROVE  /\ Cardinality({r \in DOMAIN rows : rows[r].job = j /\ rows[r].status = "SENT"}) <= accepted[j]
               /\ jobs[j].state = "completed" => rows[jobs[j].row].status = "SENT"
    BY <1>3, <2>1, JobFields DEF SentRows, JobGood
  <2>3. QED
    BY <2>2 DEF SentRowPerMail
<1>4. QED
  BY <1>1, <1>2, <1>3, PTL DEF QueueSpec

-----------------------------------------------------------------------------
(***************************************************************************)
(* The alert engine.                                                       *)
(***************************************************************************)

AlertStatuses == {"PENDING", "ACKNOWLEDGED", "RESOLVED"}
AlertRows == [at : Nat, status : AlertStatuses]

\* The alerts of the cooldown period that begins with alert a.
Period(list, a) == {b \in a .. Len(list) : list[b].at < list[a].at + Cooldown}

\* The calls that found no cooldown and have yet to create their alert.
Creators(ev) == {e \in Events : ev[e].pc = "create"}

\* A period has its alerts already, or its cooldown keeps all calls out but those on their way.
PeriodGood(list, ev, now, a) ==
    /\ Cardinality(Period(list, a)) <= Cardinality(Events)
    /\ now < list[a].at + Cooldown =>
           Cardinality(Period(list, a)) + Cardinality(Creators(ev)) <= Cardinality(Events)

\* The inductive invariant.
AlertsInv ==
    /\ minute \in Nat /\ alerts \in Seq(AlertRows)
    /\ evaluating = [e \in Events |-> evaluating[e]]
    /\ \A a \in DOMAIN alerts : alerts[a].at <= minute
    /\ \A a, b \in DOMAIN alerts : a <= b => alerts[a].at <= alerts[b].at
    /\ \A a \in DOMAIN alerts : PeriodGood(alerts, evaluating, minute, a)

\* A sequence of alerts.
LEMMA AlertElements ==
    ASSUME NEW list \in Seq(AlertRows)
    PROVE  /\ Len(list) \in Nat /\ DOMAIN list = 1 .. Len(list)
           /\ \A a \in DOMAIN list : a \in Nat /\ a >= 1 /\ a <= Len(list) /\ list[a].at \in Nat
<1>1. Len(list) \in Nat
  OBVIOUS
<1>2. DOMAIN list = 1 .. Len(list)
  OBVIOUS
<1>3. ASSUME NEW a \in 1 .. Len(list) PROVE list[a] \in AlertRows
  OBVIOUS
<1>4. \A row \in AlertRows : row.at \in Nat
  BY DEF AlertRows
<1>5. ASSUME NEW a \in 1 .. Len(list) PROVE a \in Nat /\ a >= 1 /\ a <= Len(list) /\ list[a].at \in Nat
  BY <1>1, <1>3, <1>4
<1>6. QED
  BY <1>1, <1>2, <1>5

\* All the sets that are counted are finite.
LEMMA AlertSetsFinite ==
    ASSUME NEW list \in Seq(AlertRows), NEW a \in DOMAIN list, NEW ev
    PROVE  /\ IsFiniteSet(Period(list, a)) /\ Cardinality(Period(list, a)) \in Nat
           /\ IsFiniteSet(Creators(ev)) /\ Cardinality(Creators(ev)) \in Nat
           /\ Cardinality(Creators(ev)) <= Cardinality(Events) /\ Cardinality(Events) \in Nat
<1>1. a \in Int /\ Len(list) \in Int
  <2>1. Len(list) \in Nat
    OBVIOUS
  <2>2. a \in 1 .. Len(list)
    OBVIOUS
  <2>3. QED
    BY <2>1, <2>2
<1>2. IsFiniteSet(a .. Len(list)) /\ Period(list, a) \in SUBSET (a .. Len(list))
  BY <1>1, FS_Interval DEF Period
<1>3. IsFiniteSet(Period(list, a))
  BY <1>2, FS_Subset
<1>4. IsFiniteSet(Events) /\ Creators(ev) \in SUBSET Events
  BY AlertsAssumption DEF Creators
<1>5. IsFiniteSet(Creators(ev)) /\ Cardinality(Creators(ev)) <= Cardinality(Events)
  BY <1>4, FS_Subset
<1>6. QED
  BY <1>3, <1>4, <1>5, FS_CardinalityType

\* Alerts that change their status only have the same periods.
LEMMA SamePeriods ==
    ASSUME NEW list \in Seq(AlertRows), NEW new \in Seq(AlertRows), DOMAIN new = DOMAIN list,
           \A b \in DOMAIN list : new[b].at = list[b].at, NEW a \in DOMAIN list
    PROVE  Period(new, a) = Period(list, a)
<1>1. Len(new) = Len(list) /\ DOMAIN list = 1 .. Len(list) /\ a \in Nat /\ a >= 1 /\ Len(list) \in Nat
  <2> DEFINE m == Len(new)
             n == Len(list)
  <2>1. m \in Nat
    OBVIOUS
  <2>2. n \in Nat
    OBVIOUS
  <2>3. DOMAIN new = 1 .. m
    OBVIOUS
  <2>4. DOMAIN list = 1 .. n
    OBVIOUS
  <2> HIDE DEF m, n
  <2>5. a \in 1 .. n
    BY <2>4
  <2>6. 1 .. m = 1 .. n
    BY <2>3, <2>4
  <2>7. m = n
    BY <2>1, <2>2, <2>6
  <2>8. a \in Nat /\ a >= 1
    BY <2>2, <2>5
  <2>9. QED
    BY <2>2, <2>4, <2>7, <2>8 DEF m, n
<1>2. ASSUME NEW b \in a .. Len(list) PROVE new[b].at = list[b].at
  <2> DEFINE n == Len(list)
  <2>1. n \in Nat /\ DOMAIN list = 1 .. n /\ b \in a .. n /\ a \in Nat /\ a >= 1
    BY <1>1
  <2> HIDE DEF n
  <2>2. b \in 1 .. n
    BY <2>1
  <2>3. QED
    BY <2>1, <2>2
<1>3. QED
  BY <1>1, <1>2 DEF Period

\* A step in which no call finds the way free, no alert is created and time does not go back.
LEMMA CalmKeeps ==
    ASSUME AlertsInv, minute' \in Nat, minute <= minute', alerts' \in Seq(AlertRows),
           DOMAIN alerts' = DOMAIN alerts, \A b \in DOMAIN alerts : alerts'[b].at = alerts[b].at,
           evaluating' = [e \in Events |-> evaluating'[e]],
           Creators(evaluating') \subseteq Creators(evaluating)
    PROVE  AlertsInv'
<1>1. ASSUME NEW a \in DOMAIN alerts PROVE alerts[a].at \in Nat
  BY <1>1, AlertElements DEF AlertsInv
<1>2. \A a \in DOMAIN alerts : alerts'[a].at <= minute'
  BY <1>1 DEF AlertsInv
<1>3. ASSUME NEW a \in DOMAIN alerts PROVE PeriodGood(alerts', evaluating', minute', a)
  <2>1. Period(alerts', a) = Period(alerts, a) /\ alerts'[a].at = alerts[a].at
    BY <1>3, SamePeriods DEF AlertsInv
  <2>2. /\ IsFiniteSet(Creators(evaluating)) /\ Cardinality(Creators(evaluating)) \in Nat
        /\ Cardinality(Period(alerts, a)) \in Nat /\ Cardinality(Events) \in Nat
        /\ Cardinality(Creators(evaluating')) \in Nat
    BY <1>3, AlertSetsFinite DEF AlertsInv
  <2>3. Cardinality(Creators(evaluating')) <= Cardinality(Creators(evaluating))
    BY <2>2, FS_Subset
  <2>4. PeriodGood(alerts, evaluating, minute, a) /\ minute \in Nat /\ Cooldown \in Nat
    BY <1>3, AlertsAssumption DEF AlertsInv
  <2>5. minute' < alerts[a].at + Cooldown => minute < alerts[a].at + Cooldown
    BY <1>1, <2>4
  <2>6. QED
    BY <2>1, <2>2, <2>3, <2>4, <2>5 DEF PeriodGood
<1>4. QED
  BY <1>2, <1>3 DEF AlertsInv

\* Steps of one call that leave the alerts and the clock alone.
LEMMA CallKeeps ==
    ASSUME AlertsInv, NEW e \in Events, NEW k, k.pc # "create",
           evaluating' = [evaluating EXCEPT ![e] = k], UNCHANGED <<minute, alerts>>
    PROVE  AlertsInv'
<1>1. \A f \in Events : evaluating'[f] = IF f = e THEN k ELSE evaluating[f]
  BY DEF AlertsInv
<1>2. evaluating' = [f \in Events |-> evaluating'[f]]
  BY DEF AlertsInv
<1>3. Creators(evaluating') \subseteq Creators(evaluating)
  BY <1>1 DEF Creators
<1>4. minute' \in Nat /\ minute <= minute' /\ alerts' \in Seq(AlertRows)
  BY DEF AlertsInv
<1>5. QED
  BY <1>2, <1>3, <1>4, CalmKeeps

\* A call finds no cooldown: every period is over.
LEMMA NoCooldownKeeps ==
    ASSUME AlertsInv, NEW e \in Events, ~InCooldown,
           evaluating' = [evaluating EXCEPT ![e] = [pc |-> "create"]], UNCHANGED <<minute, alerts>>
    PROVE  AlertsInv'
<1>1. evaluating' = [f \in Events |-> evaluating'[f]]
  BY DEF AlertsInv
<1>2. ASSUME NEW a \in DOMAIN alerts PROVE ~(minute < alerts[a].at + Cooldown)
  <2>1. alerts # <<>> /\ Len(alerts) \in DOMAIN alerts /\ a <= Len(alerts)
    BY <1>2 DEF AlertsInv
  <2>2. ~(minute < alerts[Len(alerts)].at + Cooldown)
    BY <2>1 DEF InCooldown
  <2>3. alerts[a].at <= alerts[Len(alerts)].at
    BY <1>2, <2>1 DEF AlertsInv
  <2>4. alerts[a].at \in Nat /\ alerts[Len(alerts)].at \in Nat /\ minute \in Nat /\ Cooldown \in Nat
    BY <1>2, <2>1, AlertsAssumption, AlertElements DEF AlertsInv
  <2>5. QED
    BY <2>2, <2>3, <2>4
<1>3. \A a \in DOMAIN alerts : PeriodGood(alerts, evaluating', minute, a)
  BY <1>2 DEF AlertsInv, PeriodGood
<1>4. QED
  BY <1>1, <1>3 DEF AlertsInv

\* A call creates its alert: the period it falls in gains one and loses a call on its way.
LEMMA CreationKeeps ==
    ASSUME AlertsInv, NEW e \in Events, evaluating[e].pc = "create", NEW k, k.pc = "notify",
           evaluating' = [evaluating EXCEPT ![e] = k],
           alerts' = Append(alerts, [at |-> minute, status |-> "PENDING"]), UNCHANGED minute
    PROVE  AlertsInv'
<1> DEFINE row == [at |-> minute, status |-> "PENDING"]
           n == Len(alerts)
           all == Cardinality(Events)
           before == Cardinality(Creators(evaluating))
           after == Cardinality(Creators(evaluating'))
<1>1. /\ alerts \in Seq(AlertRows) /\ minute \in Nat /\ n \in Nat /\ DOMAIN alerts = 1 .. n
      /\ Cooldown \in Nat \ {0} /\ Events # {}
  BY AlertsAssumption DEF AlertsInv
<1>2. row \in AlertRows /\ row.at = minute
  BY <1>1 DEF AlertRows, AlertStatuses
<1> HIDE DEF row
<1>3. /\ alerts' \in Seq(AlertRows) /\ Len(alerts') = n + 1 /\ DOMAIN alerts' = 1 .. (n + 1)
      /\ \A a \in 1 .. n : alerts'[a] = alerts[a]
      /\ alerts'[n + 1] = row
  BY <1>1, <1>2 DEF row
<1>4. \A a \in 1 .. n : alerts[a].at \in Nat /\ alerts[a].at <= minute
  BY <1>1, AlertElements DEF AlertsInv
<1> HIDE DEF n
<1>5. \A a \in DOMAIN alerts' : alerts'[a].at <= minute
  BY <1>1, <1>2, <1>3, <1>4
<1>6. ASSUME NEW a \in DOMAIN alerts', NEW b \in DOMAIN alerts', a <= b
      PROVE  alerts'[a].at <= alerts'[b].at
  <2>1. CASE b = n + 1
    BY <1>2, <1>3, <1>5, <2>1
  <2>2. CASE b # n + 1
    <3>1. a \in 1 .. n /\ b \in 1 .. n
      BY <1>1, <1>3, <1>6, <2>2
    <3>2. alerts[a].at <= alerts[b].at
      BY <1>1, <1>6, <3>1 DEF AlertsInv
    <3>3. QED
      BY <1>3, <3>1, <3>2
  <2>3. QED
    BY <2>1, <2>2
<1>7. evaluating' = [f \in Events |-> evaluating'[f]]
  BY DEF AlertsInv
<1>8. Creators(evaluating') = Creators(evaluating) \ {e} /\ e \in Creators(evaluating)
  BY DEF AlertsInv, Creators
<1>9. /\ all \in Nat /\ IsFiniteSet(Events) /\ IsFiniteSet(Creators(evaluating))
      /\ before \in Nat /\ before <= all
  <2>1. IsFiniteSet(Events) /\ Creators(evaluating) \in SUBSET Events
    BY AlertsAssumption DEF Creators
  <2>2. QED
    BY <2>1, FS_Subset, FS_CardinalityType
<1>10. after = before - 1
  BY <1>8, <1>9, FS_RemoveElement
<1>11. ASSUME NEW a \in 1 .. n PROVE PeriodGood(alerts', evaluating', minute', a)
  <2> DEFINE P == Period(alerts, a)
  <2>1. /\ PeriodGood(alerts, evaluating, minute, a) /\ IsFiniteSet(P) /\ Cardinality(P) \in Nat
    BY <1>1, <1>11, AlertSetsFinite DEF AlertsInv
  <2>2. a \in Nat /\ alerts'[a] = alerts[a]
    BY <1>1, <1>3, <1>11
  <2>3. \A b \in a .. n : alerts'[b] = alerts[b]
    BY <1>1, <1>3, <1>11
  <2> DEFINE end == alerts[a].at + Cooldown
  <2>4. /\ P = {b \in a .. n : alerts[b].at < end}
        /\ Period(alerts', a) = {b \in a .. (n + 1) : alerts'[b].at < end}
    BY <1>3, <2>2 DEF Period, n
  <2>5. /\ n + 1 \notin a .. n /\ n + 1 \in a .. (n + 1)
        /\ \A b : b \in a .. (n + 1) <=> b \in a .. n \/ b = n + 1
    BY ONLY <1>1, <2>2, a \in 1 .. n
  <2>6. alerts'[n + 1].at = minute
    BY <1>2, <1>3
  <2> HIDE DEF P, end
  <2>7. n + 1 \notin P
    BY <2>4, <2>5
  <2>8. CASE minute < alerts[a].at + Cooldown
    <3>1. Period(alerts', a) = P \cup {n + 1}
      <4>1. minute < end
        BY <2>8 DEF end
      <4>2. \A b : b \in Period(alerts', a) <=> b \in P \/ b = n + 1
        BY <2>3, <2>4, <2>5, <2>6, <4>1
      <4>3. QED
        BY <4>2
    <3>2. Cardinality(Period(alerts', a)) = Cardinality(P) + 1
      BY <2>1, <2>7, <3>1, FS_AddElement
    <3>3. Cardinality(P) + before <= all
      BY <2>1, <2>8 DEF PeriodGood, P
    <3>4. before >= 1
      <4>1. before # 0
        BY <1>8, <1>9, FS_EmptySet
      <4>2. QED
        BY <1>9, <4>1
    <3>5. QED
      BY <1>9, <1>10, <2>1, <3>2, <3>3, <3>4 DEF PeriodGood
  <2>9. CASE ~(minute < alerts[a].at + Cooldown)
    <3>1. Period(alerts', a) = P
      <4>1. ~(minute < end)
        BY <2>9 DEF end
      <4>2. QED
        BY <2>3, <2>4, <2>5, <2>6, <4>1
    <3>2. QED
      BY <2>1, <2>2, <2>9, <3>1 DEF PeriodGood, P
  <2>10. QED
    BY <2>8, <2>9
<1>12. PeriodGood(alerts', evaluating', minute', n + 1)
  <2>1. Period(alerts', n + 1) = {n + 1}
    BY <1>1, <1>2, <1>3 DEF Period
  <2>2. Cardinality({n + 1}) = 1
    BY FS_Singleton
  <2>3. before >= 1
    <3>1. before # 0
      BY <1>8, <1>9, FS_EmptySet
    <3>2. QED
      BY <1>9, <3>1
  <2>4. QED
    <3>1. Cardinality(Period(alerts', n + 1)) = 1
      BY <2>1, <2>2
    <3>2. 1 <= all /\ 1 + after <= all
      BY <1>9, <1>10, <2>3
    <3> HIDE DEF all, after
    <3>3. QED
      BY <3>1, <3>2 DEF PeriodGood, all, after
<1>13. \A a \in DOMAIN alerts' : PeriodGood(alerts', evaluating', minute', a)
  <2>1. \A a \in DOMAIN alerts' : a \in 1 .. n \/ a = n + 1
    BY <1>1, <1>3
  <2>2. QED
    BY <1>11, <1>12, <2>1
<1>14. QED
  BY <1>1, <1>3, <1>5, <1>6, <1>7, <1>13 DEF AlertsInv

\* Alerts that change their status only.
LEMMA StatusKeeps ==
    ASSUME AlertsInv, alerts' \in Seq(AlertRows), DOMAIN alerts' = DOMAIN alerts,
           \A b \in DOMAIN alerts : alerts'[b].at = alerts[b].at, UNCHANGED <<minute, evaluating>>
    PROVE  AlertsInv'
<1>1. minute' \in Nat /\ minute <= minute'
  BY DEF AlertsInv
<1>2. evaluating' = [e \in Events |-> evaluating'[e]]
  BY DEF AlertsInv
<1>3. Creators(evaluating') \subseteq Creators(evaluating)
  BY DEF Creators
<1>4. QED
  BY <1>1, <1>2, <1>3, CalmKeeps

\* The history's actions: acknowledging or resolving an alert.
LEMMA ChangeStatusKeeps ==
    ASSUME AlertsInv, NEW a \in DOMAIN alerts, NEW status \in AlertStatuses, ChangeStatus(a, status)
    PROVE  AlertsInv'
<1>1. alerts \in Seq(AlertRows) /\ alerts' = [alerts EXCEPT ![a].status = status]
  BY DEF AlertsInv, ChangeStatus
<1>2. alerts[a] \in AlertRows
  BY <1>1
<1> DEFINE row == [alerts[a] EXCEPT !.status = status]
<1>3. row \in AlertRows /\ row.at = alerts[a].at
  BY <1>2 DEF AlertRows
<1>4. alerts' = [alerts EXCEPT ![a] = row]
  BY <1>1
<1> HIDE DEF row
<1>5. alerts' \in Seq(AlertRows)
  BY <1>1, <1>3, <1>4
<1>6. DOMAIN alerts' = DOMAIN alerts /\ \A b \in DOMAIN alerts : alerts'[b] = IF b = a THEN row ELSE alerts[b]
  BY <1>1, <1>4
<1>7. \A b \in DOMAIN alerts : alerts'[b].at = alerts[b].at
  BY <1>3, <1>6
<1>8. QED
  BY <1>5, <1>6, <1>7, StatusKeeps DEF ChangeStatus

\* The sweep over stale alerts.
LEMMA AutoResolveKeeps ==
    ASSUME AlertsInv, AutoResolveStaleAlerts
    PROVE  AlertsInv'
<1> DEFINE row(b) == IF alerts[b].status = "PENDING" /\ alerts[b].at < minute
                     THEN [alerts[b] EXCEPT !.status = "RESOLVED"] ELSE alerts[b]
           n == Len(alerts)
<1>1. alerts \in Seq(AlertRows)
  BY DEF AlertsInv
<1>2. n \in Nat /\ DOMAIN alerts = 1 .. n /\ \A b \in 1 .. n : alerts[b] \in AlertRows
  BY <1>1
<1>3. ASSUME NEW b \in 1 .. n PROVE row(b) \in AlertRows /\ row(b).at = alerts[b].at
  <2>1. \A r \in AlertRows : /\ [r EXCEPT !.status = "RESOLVED"] \in AlertRows
                             /\ [r EXCEPT !.status = "RESOLVED"].at = r.at
    BY DEF AlertRows, AlertStatuses
  <2>2. QED
    BY <1>2, <1>3, <2>1
<1>4. alerts' = [b \in 1 .. n |-> row(b)]
  BY <1>2 DEF AutoResolveStaleAlerts
<1> HIDE DEF row, n
<1>5. alerts' \in Seq(AlertRows)
  BY <1>2, <1>3, <1>4
<1>6. DOMAIN alerts' = DOMAIN alerts /\ \A b \in DOMAIN alerts : alerts'[b].at = alerts[b].at
  BY <1>2, <1>3, <1>4
<1>7. QED
  BY <1>5, <1>6, StatusKeeps DEF AutoResolveStaleAlerts

\* The clock, and the actions on the rule.
LEMMA ClockAndRuleKeep ==
    ASSUME AlertsInv, MinutePasses \/ ToggleRule \/ RemoveRule
    PROVE  AlertsInv'
<1>1. UNCHANGED <<alerts, evaluating>> /\ (minute' = minute + 1 \/ minute' = minute)
  BY DEF MinutePasses, ToggleRule, RemoveRule
<1>2. minute \in Nat /\ alerts \in Seq(AlertRows)
  BY DEF AlertsInv
<1>3. minute' \in Nat /\ minute <= minute' /\ alerts' \in Seq(AlertRows)
  BY <1>1, <1>2
<1>4. evaluating' = [e \in Events |-> evaluating'[e]]
  BY <1>1 DEF AlertsInv
<1>5. Creators(evaluating') \subseteq Creators(evaluating)
  BY <1>1
<1>6. QED
  BY <1>1, <1>3, <1>4, <1>5, CalmKeeps

\* Every step of a call of evaluateEvent.
LEMMA EvaluationKeeps ==
    ASSUME AlertsInv, NEW e \in Events,
           \/ \E value \in 0..(Threshold + 1) : EvaluateEvent(e, value)
           \/ IsInCooldown(e) \/ CreateAlert(e)
           \/ \E queued \in BOOLEAN : SendNotifications(e, queued)
    PROVE  AlertsInv'
<1>1. ASSUME NEW value, EvaluateEvent(e, value) PROVE AlertsInv'
  <2> DEFINE k == [pc |-> "cooldown"]
  <2>1. k.pc # "create" /\ evaluating' = [evaluating EXCEPT ![e] = k] /\ UNCHANGED <<minute, alerts>>
    BY <1>1 DEF EvaluateEvent
  <2> HIDE DEF k
  <2>2. QED
    BY <2>1, CallKeeps
<1>2. Outside.pc # "create"
  BY DEF Outside
<1>3. CASE IsInCooldown(e)
  <2>1. CASE InCooldown
    BY <1>2, <1>3, <2>1, CallKeeps DEF IsInCooldown
  <2>2. CASE ~InCooldown
    BY <1>3, <2>2, NoCooldownKeeps DEF IsInCooldown
  <2>3. QED
    BY <2>1, <2>2
<1>4. CASE CreateAlert(e)
  <2>1. CASE rule.deleted
    BY <1>2, <1>4, <2>1, CallKeeps DEF CreateAlert
  <2>2. CASE ~rule.deleted
    <3> DEFINE k == [pc |-> "notify", alert |-> Len(alerts) + 1]
    <3>1. /\ k.pc = "notify" /\ evaluating[e].pc = "create"
          /\ evaluating' = [evaluating EXCEPT ![e] = k]
          /\ alerts' = Append(alerts, [at |-> minute, status |-> "PENDING"]) /\ UNCHANGED minute
      BY <1>4, <2>2 DEF CreateAlert
    <3> HIDE DEF k
    <3>2. QED
      BY <3>1, CreationKeeps
  <2>3. QED
    BY <2>1, <2>2
<1>5. ASSUME NEW queued, SendNotifications(e, queued) PROVE AlertsInv'
  BY <1>2, <1>5, CallKeeps DEF SendNotifications
<1>6. QED
  BY <1>1, <1>3, <1>4, <1>5

\* Alerts.CooldownBounds for every number of overlapping calls and every cooldown: evaluateEvent
\* looks the cooldown up before it creates the alert, yet within a cooldown period there are never
\* more alerts than calls that can overlap.
THEOREM CooldownIsBounded == AlertsSpec => []CooldownBounds
<1>1. ASSUME AlertsInit PROVE AlertsInv
  <2>1. minute = 0 /\ alerts = <<>> /\ evaluating = [e \in Events |-> Outside]
    BY <1>1 DEF AlertsInit
  <2>2. alerts \in Seq(AlertRows) /\ DOMAIN alerts = {}
    BY <2>1
  <2>3. evaluating = [e \in Events |-> evaluating[e]]
    BY <2>1
  <2>4. QED
    BY <2>1, <2>2, <2>3 DEF AlertsInv
<1>2. ASSUME AlertsInv, [AlertsNext]_alertVars PROVE AlertsInv'
  <2>1. CASE UNCHANGED alertVars
    BY <1>2, <2>1 DEF alertVars, AlertsInv
  <2>2. CASE AlertsNext
    <3>1. ASSUME NEW a \in DOMAIN alerts, AcknowledgeAlert(a) \/ ResolveAlert(a) PROVE AlertsInv'
      <4>1. "ACKNOWLEDGED" \in AlertStatuses /\ "RESOLVED" \in AlertStatuses
        BY DEF AlertStatuses
      <4>2. QED
        BY <1>2, <3>1, <4>1, ChangeStatusKeeps DEF AcknowledgeAlert, ResolveAlert
    <3>2. QED
      BY <1>2, <2>2, <3>1, EvaluationKeeps, ClockAndRuleKeep, AutoResolveKeeps DEF AlertsNext
  <2>3. QED
    BY <1>2, <2>1, <2>2
<1>3. ASSUME AlertsInv PROVE CooldownBounds
  BY <1>3 DEF AlertsInv, PeriodGood, Period, CooldownBounds
<1>4. QED
  BY <1>1, <1>2, <1>3, PTL DEF AlertsSpec

-----------------------------------------------------------------------------
(***************************************************************************)
(* Deliveries.                                                             *)
(***************************************************************************)

CourierStatuses == DOMAIN Advance
KeptRows == [status : CourierStatuses \cup {"none", "UNKNOWN"}, driver : BOOLEAN, pod : BOOLEAN]
HookRows == [status : CourierStatuses \cup {"none"}, driver : BOOLEAN, pod : BOOLEAN]
PlacerStates == [pc : {"idle", "place", "store", "mark"}, order : Nat]
Closed(q) == q.status \in {"USED", "EXPIRED"}

\* One order c with the statuses r it has had, its row k and its webhooks hs on their way.
OrderGood(c, r, k, hs) ==
    /\ c \in r /\ "ASSIGNING_DRIVER" \in r /\ (c = "PICKED_UP" => "ON_GOING" \in r)
    /\ k = Unkept \/ k.status \in r \cup {"UNKNOWN"}
    /\ k.driver => "ON_GOING" \in r
    /\ \A i \in DOMAIN hs : hs[i].status \in r \cup {"none"} /\ (hs[i].driver => "ON_GOING" \in r)

\* As long as webhooks come in their order, the last that names a status names the courier's, and
\* with none of them on its way the row has caught up, or was not there to be told of any.
CaughtUp(c, k, hs) ==
    /\ \A i \in DOMAIN hs :
           hs[i].status # "none" /\ (\A j \in DOMAIN hs : j > i => hs[j].status = "none") => hs[i].status = c
    /\ (\A i \in DOMAIN hs : hs[i].status = "none") =>
           (k = Unkept => c = "ASSIGNING_DRIVER") /\ (k # Unkept => k.status \in {c, "UNKNOWN"})

\* The state's types; an order has its row, its webhooks and its history.
DeliveryTypes ==
    /\ courier \in Seq(CourierStatuses) /\ reached \in Seq(SUBSET CourierStatuses)
    /\ kept \in Seq(KeptRows) /\ hooks \in Seq(Seq(HookRows))
    /\ Len(reached) = Len(courier) /\ Len(kept) = Len(courier) /\ Len(hooks) = Len(courier)
    /\ placing \in [Placers -> PlacerStates]
    /\ quote = [status |-> quote.status, late |-> quote.late]
    /\ \A o \in cancelling : o \in 1 .. Len(courier) /\ courier[o] = "CANCELED"

\* An order that is still to be stored belongs to one call and has no row.
StoringGood(pl, k, n) ==
    /\ \A p \in Placers : pl[p].pc = "store" => pl[p].order \in 1 .. n /\ k[pl[p].order] = Unkept
    /\ \A p, q \in Placers : pl[p].pc = "store" /\ pl[q].pc = "store" /\ pl[p].order = pl[q].order => p = q

OrdersGood ==
    \A o \in 1 .. Len(courier) :
        /\ OrderGood(courier[o], reached[o], kept[o], hooks[o])
        /\ "disorder" \notin lapses => CaughtUp(courier[o], kept[o], hooks[o])

\* What a quotation has bought.  Without an overlap there is one call at a time.
PurchaseGood ==
    /\ "overlap" \notin lapses =>
           \A p, q \in Placers : placing[p].pc # "idle" /\ placing[q].pc # "idle" => p = q
    /\ "overlap" \notin lapses /\ "unfinished" \notin lapses =>
           /\ Len(courier) <= 1
           /\ \A p \in Placers : placing[p].pc = "place" => Len(courier) = 0
    /\ "unfinished" \notin lapses =>
           /\ \A o \in 1 .. Len(courier) :
                  kept[o] # Unkept \/ \E p \in Placers : placing[p].pc = "store" /\ placing[p].order = o
           /\ Len(courier) > 0 => Closed(quote) \/ \E p \in Placers : placing[p].pc \in {"store", "mark"}

\* The inductive invariant.
DeliveriesInv ==
    /\ DeliveryTypes
    /\ StoringGood(placing, kept, Len(courier))
    /\ OrdersGood
    /\ PurchaseGood

\* The courier's statuses and what follows on each.
LEMMA AdvanceFacts ==
    /\ CourierStatuses = {"ASSIGNING_DRIVER", "ON_GOING", "PICKED_UP", "COMPLETED", "CANCELED", "REJECTED", "EXPIRED"}
    /\ \A c \in CourierStatuses, s \in CourierStatuses :
           s \in Advance[c] => c # "CANCELED" /\ (s = "PICKED_UP" => c = "ON_GOING")
BY DEF CourierStatuses, Advance

\* A sequence.
LEMMA SeqElements ==
    ASSUME NEW S, NEW s \in Seq(S)
    PROVE  Len(s) \in Nat /\ DOMAIN s = 1 .. Len(s) /\ \A i \in 1 .. Len(s) : s[i] \in S
<1>1. Len(s) \in Nat
  OBVIOUS
<1>2. DOMAIN s = 1 .. Len(s)
  OBVIOUS
<1>3. ASSUME NEW i \in 1 .. Len(s) PROVE s[i] \in S
  OBVIOUS
<1>4. QED
  BY <1>1, <1>2, <1>3

\* A sequence with one more element.
LEMMA SeqAppended ==
    ASSUME NEW S, NEW s \in Seq(S), NEW v \in S, NEW t, t = Append(s, v)
    PROVE  /\ t \in Seq(S) /\ Len(t) = Len(s) + 1 /\ t[Len(s) + 1] = v
           /\ \A i \in 1 .. Len(s) : t[i] = s[i]
OBVIOUS

\* A sequence with one element replaced.
LEMMA SeqReplaced ==
    ASSUME NEW S, NEW s \in Seq(S), NEW o \in 1 .. Len(s), NEW v \in S, NEW t, t = [s EXCEPT ![o] = v]
    PROVE  /\ t \in Seq(S) /\ Len(t) = Len(s) /\ t[o] = v
           /\ \A i \in 1 .. Len(s) : i # o => t[i] = s[i]
OBVIOUS

\* A sequence with one element removed.
LEMMA SeqRemoved ==
    ASSUME NEW S, NEW s \in Seq(S), NEW i \in 1 .. Len(s), NEW t, t = RemoveAt(s, i)
    PROVE  /\ t \in Seq(S) /\ Len(t) = Len(s) - 1
           /\ \A j \in 1 .. (Len(s) - 1) : t[j] = IF j < i THEN s[j] ELSE s[j + 1]
<1> DEFINE a == SubSeq(s, 1, i - 1)
           b == SubSeq(s, i + 1, Len(s))
<1>1. Len(s) \in Nat /\ i \in Nat /\ i >= 1 /\ i <= Len(s)
  OBVIOUS
<1>2. a \in Seq(S) /\ Len(a) = i - 1 /\ \A j \in 1 .. (i - 1) : a[j] = s[j]
  BY <1>1
<1>3. b \in Seq(S) /\ Len(b) = Len(s) - i /\ \A j \in 1 .. (Len(s) - i) : b[j] = s[i + j]
  BY <1>1
<1>4. t = a \o b
  BY DEF RemoveAt
<1> HIDE DEF a, b
<1>5. t \in Seq(S) /\ Len(t) = Len(s) - 1
  BY <1>1, <1>2, <1>3, <1>4
<1>6. ASSUME NEW j \in 1 .. (Len(s) - 1) PROVE t[j] = IF j < i THEN s[j] ELSE s[j + 1]
  <2>1. CASE j < i
    BY <1>1, <1>2, <1>3, <1>4, <2>1
  <2>2. CASE ~(j < i)
    <3>1. t[j] = b[j - (i - 1)] /\ j - (i - 1) \in 1 .. (Len(s) - i)
      BY <1>1, <1>2, <1>3, <1>4, <2>2
    <3>2. QED
      BY <1>1, <1>3, <2>2, <3>1
  <2>3. QED
    BY <2>1, <2>2
<1>7. QED
  BY <1>5, <1>6

\* A new order has no row and no webhook.
LEMMA NewOrderGood ==
    OrderGood("ASSIGNING_DRIVER", {"ASSIGNING_DRIVER"}, Unkept, <<>>) /\ CaughtUp("ASSIGNING_DRIVER", Unkept, <<>>)
<1>1. DOMAIN <<>> = {} /\ Unkept.driver = FALSE
  BY DEF Unkept
<1>2. QED
  BY <1>1 DEF OrderGood, CaughtUp

\* The courier moves on and tells of it.
LEMMA AdvancedOrder ==
    ASSUME NEW c \in CourierStatuses, NEW r \in SUBSET CourierStatuses, NEW k \in KeptRows,
           NEW hs \in Seq(HookRows), OrderGood(c, r, k, hs), NEW s \in CourierStatuses, s \in Advance[c],
           NEW h \in HookRows, h.status = s, h.driver = (s = "ON_GOING"), NEW t, t = Append(hs, h)
    PROVE  OrderGood(s, r \cup {s}, k, t) /\ CaughtUp(s, k, t)
<1> DEFINE n == Len(hs)
<1>1. /\ n \in Nat /\ DOMAIN hs = 1 .. n /\ DOMAIN t = 1 .. (n + 1)
      /\ t[n + 1] = h /\ \A i \in 1 .. n : t[i] = hs[i]
  OBVIOUS
<1>2. \A i \in DOMAIN t : i \in 1 .. n \/ i = n + 1
  BY <1>1
<1>3. n + 1 \in DOMAIN t /\ \A i \in 1 .. n : n + 1 > i
  BY <1>1
<1> HIDE DEF n
<1>4. s # "none"
  BY AdvanceFacts
<1>5. ASSUME NEW i \in DOMAIN t
      PROVE  t[i].status \in r \cup {s} \cup {"none"} /\ (t[i].driver => "ON_GOING" \in r \cup {s})
  <2>1. CASE i = n + 1
    BY <1>1, <2>1
  <2>2. CASE i \in 1 .. n
    BY <1>1, <2>2 DEF OrderGood
  <2>3. QED
    BY <1>2, <1>5, <2>1, <2>2
<1>6. s = "PICKED_UP" => "ON_GOING" \in r
  BY AdvanceFacts DEF OrderGood
<1>7. OrderGood(s, r \cup {s}, k, t)
  BY <1>5, <1>6 DEF OrderGood
<1>8. ASSUME NEW i \in DOMAIN t, t[i].status # "none",
             \A j \in DOMAIN t : j > i => t[j].status = "none"
      PROVE  t[i].status = s
  <2>1. i \notin 1 .. n
    BY <1>1, <1>3, <1>4, <1>8
  <2>2. QED
    BY <1>1, <1>2, <2>1
<1>9. ~ \A i \in DOMAIN t : t[i].status = "none"
  BY <1>1, <1>3, <1>4
<1>10. QED
  BY <1>7, <1>8, <1>9 DEF CaughtUp

\* The courier sends an event that names no status.
LEMMA ReportedOrder ==
    ASSUME NEW c \in CourierStatuses, NEW r \in SUBSET CourierStatuses, NEW k \in KeptRows,
           NEW hs \in Seq(HookRows), OrderGood(c, r, k, hs),
           NEW h \in HookRows, h.status = "none", h.driver => "ON_GOING" \in r, NEW t, t = Append(hs, h)
    PROVE  OrderGood(c, r, k, t) /\ (CaughtUp(c, k, hs) => CaughtUp(c, k, t))
<1> DEFINE n == Len(hs)
<1>1. /\ n \in Nat /\ DOMAIN hs = 1 .. n /\ DOMAIN t = 1 .. (n + 1)
      /\ t[n + 1] = h /\ \A i \in 1 .. n : t[i] = hs[i]
  OBVIOUS
<1>2. \A i \in DOMAIN t : i \in 1 .. n \/ i = n + 1
  BY <1>1
<1>3. \A i \in DOMAIN hs : i \in DOMAIN t /\ t[i] = hs[i]
  BY <1>1
<1> HIDE DEF n
<1>5. ASSUME NEW i \in DOMAIN t
      PROVE  t[i].status \in r \cup {"none"} /\ (t[i].driver => "ON_GOING" \in r)
  <2>1. CASE i = n + 1
    BY <1>1, <2>1
  <2>2. CASE i \in 1 .. n
    BY <1>1, <2>2 DEF OrderGood
  <2>3. QED
    BY <1>2, <1>5, <2>1, <2>2
<1>6. OrderGood(c, r, k, t)
  BY <1>5 DEF OrderGood
<1>7. ASSUME CaughtUp(c, k, hs), NEW i \in DOMAIN t, t[i].status # "none",
             \A j \in DOMAIN t : j > i => t[j].status = "none"
      PROVE  t[i].status = c
  <2>1. i \in DOMAIN hs
    BY <1>1, <1>2, <1>7
  <2>2. QED
    BY <1>3, <1>7, <2>1 DEF CaughtUp
<1>8. ASSUME CaughtUp(c, k, hs), \A i \in DOMAIN t : t[i].status = "none"
      PROVE  (k = Unkept => c = "ASSIGNING_DRIVER") /\ (k # Unkept => k.status \in {c, "UNKNOWN"})
  BY <1>3, <1>8 DEF CaughtUp
<1>9. CaughtUp(c, k, hs) => CaughtUp(c, k, t)
  BY <1>7, <1>8 DEF CaughtUp
<1>10. QED
  BY <1>6, <1>9

\* A webhook is applied to the row, and stays or is taken off.
LEMMA AppliedHook ==
    ASSUME NEW c, NEW r, NEW k \in KeptRows, k # Unkept,
           NEW hs \in Seq(HookRows), OrderGood(c, r, k, hs), NEW i \in 1 .. Len(hs),
           NEW h, h = hs[i], NEW k2, k2 = UpdateOrderStatus(k, h)
    PROVE  /\ k2 \in KeptRows /\ k2 # Unkept
           /\ OrderGood(c, r, k2, hs)
           /\ k2.status = IF h.status = "none" THEN "UNKNOWN" ELSE h.status
<1>1. h \in HookRows /\ i \in DOMAIN hs
  OBVIOUS
<1>2. h.status \in CourierStatuses \cup {"none"} /\ h.driver \in BOOLEAN /\ h.pod \in BOOLEAN
  BY <1>1 DEF HookRows
<1>3. k.driver \in BOOLEAN /\ k.pod \in BOOLEAN
  BY DEF KeptRows
<1>4. h.status \in r \cup {"none"} /\ (h.driver => "ON_GOING" \in r) /\ (k.driver => "ON_GOING" \in r)
  BY <1>1 DEF OrderGood
<1> DEFINE st == IF h.status = "none" THEN "UNKNOWN" ELSE h.status
           dr == k.driver \/ h.driver
           pd == k.pod \/ h.pod
<1>5. k2 = [status |-> st, driver |-> dr, pod |-> pd]
  BY DEF UpdateOrderStatus
<1>6. /\ st \in CourierStatuses \cup {"UNKNOWN"} /\ st \in r \cup {"UNKNOWN"} /\ st # "none"
  BY <1>2, <1>4, AdvanceFacts
<1>7. dr \in BOOLEAN /\ pd \in BOOLEAN /\ (dr => "ON_GOING" \in r)
  BY <1>2, <1>3, <1>4
<1> HIDE DEF st, dr, pd
<1>8. k2.status = st /\ k2.driver = dr
  BY <1>5
<1>9. k2 \in KeptRows
  BY <1>5, <1>6, <1>7 DEF KeptRows
<1>10. k2 # Unkept
  BY <1>6, <1>8 DEF Unkept
<1>11. OrderGood(c, r, k2, hs)
  BY <1>6, <1>7, <1>8, <1>10 DEF OrderGood
<1>12. QED
  BY <1>8, <1>9, <1>10, <1>11 DEF st

\* A webhook that is taken off leaves the others.
LEMMA TakenOff ==
    ASSUME NEW c, NEW r, NEW k, NEW hs \in Seq(HookRows), OrderGood(c, r, k, hs), NEW i \in 1 .. Len(hs),
           NEW t, t = RemoveAt(hs, i)
    PROVE  t \in Seq(HookRows) /\ OrderGood(c, r, k, t)
<1> DEFINE n == Len(hs)
<1>1. n \in Nat /\ DOMAIN hs = 1 .. n
  OBVIOUS
<1>2. /\ t \in Seq(HookRows) /\ Len(t) = n - 1
      /\ \A j \in 1 .. (n - 1) : t[j] = IF j < i THEN hs[j] ELSE hs[j + 1]
  BY SeqRemoved, ZenonT(60)
<1>3. DOMAIN t = 1 .. (n - 1)
  BY <1>1, <1>2
<1> HIDE DEF n
<1>4. \A j \in DOMAIN t : \E m \in DOMAIN hs : t[j] = hs[m]
  <2>1. \A j \in 1 .. (n - 1) : j \in 1 .. n /\ j + 1 \in 1 .. n
    BY <1>1
  <2>2. QED
    BY <1>1, <1>2, <1>3, <2>1
<1>5. QED
  BY <1>2, <1>4 DEF OrderGood

\* The oldest webhook is applied; it is sent again, or not.
LEMMA CaughtUpAgain ==
    ASSUME NEW c, NEW k, NEW hs \in Seq(HookRows), CaughtUp(c, k, hs), 1 \in 1 .. Len(hs), NEW k2, k2 # Unkept,
           k2.status = IF hs[1].status = "none" THEN "UNKNOWN" ELSE hs[1].status
    PROVE  CaughtUp(c, k2, hs) /\ (\A t : t = RemoveAt(hs, 1) => CaughtUp(c, k2, t))
<1> DEFINE n == Len(hs)
<1>1. n \in Nat /\ DOMAIN hs = 1 .. n /\ 1 \in DOMAIN hs
  OBVIOUS
<1>2. CaughtUp(c, k2, hs)
  BY <1>1 DEF CaughtUp
<1>3. ASSUME NEW t, t = RemoveAt(hs, 1) PROVE CaughtUp(c, k2, t)
  <2>1. /\ t \in Seq(HookRows) /\ Len(t) = n - 1
        /\ \A j \in 1 .. (n - 1) : t[j] = IF j < 1 THEN hs[j] ELSE hs[j + 1]
    BY <1>3, SeqRemoved
  <2>2. DOMAIN t = 1 .. (n - 1)
    BY <1>1, <2>1
  <2> HIDE DEF n
  <2>3. \A j \in DOMAIN t : j \in Nat /\ j >= 1 /\ j + 1 \in DOMAIN hs /\ t[j] = hs[j + 1]
    BY <1>1, <2>1, <2>2
  <2>4. \A m \in DOMAIN hs : m \in Nat /\ (m = 1 \/ (m > 1 /\ m - 1 \in DOMAIN t /\ (m - 1) + 1 = m))
    BY <1>1, <2>2
  <2>5. ASSUME NEW j \in DOMAIN t, t[j].status # "none",
               \A l \in DOMAIN t : l > j => t[l].status = "none"
        PROVE  t[j].status = c
    <3>1. j \in Nat /\ j >= 1 /\ j + 1 \in DOMAIN hs /\ t[j] = hs[j + 1]
      BY <2>3
    <3>2. ASSUME NEW m \in DOMAIN hs, m > j + 1 PROVE hs[m].status = "none"
      <4>1. m \in Nat /\ m - 1 \in DOMAIN t /\ (m - 1) + 1 = m /\ m - 1 > j
        BY <2>4, <3>1, <3>2
      <4>2. t[m - 1] = hs[m]
        BY <2>3, <4>1
      <4>3. QED
        BY <2>5, <4>1, <4>2
    <3>3. QED
      BY <2>5, <3>1, <3>2 DEF CaughtUp
  <2>6. ASSUME \A j \in DOMAIN t : t[j].status = "none" PROVE k2.status \in {c, "UNKNOWN"}
    <3>1. ASSUME NEW m \in DOMAIN hs, m > 1 PROVE hs[m].status = "none"
      <4>1. m \in Nat /\ m - 1 \in DOMAIN t /\ (m - 1) + 1 = m
        BY <2>4, <3>1
      <4>2. t[m - 1] = hs[m]
        BY <2>3, <4>1
      <4>3. QED
        BY <2>6, <4>1, <4>2
    <3>2. hs[1].status # "none" => hs[1].status = c
      BY <1>1, <3>1 DEF CaughtUp
    <3>3. QED
      BY <3>2
  <2>7. QED
    BY <2>5, <2>6 DEF CaughtUp
<1>4. QED
  BY <1>2, <1>3

\* createOrder inserts the row.
LEMMA StoredOrder ==
    ASSUME NEW c, NEW r, NEW hs, OrderGood(c, r, Unkept, hs), NEW k2, k2 = [Unkept EXCEPT !.status = "ASSIGNING_DRIVER"]
    PROVE  /\ k2 \in KeptRows /\ k2 # Unkept /\ OrderGood(c, r, k2, hs)
           /\ CaughtUp(c, Unkept, hs) => CaughtUp(c, k2, hs)
<1>1. k2 = [status |-> "ASSIGNING_DRIVER", driver |-> FALSE, pod |-> FALSE]
  BY DEF Unkept
<1>2. k2 \in KeptRows /\ k2 # Unkept
  <2>1. "ASSIGNING_DRIVER" \in CourierStatuses
    BY AdvanceFacts
  <2>2. k2 \in KeptRows
    <3> DEFINE S == CourierStatuses \cup {"none", "UNKNOWN"}
    <3>1. "ASSIGNING_DRIVER" \in S /\ KeptRows = [status : S, driver : BOOLEAN, pod : BOOLEAN]
      BY <2>1 DEF KeptRows
    <3> HIDE DEF S
    <3>2. [status |-> "ASSIGNING_DRIVER", driver |-> FALSE, pod |-> FALSE] \in [status : S, driver : BOOLEAN, pod : BOOLEAN]
      BY <3>1
    <3>3. QED
      BY <1>1, <3>1, <3>2
  <2>3. k2.status # Unkept.status
    BY <1>1 DEF Unkept
  <2>4. QED
    BY <2>2, <2>3
<1>3. k2.status = "ASSIGNING_DRIVER" /\ k2.driver = FALSE
  BY <1>1
<1>4. OrderGood(c, r, k2, hs)
  BY <1>2, <1>3 DEF OrderGood
<1>5. CaughtUp(c, Unkept, hs) => CaughtUp(c, k2, hs)
  BY <1>2, <1>3 DEF CaughtUp
<1>6. QED
  BY <1>2, <1>4, <1>5

\* cancelOrder writes the row of an order the courier has cancelled.
LEMMA CancelledOrder ==
    ASSUME NEW r, NEW k \in KeptRows, k # Unkept, NEW hs, OrderGood("CANCELED", r, k, hs),
           NEW k2, k2 = [k EXCEPT !.status = "CANCELED"]
    PROVE  /\ k2 \in KeptRows /\ k2 # Unkept /\ OrderGood("CANCELED", r, k2, hs)
           /\ CaughtUp("CANCELED", k, hs) => CaughtUp("CANCELED", k2, hs)
<1>1. k2 \in KeptRows /\ k2.status = "CANCELED" /\ k2.driver = k.driver
  <2> DEFINE S == CourierStatuses \cup {"none", "UNKNOWN"}
  <2>1. "CANCELED" \in S
    BY AdvanceFacts
  <2>2. KeptRows = [status : S, driver : BOOLEAN, pod : BOOLEAN]
    BY DEF KeptRows
  <2> HIDE DEF S
  <2>3. k \in [status : S, driver : BOOLEAN, pod : BOOLEAN]
    BY <2>2
  <2>4. k2 \in [status : S, driver : BOOLEAN, pod : BOOLEAN] /\ k2.status = "CANCELED" /\ k2.driver = k.driver
    BY <2>1, <2>3
  <2>5. QED
    BY <2>2, <2>4
<1>2. k2 # Unkept
  BY <1>1 DEF Unkept
<1>3. OrderGood("CANCELED", r, k2, hs)
  BY <1>1, <1>2 DEF OrderGood
<1>4. CaughtUp("CANCELED", k, hs) => CaughtUp("CANCELED", k2, hs)
  BY <1>1, <1>2 DEF CaughtUp
<1>5. QED
  BY <1>1, <1>2, <1>3, <1>4

\* Sequence t of elements of S differs from s at most in its element o.
OnlyAt(t, s, o, S) == t \in Seq(S) /\ Len(t) = Len(s) /\ \A i \in 1 .. Len(s) : i # o => t[i] = s[i]

\* A step that concerns one order and no call of createOrder.
LEMMA OrderChanges ==
    ASSUME DeliveriesInv, NEW o \in 1 .. Len(courier), UNCHANGED <<placing, quote>>,
           OnlyAt(courier', courier, o, CourierStatuses), OnlyAt(reached', reached, o, SUBSET CourierStatuses),
           OnlyAt(kept', kept, o, KeptRows), OnlyAt(hooks', hooks, o, Seq(HookRows)),
           OrderGood(courier'[o], reached'[o], kept'[o], hooks'[o]),
           "disorder" \notin lapses' => CaughtUp(courier'[o], kept'[o], hooks'[o]),
           kept'[o] = Unkept <=> kept[o] = Unkept, lapses \subseteq lapses',
           \A q \in cancelling' : q \in cancelling \/ q = o, o \in cancelling' => courier'[o] = "CANCELED"
    PROVE  DeliveriesInv'
<1>1. /\ Len(courier') = Len(courier) /\ Len(reached') = Len(courier)
      /\ Len(kept') = Len(courier) /\ Len(hooks') = Len(courier)
  BY DEF OnlyAt, DeliveriesInv, DeliveryTypes
<1>2. ASSUME NEW q \in 1 .. Len(courier), q # o
      PROVE  courier'[q] = courier[q] /\ reached'[q] = reached[q] /\ kept'[q] = kept[q] /\ hooks'[q] = hooks[q]
  BY <1>2 DEF OnlyAt, DeliveriesInv, DeliveryTypes
<1>3. DeliveryTypes'
  <2>1. /\ courier' \in Seq(CourierStatuses) /\ reached' \in Seq(SUBSET CourierStatuses)
        /\ kept' \in Seq(KeptRows) /\ hooks' \in Seq(Seq(HookRows))
    BY DEF OnlyAt
  <2>2. ASSUME NEW q \in cancelling' PROVE q \in 1 .. Len(courier') /\ courier'[q] = "CANCELED"
    <3>1. CASE q = o
      BY <1>1, <2>2, <3>1
    <3>2. CASE q # o
      BY <1>1, <1>2, <2>2, <3>2 DEF DeliveriesInv, DeliveryTypes
    <3>3. QED
      BY <3>1, <3>2
  <2>3. placing' \in [Placers -> PlacerStates] /\ quote' = [status |-> quote'.status, late |-> quote'.late]
    BY DEF DeliveriesInv, DeliveryTypes
  <2>4. QED
    BY <1>1, <2>1, <2>2, <2>3 DEF DeliveryTypes
<1>4. \A q \in 1 .. Len(courier) : kept'[q] = Unkept <=> kept[q] = Unkept
  BY <1>2
<1>5. StoringGood(placing', kept', Len(courier'))
  BY <1>1, <1>4 DEF DeliveriesInv, StoringGood
<1>6. OrdersGood'
  <2>1. ASSUME NEW q \in 1 .. Len(courier), q # o
        PROVE  /\ OrderGood(courier'[q], reached'[q], kept'[q], hooks'[q])
               /\ "disorder" \notin lapses' => CaughtUp(courier'[q], kept'[q], hooks'[q])
    BY <1>2, <2>1 DEF DeliveriesInv, OrdersGood
  <2>2. QED
    BY <1>1, <2>1 DEF OrdersGood
<1>7. PurchaseGood'
  BY <1>1, <1>4 DEF DeliveriesInv, PurchaseGood
<1>8. QED
  BY <1>3, <1>5, <1>6, <1>7 DEF DeliveriesInv

\* The parts of one order have their types.
LEMMA OrderTypes ==
    ASSUME DeliveriesInv, NEW o \in 1 .. Len(courier)
    PROVE  /\ courier[o] \in CourierStatuses /\ reached[o] \in SUBSET CourierStatuses
           /\ kept[o] \in KeptRows /\ hooks[o] \in Seq(HookRows)
           /\ OrderGood(courier[o], reached[o], kept[o], hooks[o])
           /\ "disorder" \notin lapses => CaughtUp(courier[o], kept[o], hooks[o])
           /\ OnlyAt(courier, courier, o, CourierStatuses) /\ OnlyAt(reached, reached, o, SUBSET CourierStatuses)
           /\ OnlyAt(kept, kept, o, KeptRows) /\ OnlyAt(hooks, hooks, o, Seq(HookRows))
           /\ o \in DOMAIN courier /\ o \in 1 .. Len(reached) /\ o \in 1 .. Len(kept) /\ o \in 1 .. Len(hooks)
           /\ o \in cancelling => courier[o] = "CANCELED"
<1>1. /\ courier \in Seq(CourierStatuses) /\ reached \in Seq(SUBSET CourierStatuses)
      /\ kept \in Seq(KeptRows) /\ hooks \in Seq(Seq(HookRows))
      /\ Len(reached) = Len(courier) /\ Len(kept) = Len(courier) /\ Len(hooks) = Len(courier)
  BY DEF DeliveriesInv, DeliveryTypes
<1>2. /\ courier[o] \in CourierStatuses /\ reached[o] \in SUBSET CourierStatuses
      /\ kept[o] \in KeptRows /\ hooks[o] \in Seq(HookRows) /\ o \in DOMAIN courier
  BY <1>1, SeqElements
<1>3. /\ OnlyAt(courier, courier, o, CourierStatuses) /\ OnlyAt(reached, reached, o, SUBSET CourierStatuses)
      /\ OnlyAt(kept, kept, o, KeptRows) /\ OnlyAt(hooks, hooks, o, Seq(HookRows))
  BY <1>1 DEF OnlyAt
<1>4. QED
  BY <1>1, <1>2, <1>3 DEF DeliveriesInv, OrdersGood, DeliveryTypes

\* Sequence t is s with its element o replaced by v.
Replaced(t, s, o, v) == t = [s EXCEPT ![o] = v]

\* Replacing one element leaves the others.
LEMMA ReplacedOnlyAt ==
    ASSUME NEW S, NEW s, NEW o, NEW v \in S, OnlyAt(s, s, o, S), o \in 1 .. Len(s), NEW t, Replaced(t, s, o, v)
    PROVE  OnlyAt(t, s, o, S) /\ t[o] = v
BY SeqReplaced DEF OnlyAt, Replaced

\* The courier's order moves on, and the row is left alone.
LEMMA BecomesKeeps ==
    ASSUME DeliveriesInv, NEW o \in 1 .. Len(courier), NEW s \in CourierStatuses, s \in Advance[courier[o]],
           Becomes(o, s), UNCHANGED <<quote, kept, placing, lapses>>,
           \A q \in cancelling' : q \in cancelling \/ (q = o /\ s = "CANCELED")
    PROVE  DeliveriesInv'
<1> DEFINE c == courier[o]
           r == reached[o]
           k == kept[o]
           hs == hooks[o]
           h == Hook(s, s = "ON_GOING", FALSE)
           t == Append(hs, h)
<1>1. /\ c \in CourierStatuses /\ r \in SUBSET CourierStatuses /\ k \in KeptRows /\ hs \in Seq(HookRows)
      /\ OrderGood(c, r, k, hs)
  BY OrderTypes
<1>2. h \in HookRows /\ h.status = s /\ h.driver = (s = "ON_GOING")
  BY DEF Hook, HookRows
<1>3. /\ courier' = [courier EXCEPT ![o] = s] /\ reached' = [reached EXCEPT ![o] = r \cup {s}]
      /\ hooks' = [hooks EXCEPT ![o] = t]
  BY DEF Becomes
<1>4. s \in Advance[c]
  OBVIOUS
<1> HIDE DEF h
<1>5. t \in Seq(HookRows)
  BY <1>1, <1>2
<1> HIDE DEF c, r, k, hs, t
<1>6. OrderGood(s, r \cup {s}, k, t) /\ CaughtUp(s, k, t)
  BY <1>1, <1>2, <1>4, AdvancedOrder DEF t
<1>7. OnlyAt(courier', courier, o, CourierStatuses) /\ courier'[o] = s
  BY <1>3, OrderTypes, ReplacedOnlyAt DEF Replaced
<1>8. OnlyAt(reached', reached, o, SUBSET CourierStatuses) /\ reached'[o] = r \cup {s}
  <2> DEFINE all == SUBSET CourierStatuses
             v == r \cup {s}
  <2>1. v \in all /\ OnlyAt(reached, reached, o, all) /\ o \in 1 .. Len(reached)
    BY <1>1, OrderTypes
  <2>2. Replaced(reached', reached, o, v)
    BY <1>3 DEF Replaced
  <2> HIDE DEF all, v
  <2>3. OnlyAt(reached', reached, o, all) /\ reached'[o] = v
    BY <2>1, <2>2, ReplacedOnlyAt
  <2>4. QED
    BY <2>3 DEF all, v
<1>9. OnlyAt(hooks', hooks, o, Seq(HookRows)) /\ hooks'[o] = t
  <2>1. OnlyAt(hooks, hooks, o, Seq(HookRows)) /\ o \in 1 .. Len(hooks)
    BY OrderTypes
  <2>2. Replaced(hooks', hooks, o, t)
    BY <1>3 DEF Replaced
  <2>3. QED
    BY <1>5, <2>1, <2>2, ReplacedOnlyAt
<1>10. OnlyAt(kept', kept, o, KeptRows) /\ kept'[o] = k
  BY OrderTypes DEF k
<1>11. o \in cancelling' => courier'[o] = "CANCELED"
  <2>1. o \in cancelling => c = "CANCELED"
    BY OrderTypes DEF c
  <2>2. c # "CANCELED"
    BY <1>1, <1>4, AdvanceFacts
  <2>3. QED
    BY <1>7, <2>1, <2>2
<1>12. QED
  BY <1>6, <1>7, <1>8, <1>9, <1>10, <1>11, OrderChanges

\* cancelOrder: the courier's answer.
LEMMA CancelOrderKeeps ==
    ASSUME DeliveriesInv, NEW o \in 1 .. Len(courier), NEW agreed \in BOOLEAN, CancelOrder(o, agreed)
    PROVE  DeliveriesInv'
<1>1. CASE agreed
  <2>1. "CANCELED" \in CourierStatuses
    BY AdvanceFacts
  <2>2. /\ "CANCELED" \in Advance[courier[o]] /\ Becomes(o, "CANCELED")
        /\ UNCHANGED <<quote, kept, placing, lapses>> /\ cancelling' = cancelling \cup {o}
    BY <1>1 DEF CancelOrder
  <2>3. QED
    BY <2>1, <2>2, BecomesKeeps
<1>2. CASE ~agreed
  <2>1. UNCHANGED deliveryVars
    BY <1>2 DEF CancelOrder, deliveryVars
  <2>2. QED
    BY <2>1 DEF deliveryVars, DeliveriesInv, DeliveryTypes, OrdersGood, PurchaseGood
<1>3. QED
  BY <1>1, <1>2

\* cancelOrder: the row.
LEMMA CancelOrderWriteKeeps ==
    ASSUME DeliveriesInv, NEW o \in 1 .. Len(courier), CancelOrderWrite(o)
    PROVE  DeliveriesInv'
<1> DEFINE c == courier[o]
           r == reached[o]
           k == kept[o]
           hs == hooks[o]
           k2 == [k EXCEPT !.status = "CANCELED"]
<1>1. /\ k \in KeptRows /\ OrderGood(c, r, k, hs) /\ c = "CANCELED"
      /\ "disorder" \notin lapses => CaughtUp(c, k, hs)
      /\ OnlyAt(courier, courier, o, CourierStatuses) /\ OnlyAt(reached, reached, o, SUBSET CourierStatuses)
      /\ OnlyAt(kept, kept, o, KeptRows) /\ OnlyAt(hooks, hooks, o, Seq(HookRows)) /\ o \in 1 .. Len(kept)
  BY OrderTypes DEF CancelOrderWrite
<1>2. UNCHANGED <<quote, courier, reached, hooks, placing, lapses>> /\ cancelling' \subseteq cancelling /\ o \notin cancelling'
  BY DEF CancelOrderWrite
<1>3. CASE k = Unkept
  <2>1. kept' = kept
    BY <1>3 DEF CancelOrderWrite
  <2>2. QED
    BY <1>1, <1>2, <2>1, OrderChanges
<1>4. CASE k # Unkept
  <2>1. kept' = [kept EXCEPT ![o] = k2]
    BY <1>4 DEF CancelOrderWrite
  <2> HIDE DEF k, c, r, hs, k2
  <2>2. /\ k2 \in KeptRows /\ k2 # Unkept /\ OrderGood(c, r, k2, hs) /\ (CaughtUp(c, k, hs) => CaughtUp(c, k2, hs))
    BY <1>1, <1>4, CancelledOrder DEF k2
  <2>3. OnlyAt(kept', kept, o, KeptRows) /\ kept'[o] = k2
    <3>1. Replaced(kept', kept, o, k2)
      BY <2>1 DEF Replaced
    <3>2. QED
      BY <1>1, <2>2, <3>1, ReplacedOnlyAt
  <2>4. /\ OrderGood(courier'[o], reached'[o], kept'[o], hooks'[o])
        /\ "disorder" \notin lapses' => CaughtUp(courier'[o], kept'[o], hooks'[o])
    BY <1>1, <1>2, <2>2, <2>3 DEF c, r, hs
  <2>5. kept'[o] = Unkept <=> kept[o] = Unkept
    BY <1>4, <2>2, <2>3 DEF k
  <2>6. QED
    BY <1>1, <1>2, <2>3, <2>4, <2>5, OrderChanges
<1>5. QED
  BY <1>3, <1>4

\* The courier sends an event without a status.
LEMMA CourierReportsKeeps ==
    ASSUME DeliveriesInv, NEW o \in 1 .. Len(courier), CourierReports(o)
    PROVE  DeliveriesInv'
<1> DEFINE c == courier[o]
           r == reached[o]
           k == kept[o]
           hs == hooks[o]
<1>1. /\ c \in CourierStatuses /\ r \in SUBSET CourierStatuses /\ hs \in Seq(HookRows)
      /\ k \in KeptRows /\ OrderGood(c, r, k, hs)
      /\ "disorder" \notin lapses => CaughtUp(c, k, hs)
      /\ OnlyAt(courier, courier, o, CourierStatuses) /\ OnlyAt(reached, reached, o, SUBSET CourierStatuses)
      /\ OnlyAt(kept, kept, o, KeptRows) /\ OnlyAt(hooks, hooks, o, Seq(HookRows)) /\ o \in 1 .. Len(hooks)
      /\ o \in cancelling => c = "CANCELED"
  BY OrderTypes
<1>2. UNCHANGED <<quote, courier, reached, kept, placing, cancelling, lapses>>
  BY DEF CourierReports
<1>3. PICK h \in HookRows : h.status = "none" /\ (h.driver => "ON_GOING" \in r) /\ hooks' = [hooks EXCEPT ![o] = Append(hs, h)]
  <2> DEFINE h1 == Hook("none", TRUE, FALSE)
             h2 == Hook("none", FALSE, TRUE)
  <2>1. h1 \in HookRows /\ h2 \in HookRows /\ h1.status = "none" /\ h2.status = "none" /\ h2.driver = FALSE
    BY DEF Hook, HookRows
  <2>2. c = "PICKED_UP" => "ON_GOING" \in r
    BY <1>1 DEF OrderGood
  <2>3. \/ c = "PICKED_UP" /\ hooks' = [hooks EXCEPT ![o] = Append(hs, h1)]
        \/ hooks' = [hooks EXCEPT ![o] = Append(hs, h2)]
    BY DEF CourierReports
  <2> HIDE DEF h1, h2
  <2>4. QED
    BY <2>1, <2>2, <2>3
<1> DEFINE t == Append(hs, h)
<1>4. t \in Seq(HookRows)
  BY <1>1
<1> HIDE DEF c, r, k, hs, t
<1>5. OrderGood(c, r, k, t) /\ (CaughtUp(c, k, hs) => CaughtUp(c, k, t))
  BY <1>1, <1>3, ReportedOrder DEF t
<1>6. OnlyAt(hooks', hooks, o, Seq(HookRows)) /\ hooks'[o] = t
  <2>1. Replaced(hooks', hooks, o, t)
    BY <1>3 DEF t, Replaced
  <2>2. QED
    BY <1>1, <1>4, <2>1, ReplacedOnlyAt
<1>7. /\ OrderGood(courier'[o], reached'[o], kept'[o], hooks'[o])
      /\ "disorder" \notin lapses' => CaughtUp(courier'[o], kept'[o], hooks'[o])
  BY <1>1, <1>2, <1>5, <1>6 DEF c, r, k
<1>8. o \in cancelling' => courier'[o] = "CANCELED"
  BY <1>1, <1>2 DEF c
<1>9. QED
  BY <1>1, <1>2, <1>6, <1>7, <1>8, OrderChanges

\* A webhook arrives.
LEMMA ProcessWebhookKeeps ==
    ASSUME DeliveriesInv, NEW o \in 1 .. Len(courier), NEW i \in 1 .. MaxHooks, NEW again \in BOOLEAN,
           ProcessWebhookEvent(o, i, again)
    PROVE  DeliveriesInv'
<1> DEFINE c == courier[o]
           r == reached[o]
           k == kept[o]
           hs == hooks[o]
           h == hs[i]
           k2 == UpdateOrderStatus(k, h)
           t == RemoveAt(hs, i)
<1>1. /\ c \in CourierStatuses /\ r \in SUBSET CourierStatuses /\ hs \in Seq(HookRows)
      /\ k \in KeptRows /\ OrderGood(c, r, k, hs)
      /\ "disorder" \notin lapses => CaughtUp(c, k, hs)
      /\ OnlyAt(courier, courier, o, CourierStatuses) /\ OnlyAt(reached, reached, o, SUBSET CourierStatuses)
      /\ OnlyAt(kept, kept, o, KeptRows) /\ OnlyAt(hooks, hooks, o, Seq(HookRows))
      /\ o \in 1 .. Len(hooks) /\ o \in 1 .. Len(kept)
      /\ o \in cancelling => c = "CANCELED"
  BY OrderTypes
<1>2. /\ UNCHANGED <<quote, courier, reached, placing, cancelling>> /\ lapses \subseteq lapses'
      /\ "disorder" \notin lapses' => i = 1 /\ (k # Unkept \/ again) /\ "disorder" \notin lapses
  <2>1. ~(i > 1) => i = 1
    OBVIOUS
  <2>2. lapses' = IF i > 1 \/ (k = Unkept /\ ~again) THEN lapses \cup {"disorder"} ELSE lapses
    BY DEF ProcessWebhookEvent
  <2>3. QED
    BY <2>1, <2>2 DEF ProcessWebhookEvent
<1>3. /\ i \in DOMAIN hs
      /\ k = Unkept => kept' = kept
      /\ k # Unkept => Replaced(kept', kept, o, k2)
      /\ again => hooks' = hooks
      /\ ~again => Replaced(hooks', hooks, o, t)
  BY DEF ProcessWebhookEvent, Replaced
<1>4. i \in 1 .. Len(hs)
  BY <1>1, <1>3
<1> HIDE DEF c, r, k, hs, t, k2
<1>5. t \in Seq(HookRows) /\ OrderGood(c, r, k, t)
  BY <1>1, <1>4, TakenOff DEF t
<1>6. k # Unkept => /\ k2 \in KeptRows /\ k2 # Unkept /\ OrderGood(c, r, k2, hs)
                    /\ k2.status = IF h.status = "none" THEN "UNKNOWN" ELSE h.status
  <2>1. k2 = UpdateOrderStatus(k, h) /\ h = hs[i]
    BY DEF k2
  <2>2. SUFFICES ASSUME k # Unkept
                 PROVE  /\ k2 \in KeptRows /\ k2 # Unkept /\ OrderGood(c, r, k2, hs)
                        /\ k2.status = IF h.status = "none" THEN "UNKNOWN" ELSE h.status
    OBVIOUS
  <2> HIDE DEF h
  <2>3. k \in KeptRows /\ hs \in Seq(HookRows) /\ OrderGood(c, r, k, hs)
    BY <1>1
  <2>4. QED
    BY <1>4, <2>1, <2>2, <2>3, AppliedHook
<1>7. k # Unkept => OrderGood(c, r, k2, t)
  BY <1>1, <1>4, <1>6, TakenOff DEF t
<1>8. k # Unkept /\ "disorder" \notin lapses' => CaughtUp(c, k2, hs) /\ CaughtUp(c, k2, t)
  <2> SUFFICES ASSUME k # Unkept, "disorder" \notin lapses'
               PROVE  CaughtUp(c, k2, hs) /\ CaughtUp(c, k2, t)
    OBVIOUS
  <2>1. i = 1 /\ CaughtUp(c, k, hs) /\ hs \in Seq(HookRows) /\ k2 # Unkept
    BY <1>1, <1>2, <1>6
  <2>2. 1 \in 1 .. Len(hs) /\ t = RemoveAt(hs, 1)
    BY <1>4, <2>1 DEF t
  <2>3. k2.status = IF hs[1].status = "none" THEN "UNKNOWN" ELSE hs[1].status
    BY <1>6, <2>1
  <2>4. QED
    BY <2>1, <2>2, <2>3, CaughtUpAgain
<1>9. /\ OnlyAt(kept', kept, o, KeptRows) /\ (k = Unkept => kept'[o] = k) /\ (k # Unkept => kept'[o] = k2)
  <2>1. CASE k = Unkept
    BY <1>1, <1>3, <2>1 DEF k
  <2>2. CASE k # Unkept
    BY <1>1, <1>3, <1>6, <2>2, ReplacedOnlyAt
  <2>3. QED
    BY <2>1, <2>2
<1>10. /\ OnlyAt(hooks', hooks, o, Seq(HookRows)) /\ (again => hooks'[o] = hs) /\ (~again => hooks'[o] = t)
  <2>1. CASE again
    BY <1>1, <1>3, <2>1 DEF hs
  <2>2. CASE ~again
    BY <1>1, <1>3, <1>5, <2>2, ReplacedOnlyAt
  <2>3. QED
    BY <2>1, <2>2
<1>11. courier'[o] = c /\ reached'[o] = r
  BY <1>2 DEF c, r
<1>12. OrderGood(courier'[o], reached'[o], kept'[o], hooks'[o])
  BY <1>1, <1>5, <1>6, <1>7, <1>9, <1>10, <1>11
<1>13. "disorder" \notin lapses' => CaughtUp(courier'[o], kept'[o], hooks'[o])
  BY <1>1, <1>2, <1>8, <1>9, <1>10, <1>11
<1>14. kept'[o] = Unkept <=> kept[o] = Unkept
  BY <1>6, <1>9 DEF k
<1>15. o \in cancelling' => courier'[o] = "CANCELED"
  BY <1>1, <1>2, <1>11
<1>16. OnlyAt(courier', courier, o, CourierStatuses) /\ OnlyAt(reached', reached, o, SUBSET CourierStatuses)
  BY <1>1, <1>2
<1>17. QED
  BY <1>2, <1>9, <1>10, <1>12, <1>13, <1>14, <1>15, <1>16, OrderChanges

\* The quotation's own life: once USED or EXPIRED it stays closed.
LEMMA QuoteKeeps ==
    ASSUME DeliveriesInv, CreateQuotation \/ QuotationLapses \/ GetQuotation
    PROVE  DeliveriesInv'
<1>1. UNCHANGED <<courier, reached, kept, hooks, placing, cancelling, lapses>>
  BY DEF CreateQuotation, QuotationLapses, GetQuotation
<1>2. quote = [status |-> quote.status, late |-> quote.late]
  BY DEF DeliveriesInv, DeliveryTypes
<1>3. quote' = [status |-> quote'.status, late |-> quote'.late] /\ (Closed(quote) => Closed(quote'))
  <2>1. CASE CreateQuotation
    BY <1>2, <2>1 DEF CreateQuotation, Closed
  <2>2. CASE QuotationLapses
    BY <1>2, <2>2 DEF QuotationLapses, Closed
  <2>3. CASE GetQuotation
    BY <1>2, <2>3 DEF GetQuotation, Closed
  <2>4. QED
    BY <2>1, <2>2, <2>3
<1>4. DeliveryTypes'
  BY <1>1, <1>3 DEF DeliveriesInv, DeliveryTypes
<1>5. StoringGood(placing', kept', Len(courier'))
  BY <1>1 DEF DeliveriesInv
<1>6. OrdersGood'
  BY <1>1 DEF DeliveriesInv, OrdersGood
<1>7. PurchaseGood'
  BY <1>1, <1>3 DEF DeliveriesInv, PurchaseGood
<1>8. QED
  BY <1>4, <1>5, <1>6, <1>7 DEF DeliveriesInv

\* A call of createOrder goes on: the other calls stay where they are.
LEMMA PlacerMoves ==
    ASSUME DeliveriesInv, NEW p \in Placers, NEW pc \in {"idle", "place", "store", "mark"}, NEW o \in Nat, At(p, pc, o)
    PROVE  /\ placing' \in [Placers -> PlacerStates]
           /\ placing'[p].pc = pc /\ placing'[p].order = o
           /\ \A q \in Placers : q # p => placing'[q] = placing[q]
<1>1. placing \in [Placers -> PlacerStates]
  BY DEF DeliveriesInv, DeliveryTypes
<1> DEFINE st == [pc |-> pc, order |-> o]
<1>2. st \in PlacerStates /\ st.pc = pc /\ st.order = o
  BY DEF PlacerStates
<1>3. placing' = [placing EXCEPT ![p] = st]
  BY DEF At
<1> HIDE DEF st
<1>4. QED
  BY <1>1, <1>2, <1>3

\* createOrder reads the quotation.
LEMMA CreateOrderReadKeeps ==
    ASSUME DeliveriesInv, NEW p \in Placers, CreateOrderRead(p)
    PROVE  DeliveriesInv'
<1>1. UNCHANGED <<quote, courier, reached, kept, hooks, cancelling>>
  BY DEF CreateOrderRead
<1>2. /\ placing' \in [Placers -> PlacerStates] /\ placing'[p].pc = "place"
      /\ \A q \in Placers : q # p => placing'[q] = placing[q]
  BY PlacerMoves DEF CreateOrderRead
<1>3. /\ lapses \subseteq lapses' /\ ("disorder" \in lapses' => "disorder" \in lapses)
      /\ "unfinished" \in lapses' => "unfinished" \in lapses
      /\ "overlap" \notin lapses' => \A q \in Placers : placing[q].pc = "idle"
  BY DEF CreateOrderRead, Overlap
<1>4. placing[p].pc = "idle" /\ ~Closed(quote)
  BY DEF CreateOrderRead, Usable, Closed
<1>5. DeliveryTypes'
  BY <1>1, <1>2 DEF DeliveriesInv, DeliveryTypes
<1>6. StoringGood(placing', kept', Len(courier'))
  BY <1>1, <1>2 DEF DeliveriesInv, StoringGood
<1>7. OrdersGood'
  BY <1>1, <1>3 DEF DeliveriesInv, OrdersGood
<1>8. PurchaseGood'
  <2>1. "overlap" \notin lapses' =>
            \A q, s \in Placers : placing'[q].pc # "idle" /\ placing'[s].pc # "idle" => q = s
    BY <1>2, <1>3
  <2>2. Len(courier) \in Nat
    BY DEF DeliveriesInv, DeliveryTypes
  <2>3. "overlap" \notin lapses' /\ "unfinished" \notin lapses' => Len(courier) = 0
    BY <1>3, <1>4, <2>2 DEF DeliveriesInv, PurchaseGood
  <2>4. ASSUME NEW q \in Placers, placing[q].pc \in {"store", "mark"} PROVE placing'[q] = placing[q]
    BY <1>2, <1>4, <2>4
  <2>5. QED
    BY <1>1, <1>3, <2>1, <2>2, <2>3, <2>4 DEF DeliveriesInv, PurchaseGood
<1>9. QED
  BY <1>5, <1>6, <1>7, <1>8 DEF DeliveriesInv

\* createOrder orders from the courier.
LEMMA CreateOrderPlaceKeeps ==
    ASSUME DeliveriesInv, NEW p \in Placers, CreateOrderPlace(p)
    PROVE  DeliveriesInv'
<1> DEFINE n == Len(courier)
           first == "ASSIGNING_DRIVER"
<1>1. UNCHANGED <<quote, cancelling, lapses>> /\ placing[p].pc = "place"
  BY DEF CreateOrderPlace
<1>2. /\ courier \in Seq(CourierStatuses) /\ reached \in Seq(SUBSET CourierStatuses)
      /\ kept \in Seq(KeptRows) /\ hooks \in Seq(Seq(HookRows)) /\ n \in Nat
      /\ Len(reached) = n /\ Len(kept) = n /\ Len(hooks) = n
  BY DEF DeliveriesInv, DeliveryTypes
<1>3. first \in CourierStatuses /\ Unkept \in KeptRows /\ <<>> \in Seq(HookRows) /\ {first} \in SUBSET CourierStatuses
  BY AdvanceFacts DEF KeptRows, Unkept
<1>4. /\ courier' \in Seq(CourierStatuses) /\ Len(courier') = n + 1 /\ courier'[n + 1] = first
      /\ \A o \in 1 .. n : courier'[o] = courier[o]
  BY <1>2, <1>3 DEF CreateOrderPlace
<1>5. /\ reached' \in Seq(SUBSET CourierStatuses) /\ Len(reached') = n + 1 /\ reached'[n + 1] = {first}
      /\ \A o \in 1 .. n : reached'[o] = reached[o]
  BY <1>2, <1>3 DEF CreateOrderPlace
<1>6. /\ kept' \in Seq(KeptRows) /\ Len(kept') = n + 1 /\ kept'[n + 1] = Unkept
      /\ \A o \in 1 .. n : kept'[o] = kept[o]
  BY <1>2, <1>3 DEF CreateOrderPlace
<1>7. /\ hooks' \in Seq(Seq(HookRows)) /\ Len(hooks') = n + 1 /\ hooks'[n + 1] = <<>>
      /\ \A o \in 1 .. n : hooks'[o] = hooks[o]
  BY <1>2, <1>3 DEF CreateOrderPlace
<1>8. /\ placing' \in [Placers -> PlacerStates] /\ placing'[p].pc = "store" /\ placing'[p].order = n + 1
      /\ \A q \in Placers : q # p => placing'[q] = placing[q]
  <2>1. n + 1 \in Nat /\ At(p, "store", n + 1)
    BY <1>2 DEF CreateOrderPlace
  <2> HIDE DEF n
  <2>2. QED
    BY <2>1, PlacerMoves
<1>9. \A q \in cancelling : q \in 1 .. n /\ courier[q] = "CANCELED"
  BY DEF DeliveriesInv, DeliveryTypes
<1>10. \A q \in Placers : placing[q].pc = "store" => placing[q].order \in 1 .. n /\ kept[placing[q].order] = Unkept
  BY DEF DeliveriesInv, StoringGood
<1>11. \A o \in 1 .. n : OrderGood(courier[o], reached[o], kept[o], hooks[o])
                         /\ ("disorder" \notin lapses => CaughtUp(courier[o], kept[o], hooks[o]))
  BY DEF DeliveriesInv, OrdersGood
<1>12. \A q, s \in Placers : placing[q].pc = "store" /\ placing[s].pc = "store"
                             /\ placing[q].order = placing[s].order => q = s
  BY DEF DeliveriesInv, StoringGood
<1>13. quote' = [status |-> quote'.status, late |-> quote'.late]
  BY <1>1 DEF DeliveriesInv, DeliveryTypes
<1>14. /\ "overlap" \notin lapses =>
              \A q, s \in Placers : placing[q].pc # "idle" /\ placing[s].pc # "idle" => q = s
       /\ "overlap" \notin lapses /\ "unfinished" \notin lapses => n = 0
       /\ "unfinished" \notin lapses =>
              \A o \in 1 .. n : kept[o] # Unkept \/ \E q \in Placers : placing[q].pc = "store" /\ placing[q].order = o
  BY <1>1 DEF DeliveriesInv, PurchaseGood
<1> HIDE DEF n
<1>15. \A o \in 1 .. (n + 1) : o \in 1 .. n \/ o = n + 1
  BY <1>2
<1>16. n + 1 \notin 1 .. n /\ n + 1 \in 1 .. (n + 1) /\ \A o \in 1 .. n : o \in 1 .. (n + 1)
  BY <1>2
<1>17. DeliveryTypes'
  <2>1. \A q \in cancelling' : q \in 1 .. Len(courier') /\ courier'[q] = "CANCELED"
    BY <1>1, <1>4, <1>9, <1>16
  <2>2. QED
    BY <1>4, <1>5, <1>6, <1>7, <1>8, <1>13, <2>1 DEF DeliveryTypes
<1>18. StoringGood(placing', kept', Len(courier'))
  <2>1. ASSUME NEW q \in Placers, placing'[q].pc = "store"
        PROVE  placing'[q].order \in 1 .. (n + 1) /\ kept'[placing'[q].order] = Unkept
    <3>1. CASE q = p
      BY <1>6, <1>8, <1>16, <3>1
    <3>2. CASE q # p
      BY <1>6, <1>8, <1>10, <1>16, <2>1, <3>2
    <3>3. QED
      BY <3>1, <3>2
  <2>2. ASSUME NEW q \in Placers, NEW s \in Placers, placing'[q].pc = "store", placing'[s].pc = "store",
               placing'[q].order = placing'[s].order
        PROVE  q = s
    BY <1>8, <1>10, <1>12, <1>16, <2>2
  <2>3. QED
    BY <1>4, <2>1, <2>2 DEF StoringGood
<1>19. OrdersGood'
  <2>1. ASSUME NEW o \in 1 .. n
        PROVE  /\ OrderGood(courier'[o], reached'[o], kept'[o], hooks'[o])
               /\ "disorder" \notin lapses' => CaughtUp(courier'[o], kept'[o], hooks'[o])
    BY <1>1, <1>4, <1>5, <1>6, <1>7, <1>11
  <2>2. /\ OrderGood(courier'[n + 1], reached'[n + 1], kept'[n + 1], hooks'[n + 1])
        /\ CaughtUp(courier'[n + 1], kept'[n + 1], hooks'[n + 1])
    BY <1>4, <1>5, <1>6, <1>7, NewOrderGood
  <2>3. QED
    BY <1>4, <1>15, <2>1, <2>2 DEF OrdersGood
<1>20. PurchaseGood'
  <2>1. "overlap" \notin lapses' =>
            \A q, s \in Placers : placing'[q].pc # "idle" /\ placing'[s].pc # "idle" => q = s
    BY <1>1, <1>8, <1>14
  <2>2. "overlap" \notin lapses' /\ "unfinished" \notin lapses' =>
            /\ Len(courier') <= 1
            /\ \A q \in Placers : placing'[q].pc # "place"
    <3>1. ASSUME "overlap" \notin lapses', "unfinished" \notin lapses', NEW q \in Placers PROVE placing'[q].pc # "place"
      BY <1>1, <1>8, <2>1, <3>1
    <3>2. "overlap" \notin lapses' /\ "unfinished" \notin lapses' => n = 0
      BY <1>1, <1>14
    <3>3. QED
      BY <1>4, <3>1, <3>2
  <2>3. ASSUME "unfinished" \notin lapses', NEW o \in 1 .. (n + 1)
        PROVE  kept'[o] # Unkept \/ \E q \in Placers : placing'[q].pc = "store" /\ placing'[q].order = o
    <3>1. CASE o = n + 1
      BY <1>8, <3>1
    <3>2. CASE o \in 1 .. n
      BY <1>1, <1>6, <1>8, <1>14, <2>3, <3>2
    <3>3. QED
      BY <1>15, <2>3, <3>1, <3>2
  <2>4. \E q \in Placers : placing'[q].pc \in {"store", "mark"}
    BY <1>8
  <2>5. QED
    BY <1>4, <2>1, <2>2, <2>3, <2>4 DEF PurchaseGood
<1>21. QED
  BY <1>17, <1>18, <1>19, <1>20 DEF DeliveriesInv

\* createOrder inserts the order's row.
LEMMA CreateOrderStoreKeeps ==
    ASSUME DeliveriesInv, NEW p \in Placers, CreateOrderStore(p)
    PROVE  DeliveriesInv'
<1> DEFINE o == placing[p].order
           n == Len(courier)
           k2 == [Unkept EXCEPT !.status = "ASSIGNING_DRIVER"]
<1>1. UNCHANGED <<quote, courier, reached, hooks, cancelling, lapses>> /\ placing[p].pc = "store"
  BY DEF CreateOrderStore
<1>2. o \in 1 .. n /\ kept[o] = Unkept /\ n \in Nat
  BY <1>1 DEF DeliveriesInv, StoringGood, DeliveryTypes
<1>3. Replaced(kept', kept, o, k2)
  BY <1>2 DEF CreateOrderStore, Replaced
<1>4. /\ placing' \in [Placers -> PlacerStates] /\ placing'[p].pc = "mark"
      /\ \A q \in Placers : q # p => placing'[q] = placing[q]
  <2>1. o \in Nat /\ At(p, "mark", o)
    BY <1>2 DEF CreateOrderStore
  <2> HIDE DEF o
  <2>2. QED
    BY <2>1, PlacerMoves
<1> HIDE DEF o, n
<1>5. /\ OrderGood(courier[o], reached[o], Unkept, hooks[o]) /\ o \in 1 .. Len(kept)
      /\ "disorder" \notin lapses => CaughtUp(courier[o], Unkept, hooks[o])
      /\ OnlyAt(kept, kept, o, KeptRows)
  BY <1>2, OrderTypes DEF n
<1> HIDE DEF k2
<1>6. /\ k2 \in KeptRows /\ k2 # Unkept /\ OrderGood(courier[o], reached[o], k2, hooks[o])
      /\ CaughtUp(courier[o], Unkept, hooks[o]) => CaughtUp(courier[o], k2, hooks[o])
  BY <1>5, StoredOrder DEF k2
<1>7. OnlyAt(kept', kept, o, KeptRows) /\ kept'[o] = k2
  BY <1>3, <1>5, <1>6, ReplacedOnlyAt
<1>8. kept' \in Seq(KeptRows) /\ Len(kept') = n /\ \A q \in 1 .. n : q # o => kept'[q] = kept[q]
  BY <1>7 DEF OnlyAt, DeliveriesInv, DeliveryTypes, n
<1>9. DeliveryTypes'
  BY <1>1, <1>4, <1>8 DEF DeliveriesInv, DeliveryTypes, n
<1>10. StoringGood(placing', kept', Len(courier'))
  <2>1. ASSUME NEW q \in Placers, placing'[q].pc = "store"
        PROVE  q # p /\ placing'[q] = placing[q] /\ placing[q].order \in 1 .. n /\ placing[q].order # o
    BY <1>1, <1>4, <2>1 DEF DeliveriesInv, StoringGood, n, o
  <2>2. QED
    BY <1>1, <1>8, <2>1 DEF DeliveriesInv, StoringGood, n
<1>11. OrdersGood'
  <2>1. ASSUME NEW q \in 1 .. n
        PROVE  /\ OrderGood(courier'[q], reached'[q], kept'[q], hooks'[q])
               /\ "disorder" \notin lapses' => CaughtUp(courier'[q], kept'[q], hooks'[q])
    <3>1. CASE q = o
      BY <1>1, <1>5, <1>6, <1>7, <3>1
    <3>2. CASE q # o
      BY <1>1, <1>8, <2>1, <3>2 DEF DeliveriesInv, OrdersGood, n
    <3>3. QED
      BY <3>1, <3>2
  <2>2. QED
    BY <1>1, <2>1 DEF OrdersGood, n
<1>12. PurchaseGood'
  <2>1. ASSUME NEW q \in Placers
        PROVE  /\ placing'[q].pc # "idle" => placing[q].pc # "idle"
               /\ placing'[q].pc = "place" => placing[q].pc = "place"
    BY <1>1, <1>4, <2>1
  <2>2. ASSUME "unfinished" \notin lapses', NEW q \in 1 .. n
        PROVE  kept'[q] # Unkept \/ \E s \in Placers : placing'[s].pc = "store" /\ placing'[s].order = q
    <3>1. CASE q = o
      BY <1>6, <1>7, <3>1
    <3>2. CASE q # o
      <4>1. kept[q] # Unkept \/ \E s \in Placers : placing[s].pc = "store" /\ placing[s].order = q
        BY <1>1, <2>2 DEF DeliveriesInv, PurchaseGood, n
      <4>2. QED
        BY <1>4, <1>8, <2>2, <3>2, <4>1 DEF o
    <3>3. QED
      BY <3>1, <3>2
  <2>3. \E q \in Placers : placing'[q].pc \in {"store", "mark"}
    BY <1>4
  <2>4. QED
    BY <1>1, <2>1, <2>2, <2>3 DEF DeliveriesInv, PurchaseGood, n
<1>13. QED
  BY <1>9, <1>10, <1>11, <1>12 DEF DeliveriesInv

\* createOrder marks the quotation as used.
LEMMA CreateOrderMarkKeeps ==
    ASSUME DeliveriesInv, NEW p \in Placers, CreateOrderMark(p)
    PROVE  DeliveriesInv'
<1>1. UNCHANGED <<courier, reached, kept, hooks, cancelling, lapses>> /\ placing[p].pc = "mark"
  BY DEF CreateOrderMark
<1>2. /\ placing' \in [Placers -> PlacerStates] /\ placing'[p].pc = "idle"
      /\ \A q \in Placers : q # p => placing'[q] = placing[q]
  BY PlacerMoves DEF CreateOrderMark
<1>3. quote' = [status |-> quote'.status, late |-> quote'.late] /\ Closed(quote')
  <2>1. quote = [status |-> quote.status, late |-> quote.late]
    BY DEF DeliveriesInv, DeliveryTypes
  <2>2. quote' = [quote EXCEPT !.status = "USED"]
    BY DEF CreateOrderMark
  <2>3. QED
    BY <2>1, <2>2 DEF Closed
<1>4. DeliveryTypes'
  BY <1>1, <1>2, <1>3 DEF DeliveriesInv, DeliveryTypes
<1>5. StoringGood(placing', kept', Len(courier'))
  BY <1>1, <1>2 DEF DeliveriesInv, StoringGood
<1>6. OrdersGood'
  BY <1>1 DEF DeliveriesInv, OrdersGood
<1>7. PurchaseGood'
  <2>1. ASSUME NEW q \in Placers, placing[q].pc = "store" PROVE placing'[q] = placing[q]
    BY <1>1, <1>2, <2>1
  <2>2. ASSUME NEW q \in Placers, placing'[q].pc # "idle" PROVE placing'[q] = placing[q]
    BY <1>2, <2>2
  <2>3. QED
    BY <1>1, <1>3, <2>1, <2>2 DEF DeliveriesInv, PurchaseGood
<1>8. QED
  BY <1>4, <1>5, <1>6, <1>7 DEF DeliveriesInv

\* A call inside createOrder fails.
LEMMA CreateOrderFailsKeeps ==
    ASSUME DeliveriesInv, NEW p \in Placers, CreateOrderFails(p)
    PROVE  DeliveriesInv'
<1>1. /\ UNCHANGED <<quote, courier, reached, kept, hooks, cancelling>> /\ lapses \subseteq lapses'
      /\ "disorder" \notin lapses' => "disorder" \notin lapses
      /\ "unfinished" \notin lapses' => placing[p].pc = "place" /\ "unfinished" \notin lapses
  BY DEF CreateOrderFails
<1>2. /\ placing' \in [Placers -> PlacerStates] /\ placing'[p].pc = "idle"
      /\ \A q \in Placers : q # p => placing'[q] = placing[q]
  BY PlacerMoves DEF CreateOrderFails
<1>4. DeliveryTypes'
  BY <1>1, <1>2 DEF DeliveriesInv, DeliveryTypes
<1>5. StoringGood(placing', kept', Len(courier'))
  BY <1>1, <1>2 DEF DeliveriesInv, StoringGood
<1>6. OrdersGood'
  BY <1>1 DEF DeliveriesInv, OrdersGood
<1>7. PurchaseGood'
  <2>1. ASSUME NEW q \in Placers, "unfinished" \notin lapses', placing[q].pc \in {"store", "mark"}
        PROVE  placing'[q] = placing[q]
    BY <1>1, <1>2, <2>1
  <2>2. ASSUME NEW q \in Placers, placing'[q].pc # "idle" PROVE placing'[q] = placing[q]
    BY <1>2, <2>2
  <2>3. QED
    BY <1>1, <2>1, <2>2 DEF DeliveriesInv, PurchaseGood
<1>8. QED
  BY <1>4, <1>5, <1>6, <1>7 DEF DeliveriesInv

\* Every step keeps the invariant.
LEMMA DeliveriesStep ==
    ASSUME DeliveriesInv, [DeliveriesNext]_deliveryVars
    PROVE  DeliveriesInv'
<1>1. ASSUME UNCHANGED deliveryVars PROVE DeliveriesInv'
  BY <1>1 DEF deliveryVars, DeliveriesInv, DeliveryTypes, OrdersGood, PurchaseGood
<1>2. OrdersPlaced = 1 .. Len(courier)
  BY DEF DeliveriesInv, DeliveryTypes, OrdersPlaced
<1>3. ASSUME NEW o \in OrdersPlaced, NEW status \in DOMAIN Advance, CourierAdvances(o, status) PROVE DeliveriesInv'
  <2>1. /\ o \in 1 .. Len(courier) /\ status \in CourierStatuses /\ status \in Advance[courier[o]]
        /\ Becomes(o, status) /\ UNCHANGED <<quote, kept, placing, cancelling, lapses>>
    BY <1>2, <1>3 DEF CourierAdvances, CourierStatuses
  <2>2. QED
    BY <2>1, BecomesKeeps
<1>4. ASSUME NEW o \in OrdersPlaced,
             \/ GetOrder(o) \/ CancelOrderWrite(o) \/ CourierReports(o)
             \/ \E agreed \in BOOLEAN : CancelOrder(o, agreed)
             \/ \E status \in DOMAIN Advance : CourierAdvances(o, status)
             \/ \E i \in 1..MaxHooks, again \in BOOLEAN : ProcessWebhookEvent(o, i, again)
      PROVE  DeliveriesInv'
  BY <1>1, <1>2, <1>3, <1>4, CancelOrderWriteKeeps, CourierReportsKeeps, CancelOrderKeeps, ProcessWebhookKeeps
     DEF GetOrder
<1>5. QED
  BY <1>1, <1>4, QuoteKeeps, CreateOrderReadKeeps, CreateOrderPlaceKeeps, CreateOrderStoreKeeps,
     CreateOrderMarkKeeps, CreateOrderFailsKeeps DEF DeliveriesNext

\* The invariant holds at the start.
LEMMA DeliveriesStart ==
    ASSUME DeliveriesInit
    PROVE  DeliveriesInv
<1>1. /\ courier = <<>> /\ reached = <<>> /\ kept = <<>> /\ hooks = <<>> /\ cancelling = {} /\ lapses = {}
      /\ placing = [p \in Placers |-> NotPlacing] /\ quote = [status |-> "none", late |-> FALSE]
  BY DEF DeliveriesInit
<1>2. Len(courier) = 0 /\ Len(reached) = 0 /\ Len(kept) = 0 /\ Len(hooks) = 0 /\ 1 .. Len(courier) = {}
  BY <1>1
<1>3. /\ courier \in Seq(CourierStatuses) /\ reached \in Seq(SUBSET CourierStatuses)
      /\ kept \in Seq(KeptRows) /\ hooks \in Seq(Seq(HookRows))
  BY <1>1
<1>4. NotPlacing \in PlacerStates /\ NotPlacing.pc = "idle"
  BY DEF NotPlacing, PlacerStates
<1>5. placing \in [Placers -> PlacerStates] /\ \A p \in Placers : placing[p].pc = "idle"
  BY <1>1, <1>4
<1>6. quote = [status |-> quote.status, late |-> quote.late]
  BY <1>1
<1>7. DeliveryTypes
  BY <1>1, <1>2, <1>3, <1>5, <1>6 DEF DeliveryTypes
<1>8. StoringGood(placing, kept, Len(courier)) /\ OrdersGood /\ PurchaseGood
  BY <1>2, <1>5 DEF StoringGood, OrdersGood, PurchaseGood
<1>9. QED
  BY <1>7, <1>8 DEF DeliveriesInv

\* Deliveries.QuoteBuysOnce for any number of calls of createOrder: a second order at the courier needs
\* two calls that overlapped or one that stopped half-way; if no call stopped half-way and none runs,
\* every order has its row and the quotation is closed for good.
THEOREM QuoteIsSpentOnce == DeliveriesSpec => []QuoteBuysOnce
<1>1. ASSUME DeliveriesInv PROVE QuoteBuysOnce
  <2>1. Len(courier) \in Nat /\ OrdersPlaced = 1 .. Len(courier) /\ (courier # <<>> => Len(courier) > 0)
    BY <1>1 DEF DeliveriesInv, DeliveryTypes, OrdersPlaced
  <2>2. Len(courier) > 1 => lapses \cap {"overlap", "unfinished"} # {}
    BY <1>1, <2>1 DEF DeliveriesInv, PurchaseGood
  <2>3. "unfinished" \notin lapses /\ ~Overlap /\ courier # <<>> =>
            (\A o \in OrdersPlaced : kept[o] # Unkept) /\ quote.status \in {"USED", "EXPIRED"}
    <3>1. ~Overlap => \A p \in Placers : placing[p].pc = "idle"
      BY DEF Overlap
    <3>2. QED
      BY <1>1, <2>1, <3>1 DEF DeliveriesInv, PurchaseGood, Closed
  <2>4. QED
    BY <2>2, <2>3 DEF QuoteBuysOnce
<1>2. QED
  BY <1>1, DeliveriesStart, DeliveriesStep, PTL DEF DeliveriesSpec

\* Deliveries.RowFollowsCourier for any number of orders and webhooks on their way: the row never shows
\* a status the courier's order has not had nor a driver before there was one, and with webhooks in
\* their order and none on its way it shows the courier's status, or UNKNOWN.
THEOREM RowsFollowTheCourier == DeliveriesSpec => []RowFollowsCourier
<1>1. ASSUME DeliveriesInv PROVE RowFollowsCourier
  <2>1. OrdersPlaced = 1 .. Len(courier)
    BY <1>1 DEF DeliveriesInv, DeliveryTypes, OrdersPlaced
  <2>2. ASSUME NEW o \in OrdersPlaced, kept[o] # Unkept
        PROVE  /\ kept[o].status \in reached[o] \cup {"UNKNOWN"}
               /\ kept[o].driver => "ON_GOING" \in reached[o]
    BY <1>1, <2>1, <2>2 DEF DeliveriesInv, OrdersGood, OrderGood
  <2>3. ASSUME NEW o \in OrdersPlaced, kept[o] # Unkept, "disorder" \notin lapses, hooks[o] = <<>>
        PROVE  kept[o].status \in {courier[o], "UNKNOWN"}
    <3>1. DOMAIN hooks[o] = {}
      BY <2>3
    <3>2. QED
      BY <1>1, <2>1, <2>3, <3>1 DEF DeliveriesInv, OrdersGood, CaughtUp
  <2>4. QED
    BY <2>2, <2>3 DEF RowFollowsCourier
<1>2. QED
  BY <1>1, DeliveriesStart, DeliveriesStep, PTL DEF DeliveriesSpec

-----------------------------------------------------------------------------
(***************************************************************************)
(* The communication hub.                                                  *)
(***************************************************************************)

SendingFields == {"pc", "due", "status", "tried", "template", "then", "quiet", "read", "owed"}

\* What was accepted belongs to a channel that is owed; within the quiet hours none is, and no SMS is
\* when the preferences could not be read.
OnlyTheOwed ==
    /\ \A c \in ChannelSet : delivered[c] > 0 => c \in call.owed
    /\ call.quiet /\ call.read => call.owed = {}
    /\ ~call.read => "sms" \notin call.owed
    /\ call.owed \in SUBSET ChannelSet /\ call.then \in SUBSET ChannelSet

\* The promises are those of the channels, one for each.
OneEach(due, channels) ==
    /\ \A i \in DOMAIN due : due[i] \in channels
    /\ \A c \in channels : \E i \in DOMAIN due : due[i] = c
    /\ \A i, j \in DOMAIN due : due[i] = due[j] => i = j

\* A message is settled as sent only after a provider accepted it.
FulfilledArrived ==
    /\ DOMAIN call.status = DOMAIN call.due
    /\ \A i \in DOMAIN call.due :
           call.due[i] \in {"email", "sms"} /\ call.status[i] = "fulfilled" => delivered[call.due[i]] > 0

\* What the result says, with what was accepted and what was owed.
ResultGood ==
    /\ \A c \in {"email", "sms"} : c \in call.sent => delivered[c] > 0
    /\ call.sent \cup call.failed = call.owed /\ call.sent \cap call.failed = {}

Preferences == [stored : {TRUE}, on : SUBSET ChannelSet, quiet : QuietHours]

CommInv ==
    /\ stored \in Preferences \cup {NoPreferences}
    /\ IsFiniteSet(subscribed)
    /\ delivered \in [ChannelSet -> Nat]
    /\ call = AtRest \/ call.pc \in {"sending", "result"}
    /\ call.pc = "sending" =>
           DOMAIN call = SendingFields /\ FulfilledArrived /\ OneEach(call.due, call.owed)
    /\ call.pc = "result" => ResultGood
    /\ call.pc \in {"sending", "result"} => OnlyTheOwed

\* An hour of the day is its own remainder.
LEMMA HourItself == \A n \in Hours : n % Day = n
BY CommunicationAssumption DEF Hours

\* The quiet hours on the clock's face are within those the code tests for, also over midnight.
LEMMA FaceIsWithin ==
  ASSUME NEW quiet \in QuietHours, NEW now \in Hours, OnTheFace(quiet, now)
  PROVE  IsWithinQuietHours(quiet, now)
<1>1. now \in Int /\ Day \in Int /\ 0 <= now /\ now < Day
  BY CommunicationAssumption DEF Hours
<1>2. quiet # <<>>
  BY DEF OnTheFace
<1>3. CASE quiet = <<1, 1>>
  BY <1>1, <1>2, <1>3 DEF IsWithinQuietHours
<1>4. CASE quiet = <<0, 1>>
  <2>1. now <= 1
    <3>1. CASE Day = 1
      BY <1>1, <3>1
    <3>2. CASE Day # 1
      <4>1. 1 % Day = 1 /\ now % Day = now
        BY <1>1, <3>2, HourItself DEF Hours
      <4>2. (now - 0) % Day <= (1 - 0) % Day
        BY <1>4 DEF OnTheFace
      <4>3. now - 0 = now /\ 1 - 0 = 1
        BY <1>1
      <4>4. QED
        BY <4>1, <4>2, <4>3
    <3>3. QED
      BY <3>1, <3>2
  <2>2. QED
    BY <1>1, <1>4, <2>1 DEF IsWithinQuietHours
<1>5. CASE quiet = <<Day - 1, 0>>
  <2>1. now >= Day - 1 \/ now <= 0
    <3>1. SUFFICES ASSUME now < Day - 1 PROVE now <= 0
      BY <1>1
    <3>2. now + 1 \in Hours /\ 1 \in Hours
      BY <1>1, <3>1 DEF Hours
    <3>3. (now - (Day - 1)) % Day = now + 1 /\ (0 - (Day - 1)) % Day = 1
      <4>1. \A n \in Hours : (n - Day) % Day = n
        BY CommunicationAssumption DEF Hours
      <4>2. now - (Day - 1) = (now + 1) - Day /\ 0 - (Day - 1) = 1 - Day
        BY <1>1
      <4>3. QED
        BY <3>2, <4>1, <4>2
    <3>4. (now - (Day - 1)) % Day <= (0 - (Day - 1)) % Day
      BY <1>5 DEF OnTheFace
    <3>5. QED
      BY <1>1, <3>3, <3>4
  <2>2. ~(Day - 1 < 0)
    BY <1>1
  <2>3. QED
    BY <1>2, <1>5, <2>1, <2>2 DEF IsWithinQuietHours
<1>6. QED
  BY <1>2, <1>3, <1>4, <1>5 DEF QuietHours

\* Promises joined behind each other are one for each channel of both, when none is in both.
LEMMA JoinedOneEach ==
  ASSUME NEW S, NEW s \in Seq(S), NEW t \in Seq(S), NEW A, NEW B,
         OneEach(s, A), OneEach(t, B), A \cap B = {}
  PROVE  s \o t \in Seq(S) /\ OneEach(s \o t, A \cup B)
<1> DEFINE both == s \o t
<1>1. /\ both \in Seq(S) /\ Len(both) = Len(s) + Len(t)
      /\ \A i \in 1 .. Len(s) : both[i] = s[i]
      /\ \A i \in 1 .. Len(t) : both[Len(s) + i] = t[i]
  OBVIOUS
<1>2. /\ Len(s) \in Nat /\ Len(t) \in Nat
      /\ DOMAIN s = 1 .. Len(s) /\ DOMAIN t = 1 .. Len(t) /\ DOMAIN both = 1 .. Len(both)
  BY <1>1
<1> HIDE DEF both
<1>3. ASSUME NEW i \in DOMAIN both
      PROVE  \/ i \in DOMAIN s /\ both[i] = s[i]
             \/ i - Len(s) \in DOMAIN t /\ both[i] = t[i - Len(s)]
  <2>1. CASE i <= Len(s)
    BY <1>1, <1>2, <2>1
  <2>2. CASE i > Len(s)
    <3>1. i - Len(s) \in 1 .. Len(t) /\ Len(s) + (i - Len(s)) = i
      BY <1>1, <1>2, <2>2
    <3>2. QED
      BY <1>1, <1>2, <3>1
  <2>3. QED
    BY <1>1, <1>2, <2>1, <2>2
<1>4. \A i \in DOMAIN both : both[i] \in A \cup B
  BY <1>3 DEF OneEach
<1>5. ASSUME NEW c \in A \cup B PROVE \E i \in DOMAIN both : both[i] = c
  <2>1. CASE c \in A
    <3>1. PICK i \in DOMAIN s : s[i] = c
      BY <2>1 DEF OneEach
    <3>2. i \in DOMAIN both
      BY <1>1, <1>2
    <3>3. QED
      BY <1>1, <1>2, <3>1, <3>2
  <2>2. CASE c \in B
    <3>1. PICK i \in DOMAIN t : t[i] = c
      BY <2>2 DEF OneEach
    <3>2. Len(s) + i \in DOMAIN both
      BY <1>1, <1>2
    <3>3. QED
      BY <1>1, <1>2, <3>1, <3>2
  <2>3. QED
    BY <2>1, <2>2
<1>6. ASSUME NEW i \in DOMAIN both, NEW j \in DOMAIN both, both[i] = both[j] PROVE i = j
  <2>1. CASE i \in DOMAIN s /\ both[i] = s[i]
    <3>1. both[i] \in A
      BY <2>1 DEF OneEach
    <3>2. j \in DOMAIN s /\ both[j] = s[j]
      BY <1>3, <1>6, <3>1 DEF OneEach
    <3>3. QED
      BY <1>6, <2>1, <3>2 DEF OneEach
  <2>2. CASE i - Len(s) \in DOMAIN t /\ both[i] = t[i - Len(s)]
    <3>1. both[i] \in B
      BY <2>2 DEF OneEach
    <3>2. j - Len(s) \in DOMAIN t /\ both[j] = t[j - Len(s)]
      BY <1>3, <1>6, <3>1 DEF OneEach
    <3>3. i - Len(s) = j - Len(s)
      BY <1>6, <2>2, <3>2 DEF OneEach
    <3>4. QED
      BY <1>2, <3>3
  <2>3. QED
    BY <1>3, <2>1, <2>2
<1>7. QED
  BY <1>1, <1>4, <1>5, <1>6 DEF OneEach, both

\* The hub makes one promise for each channel that is asked for and switched on.
LEMMA PromisesOneEach ==
  ASSUME NEW asked \in SUBSET ChannelSet, NEW on \in SUBSET ChannelSet
  PROVE  OneEach(Promises(asked, on), asked \cap on)
<1> DEFINE promise(c) == IF c \in asked /\ c \in on THEN <<c>> ELSE <<>>
           wanted(c) == asked \cap on \cap {c}
<1>1. ASSUME NEW c \in ChannelSet PROVE promise(c) \in Seq(ChannelSet) /\ OneEach(promise(c), wanted(c))
  <2>1. CASE c \in asked /\ c \in on
    <3>1. promise(c) = <<c>> /\ wanted(c) = {c}
      BY <2>1
    <3>2. QED
      BY <3>1 DEF OneEach
  <2>2. CASE ~(c \in asked /\ c \in on)
    <3>1. promise(c) = <<>> /\ wanted(c) = {} /\ DOMAIN <<>> = {}
      BY <2>2
    <3>2. QED
      BY <3>1 DEF OneEach
  <2>3. QED
    BY <2>1, <2>2
<1>2. Promises(asked, on) = (promise("email") \o promise("push")) \o promise("sms")
  BY DEF Promises
<1>3. /\ asked \cap on = (wanted("email") \cup wanted("push")) \cup wanted("sms")
      /\ wanted("email") \cap wanted("push") = {}
      /\ (wanted("email") \cup wanted("push")) \cap wanted("sms") = {}
  BY DEF ChannelSet
<1> HIDE DEF promise, wanted
<1>4. \A c \in {"email", "push", "sms"} :
          promise(c) \in Seq(ChannelSet) /\ OneEach(promise(c), wanted(c))
  BY <1>1 DEF ChannelSet
<1>5. /\ promise("email") \o promise("push") \in Seq(ChannelSet)
      /\ OneEach(promise("email") \o promise("push"), wanted("email") \cup wanted("push"))
  BY <1>3, <1>4, JoinedOneEach
<1>6. OneEach((promise("email") \o promise("push")) \o promise("sms"),
              (wanted("email") \cup wanted("push")) \cup wanted("sms"))
  BY <1>3, <1>4, <1>5, JoinedOneEach
<1>7. QED
  BY <1>2, <1>3, <1>6

\* A call begins with nothing settled, with nothing owed within the quiet hours when the preferences
\* were read, and with no SMS owed when they were not.
LEMMA BegunIsGood ==
  ASSUME CommInv, NEW asked \in SUBSET ChannelSet, NEW next \in SUBSET ChannelSet, NEW template,
         NEW now \in Hours, NEW read \in BOOLEAN,
         call' = Begin(asked, next, template, now, read), delivered' = NothingDelivered,
         UNCHANGED <<stored, subscribed>>
  PROVE  CommInv'
<1> DEFINE p == GetUserCommunicationPreferences(read)
           silent == IsWithinQuietHours(p.quiet, now)
           due == IF silent THEN <<>> ELSE Promises(asked, p.on)
           owed == IF silent THEN {} ELSE asked \cap p.on
           face == OnTheFace(GetUserCommunicationPreferences(TRUE).quiet, now)
<1>1. /\ call'.pc = "sending" /\ call'.due = due /\ call'.then = next
      /\ call'.status = [i \in DOMAIN due |-> "pending"]
      /\ call'.quiet = face /\ call'.read = read /\ call'.owed = owed
      /\ DOMAIN call' = SendingFields
  BY DEF Begin, SendingFields
<1>2. p.quiet \in QuietHours /\ p.on \in SUBSET ChannelSet
  BY DEF CommInv, Preferences, GetUserCommunicationPreferences, QuietHours, ChannelSet
<1>3. ~read => p.on = {"email", "push"}
  BY DEF GetUserCommunicationPreferences
<1>4. read /\ face => OnTheFace(p.quiet, now)
  OBVIOUS
<1> HIDE DEF p, face
<1>5. read /\ face => silent
  BY <1>2, <1>4, FaceIsWithin
<1>6. OneEach(due, owed)
  <2>1. CASE silent
    <3>1. due = <<>> /\ owed = {} /\ DOMAIN <<>> = {}
      BY <2>1
    <3>2. QED
      BY <3>1 DEF OneEach
  <2>2. CASE ~silent
    BY <1>2, <2>2, PromisesOneEach
  <2>3. QED
    BY <2>1, <2>2
<1>7. /\ owed \in SUBSET ChannelSet
      /\ read /\ face => owed = {}
      /\ ~read => "sms" \notin owed
  BY <1>2, <1>3, <1>5
<1> HIDE DEF due, owed, silent
<1>8. FulfilledArrived'
  BY <1>1 DEF FulfilledArrived
<1>9. delivered' \in [ChannelSet -> Nat] /\ \A c \in ChannelSet : delivered'[c] = 0
  BY DEF NothingDelivered
<1>10. OnlyTheOwed'
  BY <1>1, <1>7, <1>9 DEF OnlyTheOwed
<1>11. (stored \in Preferences \cup {NoPreferences})' /\ IsFiniteSet(subscribed)'
  BY DEF CommInv
<1>12. OneEach(call.due, call.owed)'
  BY <1>1, <1>6
<1>13. QED
  BY <1>1, <1>8, <1>9, <1>10, <1>11, <1>12 DEF CommInv

\* A channel that is tried is one that is owed.
LEMMA OpenIsOwed ==
  ASSUME CommInv, NEW c, NEW i \in Open(c)
  PROVE  /\ call.pc = "sending" /\ DOMAIN call = SendingFields
         /\ i \in DOMAIN call.due /\ call.due[i] = c /\ c \in call.owed
BY DEF Open, CommInv, OneEach

\* A try keeps the invariant: a promise is fulfilled only by a message that arrived.
LEMMA TriedIsGood ==
  ASSUME CommInv, NEW c \in ChannelSet, NEW i \in Open(c), NEW outcome, NEW arrived \in Nat,
         call'.pc = "sending", DOMAIN call' = SendingFields,
         call'.due = call.due, call'.then = call.then, call'.quiet = call.quiet,
         call'.read = call.read, call'.owed = call.owed,
         call'.status = [call.status EXCEPT ![i] = outcome],
         delivered' = [delivered EXCEPT ![c] = @ + arrived],
         UNCHANGED <<stored, subscribed>>,
         outcome = "fulfilled" /\ c # "push" => arrived > 0
  PROVE  CommInv'
<1>1. /\ call.pc = "sending" /\ i \in DOMAIN call.due /\ call.due[i] = c /\ c \in call.owed
  BY OpenIsOwed
<1>2. delivered \in [ChannelSet -> Nat]
  BY DEF CommInv
<1>3. /\ delivered' \in [ChannelSet -> Nat]
      /\ delivered'[c] = delivered[c] + arrived
      /\ \A x \in ChannelSet : delivered'[x] >= delivered[x]
      /\ \A x \in ChannelSet \ {c} : delivered'[x] = delivered[x]
  BY <1>2
<1>4. OnlyTheOwed'
  BY <1>1, <1>3 DEF OnlyTheOwed, CommInv
<1>5. FulfilledArrived'
  <2>1. FulfilledArrived
    BY <1>1 DEF CommInv
  <2>2. DOMAIN call'.status = DOMAIN call'.due
    BY <2>1 DEF FulfilledArrived
  <2>3. ASSUME NEW j \in DOMAIN call.due, call.due[j] \in {"email", "sms"}, call'.status[j] = "fulfilled"
        PROVE  delivered'[call.due[j]] > 0
    <3>1. CASE j = i
      <4>1. outcome = "fulfilled" /\ c \in {"email", "sms"}
        BY <1>1, <2>1, <2>3, <3>1 DEF FulfilledArrived
      <4>2. delivered[c] \in Nat /\ arrived > 0
        BY <1>2, <4>1
      <4>3. QED
        BY <1>1, <1>3, <3>1, <4>2
    <3>2. CASE j # i
      <4>1. call.status[j] = "fulfilled"
        BY <2>1, <2>3, <3>2 DEF FulfilledArrived
      <4>2. call.due[j] \in ChannelSet /\ delivered[call.due[j]] > 0
        BY <2>1, <2>3, <4>1 DEF FulfilledArrived, ChannelSet
      <4>3. delivered'[call.due[j]] >= delivered[call.due[j]]
        BY <1>3, <4>2
      <4>4. delivered[call.due[j]] \in Nat /\ delivered'[call.due[j]] \in Nat
        BY <1>2, <1>3, <4>2
      <4>5. QED
        BY <4>2, <4>3, <4>4
    <3>3. QED
      BY <3>1, <3>2
  <2>4. QED
    BY <2>2, <2>3 DEF FulfilledArrived
<1>6. OneEach(call.due, call.owed)'
  BY <1>1 DEF CommInv
<1>7. (stored \in Preferences \cup {NoPreferences})' /\ IsFiniteSet(subscribed)'
  BY DEF CommInv
<1>8. QED
  BY <1>3, <1>4, <1>5, <1>6, <1>7 DEF CommInv

\* What a try leaves of the call.
LEMMA TryOfACall ==
  ASSUME CommInv, NEW c \in ChannelSet, NEW i \in Open(c), NEW outcome, NEW arrived \in Nat,
         Tried(c, i, outcome, arrived),
         outcome = "fulfilled" /\ c # "push" => arrived > 0
  PROVE  CommInv'
<1>1. DOMAIN call = SendingFields /\ call.pc = "sending"
  BY OpenIsOwed
<1>2. /\ call'.pc = "sending" /\ DOMAIN call' = SendingFields
      /\ call'.due = call.due /\ call'.then = call.then /\ call'.quiet = call.quiet
      /\ call'.read = call.read /\ call'.owed = call.owed
      /\ call'.status = [call.status EXCEPT ![i] = outcome]
  BY <1>1 DEF Tried, SendingFields
<1>3. delivered' = [delivered EXCEPT ![c] = @ + arrived] /\ UNCHANGED <<stored, subscribed>>
  BY DEF Tried
<1>4. QED
  BY <1>2, <1>3, TriedIsGood

\* A channel that is rejected without a try changes nothing else.
LEMMA UnaddressedIsGood ==
  ASSUME CommInv, NEW c \in {"email", "sms"}, NEW i, Unaddressed(c, i)
  PROVE  CommInv'
<1>1. i \in Open(c) /\ c \in ChannelSet
  BY DEF Unaddressed, ChannelSet
<1>2. DOMAIN call = SendingFields /\ call.pc = "sending"
  BY <1>1, OpenIsOwed
<1>3. /\ call'.pc = "sending" /\ DOMAIN call' = SendingFields
      /\ call'.due = call.due /\ call'.then = call.then /\ call'.quiet = call.quiet
      /\ call'.read = call.read /\ call'.owed = call.owed
      /\ call'.status = [call.status EXCEPT ![i] = "rejected"]
  BY <1>2 DEF Unaddressed, SendingFields
<1>4. delivered' = [delivered EXCEPT ![c] = @ + 0] /\ UNCHANGED <<stored, subscribed>>
  BY <1>1 DEF Unaddressed, CommInv
<1>5. "rejected" # "fulfilled" /\ 0 \in Nat
  OBVIOUS
<1>6. QED
  BY <1>1, <1>3, <1>4, <1>5, TriedIsGood

\* Reading the flags and the errors off the settled promises keeps the invariant.
LEMMA SettledIsGood ==
  ASSUME CommInv, Settle
  PROVE  CommInv'
<1> DEFINE flags == Flags(call.due, call.status)
           errors == Errors(call.due, call.status)
<1>1. /\ call.pc = "sending" /\ delivered' = delivered
      /\ \A i \in DOMAIN call.due : call.status[i] \in Settled
      /\ call'.pc = "result" /\ call'.sent = flags /\ call'.failed = errors
      /\ call'.owed = call.owed /\ call'.quiet = call.quiet /\ call'.read = call.read
      /\ call'.then = call.then
      /\ UNCHANGED <<stored, subscribed>>
  BY DEF Settle
<1>2. FulfilledArrived /\ OnlyTheOwed /\ OneEach(call.due, call.owed)
  BY <1>1 DEF CommInv
<1>3. \A c \in {"email", "sms"} : c \in flags => delivered[c] > 0
  BY <1>2 DEF Flags, With, FulfilledArrived
<1>4. ASSUME NEW c \in call.owed PROVE c \in flags \cup errors
  <2>1. PICK i \in DOMAIN call.due : call.due[i] = c
    BY <1>2 DEF OneEach
  <2>2. call.status[i] \in Settled /\ c \in ChannelSet
    BY <1>1, <1>2 DEF OnlyTheOwed
  <2>3. QED
    BY <2>1, <2>2 DEF Flags, Errors, With, Settled
<1>5. ASSUME NEW c \in flags \cup errors PROVE c \in call.owed
  BY <1>2 DEF Flags, Errors, With, OneEach
<1>6. ASSUME NEW c \in flags, c \in errors PROVE FALSE
  <2>1. PICK i \in DOMAIN call.due : call.due[i] = c /\ call.status[i] = "fulfilled"
    BY DEF Flags, With
  <2>2. PICK j \in DOMAIN call.due : call.due[j] = c /\ call.status[j] = "rejected"
    BY <1>6 DEF Errors, With
  <2>3. i = j
    BY <1>2, <2>1, <2>2 DEF OneEach
  <2>4. QED
    BY <2>1, <2>2, <2>3
<1> HIDE DEF flags, errors
<1>7. ResultGood'
  BY <1>1, <1>3, <1>4, <1>5, <1>6 DEF ResultGood
<1>8. OnlyTheOwed'
  BY <1>1, <1>2 DEF OnlyTheOwed
<1>9. /\ (stored \in Preferences \cup {NoPreferences})' /\ IsFiniteSet(subscribed)'
      /\ delivered' \in [ChannelSet -> Nat]
  BY <1>1 DEF CommInv
<1>10. QED
  BY <1>1, <1>7, <1>8, <1>9 DEF CommInv

\* Steps outside the call keep what is said of it.
LEMMA CallStays ==
  ASSUME CommInv, UNCHANGED <<call, delivered>>
  PROVE  /\ delivered' \in [ChannelSet -> Nat]
         /\ call' = AtRest \/ call'.pc \in {"sending", "result"}
         /\ call'.pc = "sending" =>
                DOMAIN call' = SendingFields /\ FulfilledArrived' /\ OneEach(call.due, call.owed)'
         /\ call'.pc = "result" => ResultGood'
         /\ call'.pc \in {"sending", "result"} => OnlyTheOwed'
BY DEF CommInv, FulfilledArrived, ResultGood, OnlyTheOwed

\* The invariant is inductive.
LEMMA CommKeeps ==
  ASSUME CommInv, [CommNext]_commVars
  PROVE  CommInv'
<1>1. ASSUME NEW read \in BOOLEAN, UpdateUserCommunicationPreferences(read)
      PROVE  CommInv'
  <2> DEFINE p == GetUserCommunicationPreferences(read)
  <2>1. p \in Preferences
    BY DEF Preferences, GetUserCommunicationPreferences, QuietHours, ChannelSet, CommInv
  <2>2. \/ \E on \in Switches : stored' = [p EXCEPT !.on = on]
        \/ \E quiet \in QuietHours : stored' = [p EXCEPT !.quiet = quiet]
    BY <1>1 DEF UpdateUserCommunicationPreferences
  <2> HIDE DEF p
  <2>3. stored' \in Preferences
    <3>1. ASSUME NEW on \in Switches, stored' = [p EXCEPT !.on = on] PROVE stored' \in Preferences
      <4>1. on \in SUBSET ChannelSet
        BY DEF Switches, ChannelSet
      <4>2. QED
        BY <2>1, <3>1, <4>1 DEF Preferences
    <3>2. ASSUME NEW quiet \in QuietHours, stored' = [p EXCEPT !.quiet = quiet]
          PROVE  stored' \in Preferences
      BY <2>1, <3>2 DEF Preferences
    <3>3. QED
      BY <2>2, <3>1, <3>2
  <2>4. UNCHANGED <<subscribed, call, delivered>>
    BY <1>1 DEF UpdateUserCommunicationPreferences
  <2>5. QED
    BY <2>3, <2>4, CallStays DEF CommInv
<1>2. ASSUME NEW e \in Endpoints, RegisterSubscription(e) \/ UnregisterSubscription(e)
      PROVE  CommInv'
  <2>1. IsFiniteSet(subscribed)
    BY DEF CommInv
  <2>2. IsFiniteSet(subscribed')
    BY <1>2, <2>1, FS_AddElement, FS_RemoveElement DEF RegisterSubscription, UnregisterSubscription
  <2>3. UNCHANGED <<stored, call, delivered>>
    BY <1>2 DEF RegisterSubscription, UnregisterSubscription
  <2>4. QED
    BY <2>2, <2>3, CallStays DEF CommInv
<1>3. ASSUME NEW now \in Hours, NEW read \in BOOLEAN, NEW asked \in SUBSET ChannelSet, NEW template,
             SendCommunication(asked, template, now, read)
      PROVE  CommInv'
  <2>1. {} \in SUBSET ChannelSet
    OBVIOUS
  <2>2. QED
    BY <1>3, <2>1, BegunIsGood DEF SendCommunication
<1>4. ASSUME NEW now \in Hours, NEW read \in BOOLEAN, NEW critical \in BOOLEAN,
             SendDeviceHealthAlert(critical, now, read)
      PROVE  CommInv'
  <2> DEFINE after == IF critical THEN {"sms"} ELSE {}
  <2>1. {"push", "email"} \in SUBSET ChannelSet /\ after \in SUBSET ChannelSet
    BY DEF ChannelSet
  <2>2. /\ call' = Begin({"push", "email"}, after, "device", now, read)
        /\ delivered' = NothingDelivered /\ UNCHANGED <<stored, subscribed>>
    BY <1>4 DEF SendDeviceHealthAlert
  <2> HIDE DEF after
  <2>3. QED
    BY <2>1, <2>2, BegunIsGood
<1>5. ASSUME NEW now \in Hours, NEW read \in BOOLEAN, Return(now, read)
      PROVE  CommInv'
  <2>1. CASE call.then # {}
    <3>1. {} \in SUBSET ChannelSet /\ call.then \in SUBSET ChannelSet
      BY <1>5 DEF Return, CommInv, OnlyTheOwed
    <3>2. QED
      BY <1>5, <2>1, <3>1, BegunIsGood DEF Return
  <2>2. CASE call.then = {}
    <3>1. call' = AtRest /\ delivered' = NothingDelivered /\ UNCHANGED <<stored, subscribed>>
      BY <1>5, <2>2 DEF Return
    <3>2. call'.pc = "rest" /\ delivered' \in [ChannelSet -> Nat]
      BY <3>1 DEF AtRest, NothingDelivered
    <3>3. QED
      BY <3>1, <3>2 DEF CommInv
  <2>3. QED
    BY <2>1, <2>2
<1>6. ASSUME NEW i, NEW read \in BOOLEAN, SendToUser(i, read)
      PROVE  CommInv'
  <2>1. Cardinality(subscribed) \in Nat
    BY FS_CardinalityType DEF CommInv
  <2>2. i \in Open("push") /\ "push" \in ChannelSet /\ 0 \in Nat
    BY <1>6 DEF SendToUser, ChannelSet
  <2>3. \/ Tried("push", i, "fulfilled", Cardinality(subscribed))
        \/ Tried("push", i, "rejected", 0)
    BY <1>6 DEF SendToUser
  <2>4. QED
    BY <2>1, <2>2, <2>3, TryOfACall
<1>7. ASSUME NEW i, NEW works \in BOOLEAN, NEW arrives \in BOOLEAN, SendTemplatedEmail(i, works, arrives)
      PROVE  CommInv'
  <2> DEFINE rest == IF call.tried.email = 1 \/ Len(setup.mail) < 2 THEN "rejected" ELSE "pending"
             outcome == IF works THEN "fulfilled" ELSE rest
             arrived == IF arrives THEN 1 ELSE 0
  <2>1. i \in Open("email") /\ Tried("email", i, outcome, arrived) /\ (works => arrives)
    BY <1>7 DEF SendTemplatedEmail
  <2>2. arrived \in Nat /\ (outcome = "fulfilled" => arrived > 0)
    BY <2>1
  <2> HIDE DEF outcome, arrived
  <2>3. QED
    BY <2>1, <2>2, TryOfACall DEF ChannelSet
<1>8. ASSUME NEW i, NEW works \in BOOLEAN, NEW arrives \in BOOLEAN, SendSMS(i, works, arrives)
      PROVE  CommInv'
  <2> DEFINE rest == IF call.tried.sms + 1 = Len(setup.sms) THEN "rejected" ELSE "pending"
             outcome == IF works THEN "fulfilled" ELSE rest
             arrived == IF arrives THEN 1 ELSE 0
  <2>1. i \in Open("sms") /\ Tried("sms", i, outcome, arrived) /\ (works => arrives)
    BY <1>8 DEF SendSMS
  <2>2. arrived \in Nat /\ (outcome = "fulfilled" => arrived > 0)
    BY <2>1
  <2> HIDE DEF outcome, arrived
  <2>3. QED
    BY <2>1, <2>2, TryOfACall DEF ChannelSet
<1>9. ASSUME NEW i, NEW c \in {"email", "sms"}, Unaddressed(c, i)
      PROVE  CommInv'
  BY <1>9, UnaddressedIsGood
<1>10. CASE UNCHANGED commVars
  <2>1. UNCHANGED <<stored, subscribed, call, delivered>>
    BY <1>10 DEF commVars
  <2>2. QED
    BY <2>1, CallStays DEF CommInv
<1>11. QED
  BY <1>1, <1>2, <1>3, <1>4, <1>5, <1>6, <1>7, <1>8, <1>9, <1>10, SettledIsGood DEF CommNext

\* The invariant holds at first.
LEMMA CommStarts ==
  ASSUME CommInit
  PROVE  CommInv
<1>1. IsFiniteSet(subscribed)
  BY FS_EmptySet DEF CommInit
<1>2. call = AtRest /\ call.pc = "rest"
  BY DEF CommInit, AtRest
<1>3. delivered \in [ChannelSet -> Nat]
  BY DEF CommInit, NothingDelivered
<1>4. QED
  BY <1>1, <1>2, <1>3 DEF CommInit, CommInv

\* Communication.HubReportsTruly for any day and any endpoints, whatever the providers and the database
\* do: mail and SMS reported sent were accepted by a provider in this call; exactly the channels owed
\* are reported, each once; and none is used within the quiet hours, unless the preferences could not
\* be read - and then no SMS is sent.
THEOREM HubReportsWhatHappened == CommSpec => []HubReportsTruly
<1>1. ASSUME CommInv PROVE HubReportsTruly
  <2>1. SUFFICES ASSUME call.pc = "result"
                 PROVE  /\ \A c \in {"email", "sms"} : c \in call.sent => delivered[c] > 0
                        /\ call.sent \cup call.failed = call.owed /\ call.sent \cap call.failed = {}
                        /\ \A c \in ChannelSet : delivered[c] > 0 => c \in call.owed
                        /\ call.quiet /\ call.read => delivered = NothingDelivered
                        /\ ~call.read => delivered["sms"] = 0
    BY DEF HubReportsTruly
  <2>2. ResultGood /\ OnlyTheOwed /\ delivered \in [ChannelSet -> Nat]
    BY <1>1, <2>1 DEF CommInv
  <2>3. ASSUME call.quiet, call.read PROVE delivered = NothingDelivered
    <3>1. \A c \in ChannelSet : delivered[c] = 0
      BY <2>2, <2>3 DEF OnlyTheOwed
    <3>2. QED
      BY <2>2, <3>1 DEF NothingDelivered
  <2>4. ASSUME ~call.read PROVE delivered["sms"] = 0
    BY <2>2, <2>4 DEF OnlyTheOwed, ChannelSet
  <2>5. QED
    BY <2>2, <2>3, <2>4 DEF ResultGood, OnlyTheOwed
<1>2. QED
  BY <1>1, CommStarts, CommKeeps, PTL DEF CommSpec

=============================================================================
