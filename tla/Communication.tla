---------------------------- MODULE Communication -----------------------------
(***************************************************************************)
(* The communication hub and the mail, push and SMS services behind it: one *)
(* user, one call of the hub at a time, whose channels are sent together.   *)
(* A provider may refuse a message, or accept it and fail to answer.       *)
(* Times are hours of a day of Day hours; that of a call is any.           *)
(***************************************************************************)
EXTENDS Integers, Sequences, FiniteSets

CONSTANTS Day,         \* hours of a day
          Endpoints    \* push endpoints the user may register

ASSUME CommunicationAssumption == Day \in Nat \ {0}

VARIABLES setup,       \* rigid: the providers configured
          stored,      \* the user's notificationPreferences, or None
          subscribed,  \* the user's push subscriptions
          call,        \* the hub's call
          delivered    \* history: messages of this call accepted, per channel

commVars == <<setup, stored, subscribed, call, delivered>>

ChannelSet == {"email", "push", "sms"}
NoPreferences == [stored |-> FALSE]
AtRest == [pc |-> "rest"]
NothingDelivered == [c \in ChannelSet |-> 0]

\* EmailService keeps Resend, SendGrid and SMTP in this order, as far as they are configured.
MailProviders == {<<>>, <<"SMTP">>, <<"RESEND", "SMTP">>, <<"RESEND", "SENDGRID", "SMTP">>}
\* SMS_PROVIDER_PRIORITY, whose default names a provider sendWithProvider does not know.
SmsPriorities == {<<"twilio", "nexmo">>, <<"twilio", "vonage">>}
SmsClients == {{}, {"vonage"}, {"twilio", "vonage"}}

CommInit ==
    /\ setup \in [mail : MailProviders, sms : SmsPriorities, clients : SmsClients]
    /\ stored = NoPreferences
    /\ subscribed = {}
    /\ call = AtRest
    /\ delivered = NothingDelivered

(***************************************************************************)
(* Preferences and subscriptions.                                          *)
(***************************************************************************)
Hours == 0..(Day - 1)
Switches == {{"push", "sms"}, ChannelSet}
QuietHours == {<<>>, <<0, 1>>, <<Day - 1, 0>>, <<1, 1>>}   \* off, by day, over midnight, all day

\* SMS is off by default, and so are quiet hours.  A read that fails is answered with the defaults too.
GetUserCommunicationPreferences(read) ==
    IF read /\ stored # NoPreferences THEN stored
    ELSE [stored |-> TRUE, on |-> {"email", "push"}, quiet |-> <<>>]

\* A part is changed and the whole is written, with the defaults for the rest when it could not be read.
UpdateUserCommunicationPreferences(read) ==
    /\ \/ \E on \in Switches : stored' = [GetUserCommunicationPreferences(read) EXCEPT !.on = on]
       \/ \E quiet \in QuietHours : stored' = [GetUserCommunicationPreferences(read) EXCEPT !.quiet = quiet]
    /\ UNCHANGED <<setup, subscribed, call, delivered>>

RegisterSubscription(endpoint) ==
    /\ subscribed' = subscribed \cup {endpoint}
    /\ UNCHANGED <<setup, stored, call, delivered>>

UnregisterSubscription(endpoint) ==
    /\ subscribed' = subscribed \ {endpoint}
    /\ UNCHANGED <<setup, stored, call, delivered>>

\* Both ends belong to the quiet hours, and a range that ends where it starts is the whole day.
IsWithinQuietHours(quiet, now) ==
    /\ quiet # <<>>
    /\ IF quiet[1] < quiet[2] THEN now >= quiet[1] /\ now <= quiet[2]
       ELSE now >= quiet[1] \/ now <= quiet[2]

\* now lies between the two hours on the clock's face, both included (the call's note for HubReportsTruly).
OnTheFace(quiet, now) == quiet # <<>> /\ (now - quiet[1]) % Day <= (quiet[2] - quiet[1]) % Day

(***************************************************************************)
(* The hub.                                                                *)
(***************************************************************************)
\* One promise for each channel that is asked for and switched on, in this order.
Promises(asked, on) ==
    LET promise(c) == IF c \in asked /\ c \in on THEN <<c>> ELSE <<>>
    IN  promise("email") \o promise("push") \o promise("sms")

Settled == {"fulfilled", "rejected"}

\* quiet, read and owed are the call's notes for HubReportsTruly.
Begin(asked, then, template, now, read) ==
    LET p == GetUserCommunicationPreferences(read)
        silent == IsWithinQuietHours(p.quiet, now)
        due == IF silent THEN <<>> ELSE Promises(asked, p.on)
    IN  [pc |-> "sending", due |-> due, status |-> [i \in DOMAIN due |-> "pending"],
         tried |-> [email |-> 0, sms |-> 0], template |-> template, then |-> then,
         quiet |-> OnTheFace(GetUserCommunicationPreferences(TRUE).quiet, now),
         read |-> read, owed |-> IF silent THEN {} ELSE asked \cap p.on]

SendCommunication(asked, template, now, read) ==
    /\ call = AtRest
    /\ call' = Begin(asked, {}, template, now, read)
    /\ delivered' = NothingDelivered
    /\ UNCHANGED <<setup, stored, subscribed>>

\* Push and mail first, and then a text when it is critical.
SendDeviceHealthAlert(critical, now, read) ==
    /\ call = AtRest
    /\ call' = Begin({"push", "email"}, IF critical THEN {"sms"} ELSE {}, "device", now, read)
    /\ delivered' = NothingDelivered
    /\ UNCHANGED <<setup, stored, subscribed>>

\* The promise of channel c, if the call has one that is not settled.
Open(c) == {i \in IF call.pc = "sending" THEN DOMAIN call.due ELSE {} :
                call.due[i] = c /\ call.status[i] \notin Settled}

\* Channel c was tried: with outcome "pending" the next provider is due.
Tried(c, i, outcome, arrived) ==
    /\ call' = [call EXCEPT !.status[i] = outcome,
                            !.tried = IF c = "push" THEN @ ELSE [@ EXCEPT ![c] = @ + 1]]
    /\ delivered' = [delivered EXCEPT ![c] = @ + arrived]
    /\ UNCHANGED <<setup, stored, subscribed>>

\* The user's row cannot be read, or has no phone number: there is no try.
Unaddressed(c, i) ==
    /\ i \in Open(c) /\ call.tried[c] = 0
    /\ call' = [call EXCEPT !.status[i] = "rejected"]
    /\ UNCHANGED <<setup, stored, subscribed, delivered>>

\* The first provider, and once more the one behind it; there is no third try, and Resend is none of
\* those that can stand in.  Without a template file ("default" has none) nothing can be sent.
SendTemplatedEmail(i, works, arrives) ==
    LET k == call.tried.email
        last == k = 1 \/ Len(setup.mail) < 2
        possible == call.template # "default" /\ setup.mail # <<>>
    IN  /\ i \in Open("email")
        /\ works \/ arrives => possible
        /\ works => arrives
        /\ Tried("email", i, IF works THEN "fulfilled" ELSE IF last THEN "rejected" ELSE "pending",
                 IF arrives THEN 1 ELSE 0)

\* sendToUser reports a user without subscriptions in its result, which the hub does not read;
\* sendToSubscription is a stub that always succeeds.  Subscriptions that cannot be read are an error.
SendToUser(i, read) ==
    /\ i \in Open("push")
    /\ \/ read /\ Tried("push", i, "fulfilled", Cardinality(subscribed))
       \/ ~read /\ Tried("push", i, "rejected", 0)

\* Every provider of the list in turn until one succeeds.
SendSMS(i, works, arrives) ==
    LET k == call.tried.sms + 1
        last == k = Len(setup.sms)
        possible == setup.sms[k] \in setup.clients
    IN  /\ i \in Open("sms")
        /\ works \/ arrives => possible
        /\ works => arrives
        /\ Tried("sms", i, IF works THEN "fulfilled" ELSE IF last THEN "rejected" ELSE "pending",
                 IF arrives THEN 1 ELSE 0)

\* The channels whose promise is settled so.
With(outcome, due, status) == {c \in ChannelSet : \E i \in DOMAIN due : due[i] = c /\ status[i] = outcome}

Flags_IndexStays(due, status) == {c \in ChannelSet : \E i \in DOMAIN due : due[i] = c /\ status[1] = "fulfilled"}

\* The result's flags, read off the settled promises by their position; and its errors.
Flags(due, status) == With("fulfilled", due, status)
Errors(due, status) == With("rejected", due, status)

Settle ==
    /\ call.pc = "sending" /\ \A i \in DOMAIN call.due : call.status[i] \in Settled
    /\ call' = [pc |-> "result", sent |-> Flags(call.due, call.status),
                failed |-> Errors(call.due, call.status), then |-> call.then,
                quiet |-> call.quiet, read |-> call.read, owed |-> call.owed]
    /\ UNCHANGED <<setup, stored, subscribed, delivered>>

Return(now, read) ==
    /\ call.pc = "result"
    /\ call' = IF call.then = {} THEN AtRest ELSE Begin(call.then, {}, "device", now, read)
    /\ delivered' = NothingDelivered
    /\ UNCHANGED <<setup, stored, subscribed>>

CommNext ==
    \/ \E read \in BOOLEAN : UpdateUserCommunicationPreferences(read)
    \/ \E e \in Endpoints : RegisterSubscription(e) \/ UnregisterSubscription(e)
    \/ \E now \in Hours, read \in BOOLEAN :
           \/ \E asked \in SUBSET ChannelSet, template \in {"default", "device"} :
                  SendCommunication(asked, template, now, read)
           \/ \E critical \in BOOLEAN : SendDeviceHealthAlert(critical, now, read)
           \/ Return(now, read)
    \/ \E i \in 1..3 :
           \/ \E read \in BOOLEAN : SendToUser(i, read)
           \/ \E c \in {"email", "sms"} : Unaddressed(c, i)
           \/ \E works, arrives \in BOOLEAN : SendTemplatedEmail(i, works, arrives) \/ SendSMS(i, works, arrives)
    \/ Settle

CommSpec == CommInit /\ [][CommNext]_commVars

(***************************************************************************)
(* Properties.                                                             *)
(***************************************************************************)
\* What the hub reports is what happened: mail and SMS are reported sent only when
\* a provider accepted them in this call, however the providers were tried; exactly the
\* channels the user is owed are reported, each as sent or as failed and none as both,
\* and nothing goes out on another.  A user whose quiet hours, also over midnight,
\* contain the time of the call is sent nothing - when the preferences could be read:
\* a failed read is answered with the defaults, which know no quiet hours, but never
\* costs an SMS.
HubReportsTruly ==
    call.pc = "result" =>
        /\ \A c \in {"email", "sms"} : c \in call.sent => delivered[c] > 0
        /\ call.sent \cup call.failed = call.owed /\ call.sent \cap call.failed = {}
        /\ \A c \in ChannelSet : delivered[c] > 0 => c \in call.owed
        /\ call.quiet /\ call.read => delivered = NothingDelivered
        /\ ~call.read => delivered["sms"] = 0

==============================================================================
