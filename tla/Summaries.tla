----------------------------- MODULE Summaries -----------------------------
(***************************************************************************)
(* The scheduler of the daily summaries (scheduler.go) and the messages on *)
(* the status of orders (notification_service.go), which are sent and      *)
(* logged by goroutines of their own.                                      *)
(*                                                                         *)
(* Time is counted in minutes, DayLength to a day.  The ticker gives one   *)
(* tick a minute and holds one that is not taken yet; after a restart the  *)
(* first one comes in the next minute.  A summary ends within the minute   *)
(* after the one it was begun in, by the 30 seconds it is given and the 10 *)
(* seconds that a call to Fonnte may take.                                 *)
(***************************************************************************)
EXTENDS Integers, FiniteSets

CONSTANTS
    Owners,       \* the tenants
    DayLength,    \* minutes of a day
    LastMinute,   \* bound on the clock
    MaxMishaps,   \* bound on failures and restarts
    MaxSettings,  \* bound on edits of the settings
    Orders        \* orders whose customer is told

ASSUME DayAssumption == DayLength \in Nat \ {0} /\ LastMinute \in Nat
ASSUME SummaryBoundsAssumption == MaxMishaps \in Nat /\ MaxSettings \in Nat

VARIABLES
    clock,       \* the current minute
    armed,       \* the tick of this minute is still to come
    ticked,      \* the tick in the channel, or NoMinute
    settings,    \* settings[t]: tenant_notification_settings
    sending,     \* the goroutines that send a summary
    sent,        \* the summaries that Fonnte has taken
    disturbed,   \* <<t, d>>: something went wrong or changed for t on day d
    notice,      \* notice[o]: the message to the customer of o
    mishaps, edited

summaryVars == <<clock, armed, ticked, settings, sending, sent, disturbed, notice, mishaps, edited>>

NoMinute == -1
Minutes == 0 .. LastMinute
Times == 0 .. DayLength - 1     \* "HH:MM"
Days == 0 .. LastMinute \div DayLength
Day(m) == m \div DayLength
TimeOf(m) == m % DayLength

\* "last" is daily_summary_last_sent_at; "notify" whether WhatsApp is enabled,
\* with a token, and the status of the order is one to tell.
Settings == [enabled: BOOLEAN, time: Times, notify: BOOLEAN, last: Minutes \cup {NoMinute}]

\* A summary is known by its tenant and the tick that began it; "begun" is when.
Sendings == [owner: Owners, tick: Minutes, begun: Minutes, at: {"stats", "send", "mark"}]
Deliveries == [owner: Owners, tick: Minutes, begun: Minutes, marked: Minutes \cup {NoMinute}]

Notices == [at: {"none", "sending", "logging", "logged"}, taken: BOOLEAN,
            status: {"-", "sent", "failed"}]
NoNotice == [at |-> "none", taken |-> FALSE, status |-> "-"]

SummariesTypeOK ==
    /\ clock \in Minutes /\ armed \in BOOLEAN /\ ticked \in Minutes \cup {NoMinute}
    /\ settings \in [Owners -> Settings]
    /\ sending \subseteq Sendings
    /\ \A x, y \in sending : x.owner = y.owner /\ x.tick = y.tick => x = y
    /\ sent \subseteq Deliveries
    /\ disturbed \subseteq Owners \X Days
    /\ notice \in [Orders -> Notices]
    /\ mishaps \in 0 .. MaxMishaps /\ edited \in 0 .. MaxSettings

SummariesInit ==
    /\ clock = 0 /\ armed = TRUE /\ ticked = NoMinute
    /\ settings \in [Owners -> [enabled: {TRUE}, time: Times, notify: {TRUE}, last: {NoMinute}]]
    /\ sending = {} /\ sent = {} /\ disturbed = {}
    /\ notice = [o \in Orders |-> NoNotice]
    /\ mishaps = 0 /\ edited = 0

Disturb(owners) == disturbed' = disturbed \cup (owners \X {Day(clock)})
Mishap == mishaps < MaxMishaps /\ mishaps' = mishaps + 1

-----------------------------------------------------------------------------
(***************************************************************************)
(* The clock, the ticker and restarts.                                     *)
(***************************************************************************)
Minute ==
    /\ clock < LastMinute
    /\ ~armed
    /\ \A x \in sending : x.begun = clock
    /\ clock' = clock + 1
    /\ armed' = TRUE
    /\ UNCHANGED <<ticked, settings, sending, sent, disturbed, notice, mishaps, edited>>

\* A tick that finds the channel full is dropped.
Tick ==
    /\ armed
    /\ armed' = FALSE
    /\ IF ticked = NoMinute
       THEN ticked' = clock /\ UNCHANGED disturbed
       ELSE UNCHANGED ticked /\ Disturb(Owners)
    /\ UNCHANGED <<clock, settings, sending, sent, notice, mishaps, edited>>

\* What was going on is lost, with it the tick of this minute.
RestartServer ==
    /\ Mishap
    /\ armed' = FALSE /\ ticked' = NoMinute
    /\ sending' = {}
    /\ notice' = [o \in Orders |->
                     IF notice[o].at \in {"sending", "logging"} THEN [notice[o] EXCEPT !.at = "none"]
                     ELSE notice[o]]
    /\ Disturb(Owners)
    /\ UNCHANGED <<clock, settings, sent, edited>>

-----------------------------------------------------------------------------
(***************************************************************************)
(* The daily summaries.                                                    *)
(***************************************************************************)
\* Mutant of SentToday: a summary that is sent is not remembered.
SentTodayForgotten(t, now) == FALSE

SentToday(t, now) == settings[t].last # NoMinute /\ Day(settings[t].last) = Day(now)

\* Mutant of Due: two days have to lie between two summaries.
DueEveryOther(t, now) ==
    /\ settings[t].enabled
    /\ settings[t].last = NoMinute \/ Day(now) > Day(settings[t].last) + 1
    /\ TimeOf(now) = settings[t].time

Due(t, now) ==
    /\ settings[t].enabled
    /\ ~SentToday(t, now)
    /\ TimeOf(now) = settings[t].time

\* checkAndSendSummaries: "now" is the time of the tick, the settings are those
\* of when the tick is taken from the channel.
CheckAndSendSummaries ==
    /\ ticked # NoMinute
    /\ ticked' = NoMinute
    /\ sending' = sending \cup
          {[owner |-> t, tick |-> ticked, begun |-> clock, at |-> "stats"] :
              t \in {o \in Owners : Due(o, ticked)}}
    /\ disturbed' = IF Day(ticked) = Day(clock) THEN disturbed
                    ELSE disturbed \cup (Owners \X {Day(ticked), Day(clock)})
    /\ UNCHANGED <<clock, armed, settings, sent, notice, mishaps, edited>>

\* The settings cannot be read: this minute's summaries are not sent.
SettingsUnread ==
    /\ ticked # NoMinute
    /\ Mishap
    /\ ticked' = NoMinute
    /\ disturbed' = disturbed \cup (Owners \X {Day(ticked)})
    /\ UNCHANGED <<clock, armed, settings, sending, sent, notice, edited>>

Move(x, at) == sending' = (sending \ {x}) \cup {[x EXCEPT !.at = at]}
Drop(x) == sending' = sending \ {x}
Delivered(x, marked) ==
    [owner |-> x.owner, tick |-> x.tick, begun |-> x.begun, marked |-> marked]

QueryStats(x) ==
    /\ x.at = "stats"
    /\ Move(x, "send")
    /\ UNCHANGED <<clock, armed, ticked, settings, sent, disturbed, notice, mishaps, edited>>

SendSummary(x) ==
    /\ x.at = "send"
    /\ sent' = sent \cup {Delivered(x, NoMinute)}
    /\ Move(x, "mark")
    /\ UNCHANGED <<clock, armed, ticked, settings, disturbed, notice, mishaps, edited>>

\* An error, which may hide that the message was taken, or a failing query:
\* nothing is marked, and there is no other try on this day.
SummaryFails(x) ==
    /\ Mishap
    /\ sent' \in IF x.at = "send" THEN {sent, sent \cup {Delivered(x, NoMinute)}} ELSE {sent}
    /\ Drop(x)
    /\ disturbed' = disturbed \cup {<<x.owner, Day(x.tick)>>}
    /\ UNCHANGED <<clock, armed, ticked, settings, notice, edited>>

\* Mutant of MarkSent: the mark is written in a zone where it is still the day before.
MarkSentDayBefore(x) ==
    /\ x.at = "mark"
    /\ settings' = [settings EXCEPT ![x.owner].last = clock - DayLength]
    /\ sent' = (sent \ {Delivered(x, NoMinute)}) \cup {Delivered(x, clock)}
    /\ Drop(x)
    /\ UNCHANGED <<clock, armed, ticked, disturbed, notice, mishaps, edited>>

\* daily_summary_last_sent_at = NOW().
MarkSent(x) ==
    /\ x.at = "mark"
    /\ settings' = [settings EXCEPT ![x.owner].last = clock]
    /\ sent' = (sent \ {Delivered(x, NoMinute)}) \cup {Delivered(x, clock)}
    /\ Drop(x)
    /\ UNCHANGED <<clock, armed, ticked, disturbed, notice, mishaps, edited>>

\* All columns but the mark; without a time it is a fixed one.
UpsertSettings(t, enabled, time, notify) ==
    /\ edited < MaxSettings
    /\ edited' = edited + 1
    /\ settings' = [settings EXCEPT ![t].enabled = enabled, ![t].time = time, ![t].notify = notify]
    /\ Disturb({t})
    /\ UNCHANGED <<clock, armed, ticked, sending, sent, notice, mishaps>>

-----------------------------------------------------------------------------
(***************************************************************************)
(* The messages on an order.  An order has one status at a time that its   *)
(* customer may be told of, and may come to another afterwards.            *)
(***************************************************************************)
NotifyOrderStatus(o, t) ==
    /\ notice[o].at = "none"
    /\ settings[t].notify
    /\ notice' = [notice EXCEPT ![o] = [NoNotice EXCEPT !.at = "sending"]]
    /\ UNCHANGED <<clock, armed, ticked, settings, sending, sent, disturbed, mishaps, edited>>

\* Mutant of SendNotice: the log says "sent" before the answer is looked at.
SendNoticeBlindly(o) ==
    /\ notice[o].at = "sending"
    /\ notice' = [notice EXCEPT ![o] = [at |-> "logging", taken |-> FALSE, status |-> "sent"]]
    /\ UNCHANGED <<clock, armed, ticked, settings, sending, sent, disturbed, mishaps, edited>>

\* Fonnte takes the message: any status below 400, and nothing looks at what the
\* body of the answer says of it.
SendNotice(o) ==
    /\ notice[o].at = "sending"
    /\ notice' = [notice EXCEPT ![o] = [at |-> "logging", taken |-> TRUE, status |-> "sent"]]
    /\ UNCHANGED <<clock, armed, ticked, settings, sending, sent, disturbed, mishaps, edited>>

NoticeFails(o) ==
    /\ Mishap
    /\ notice[o].at = "sending"
    /\ \E taken \in BOOLEAN :
          notice' = [notice EXCEPT ![o] = [at |-> "logging", taken |-> taken,
                                           status |-> "failed"]]
    /\ UNCHANGED <<clock, armed, ticked, settings, sending, sent, disturbed, edited>>

LogNotice(o) ==
    /\ notice[o].at = "logging"
    /\ notice' = [notice EXCEPT ![o].at = "logged"]
    /\ UNCHANGED <<clock, armed, ticked, settings, sending, sent, disturbed, mishaps, edited>>

-----------------------------------------------------------------------------
DailyNext ==
    \/ Minute \/ Tick \/ RestartServer
    \/ CheckAndSendSummaries \/ SettingsUnread
    \/ \E x \in sending : QueryStats(x) \/ SendSummary(x) \/ SummaryFails(x) \/ MarkSent(x)
    \/ \E t \in Owners, enabled, notify \in BOOLEAN, time \in Times :
          UpsertSettings(t, enabled, time, notify)

NoticesNext ==
    \/ RestartServer
    \/ \E o \in Orders : \/ \E t \in Owners : NotifyOrderStatus(o, t)
                        \/ SendNotice(o) \/ NoticeFails(o) \/ LogNotice(o)

SummariesNext == DailyNext \/ NoticesNext

SummariesSpec == SummariesInit /\ [][SummariesNext]_summaryVars

-----------------------------------------------------------------------------
(***************************************************************************)
(* Properties.                                                             *)
(***************************************************************************)
\* A second summary for a day only goes out when the first had not been marked
\* on that day by the time the second was begun: its answer was lost, its mark
\* failed, the server had stopped, or the owner had changed the time meanwhile.
\* Begun after midnight it may also find the mark of a third one in its place
\* (scheduler.go:54-61, notification_service.go:188-197).
SecondOnlyUnmarked ==
    \A x, y \in sent :
        /\ x.owner = y.owner /\ x.tick < y.tick /\ Day(x.tick) = Day(y.tick)
        /\ x.marked # NoMinute /\ Day(x.marked) = Day(y.tick) /\ x.marked < y.begun
        => \E z \in sent : z.owner = y.owner /\ Day(z.marked) > Day(y.tick) /\ z.marked <= y.begun

\* On a day on which nothing failed, was late, or was changed, the owner gets
\* the summary, unless that of the day before was only marked after midnight,
\* which passes for this day's (scheduler.go:54-69).
SummaryUnlessDisturbed ==
    \A t \in Owners, d \in Days :
        /\ Day(clock - 1) > d
        /\ settings[t].enabled
        /\ \A e \in d .. Day(clock) : <<t, e>> \notin disturbed
        => \E x \in sent : x.owner = t /\ (Day(x.tick) = d \/ Day(x.marked) = d)

\* A message that is logged as sent was taken by Fonnte, whatever its goroutine
\* went through; one logged as failed may have been, too.  That it reached the
\* customer is not so: the body of the answer, which may refuse it, is not read
\* (notification_service.go:275-298, :319).
LoggedSentWasTaken ==
    \A o \in Orders : notice[o].at = "logged" /\ notice[o].status = "sent" => notice[o].taken

\* What is remembered of messages is true, and kept to: the mark of a summary
\* that went out, and the log of a message (notification_service.go:188-298).
MessagesRemembered == SecondOnlyUnmarked /\ LoggedSentWasTaken
=============================================================================
