---------------------------- MODULE QualityEvents ----------------------------
(***************************************************************************)
(* Optional quality insights: the reporter of the extension                *)
(* (src/feedback/qualityReporter.ts), the endpoint that records an event   *)
(* (http/handlers/quality.go over account/quality_repository.go), the      *)
(* retention at start-up and the administrator's report, whose four parts  *)
(* are queries of their own.                                               *)
(*                                                                         *)
(* Events travel on their own: they may be delivered in any order, lost,   *)
(* or given up after 1.5 seconds although the server has recorded them.    *)
(* A day has Day moments: the windows of a report are counted in days but  *)
(* move with the clock.                                                    *)
(***************************************************************************)
EXTENDS Integers, FiniteSets

CONSTANTS
    Completions,
    Bucket,         \* the hash of each completion's identifier, modulo 100
    Percents,       \* the sampling percentages a server may be started with
    Recordings,     \* whether a server is started with the endpoint
    Retention,      \* QUALITY_EVENTS_RETENTION_DAYS
    Days,           \* the windows asked for in a report
    Day,            \* moments in a day
    MaxNow,         \* bound: moments that pass
    MaxEvents,      \* bound: events sent
    None

BucketAssumption == Bucket \in [Completions -> 0..99]
ServerAssumption == Percents \subseteq 0..100 /\ Recordings \subseteq BOOLEAN
TimeAssumption == Retention \in 1..365 /\ Days \subseteq Nat /\ Day \in Nat \ {0}
NoneAssumption == None \notin Completions

VARIABLES
    insights,   \* the setting, and the endpoint not known to be missing
    shown,      \* completions the editor has shown
    context,    \* those whose accept command carries a quality context
    lastShown,  \* the completion a vote would be about
    wire,       \* events under way
    serial,     \* events sent so far
    server,     \* the running server: endpoint, percentage
    table,      \* quality_events
    now,
    report,     \* the administrator's report: step, window, when each part was asked
                \* and the rows it counted
    lost        \* history: events have been lost or deleted, or the sampling has changed

vars == <<insights, shown, context, lastShown, wire, serial, server, table, now, report, lost>>

Outcomes == {"shown", "accepted"}
Votes == {"helpful", "not-helpful"}

Parts == {"summary", "dimensions", "trend", "feedback"}

NoReport ==
    [at |-> "none", window |-> 0, asked |-> [p \in Parts |-> 0], rows |-> [p \in Parts |-> {}]]

Init ==
    /\ insights = [on |-> FALSE, available |-> TRUE]
    /\ shown = {} /\ context = {} /\ lastShown = None
    /\ wire = {} /\ serial = 0
    /\ server \in [recording : Recordings, percent : Percents]
    /\ table = {} /\ now = 0
    /\ report = NoReport /\ lost = FALSE

-----------------------------------------------------------------------------
(* The reporter *)

Enabled == insights.on /\ insights.available

\* The user changes the setting.
Configure(on) ==
    /\ insights' = [insights EXCEPT !.on = on]
    /\ UNCHANGED <<shown, context, lastShown, wire, serial, server, table, now, report, lost>>

Send(c, type) ==
    /\ serial < MaxEvents
    /\ serial' = serial + 1
    /\ wire' = wire \cup {[id |-> serial, completion |-> c, type |-> type]}

Offers == Enabled

\* A completion is shown; with insights on, it gets an identity and an event.
Shown(c) ==
    /\ c \notin shown
    /\ shown' = shown \cup {c}
    /\ IF Offers THEN context' = context \cup {c} /\ lastShown' = c /\ Send(c, "shown")
       ELSE UNCHANGED <<context, lastShown, wire, serial>>
    /\ UNCHANGED <<insights, server, table, now, report, lost>>

\* An acceptance is reported if its completion was, and the insights are still on.
Reports(c) == c \in context /\ Enabled

\* The accept command, which the editor may run more than once.
Accepted(c) ==
    /\ c \in shown /\ Reports(c)
    /\ Send(c, "accepted")
    /\ UNCHANGED <<insights, shown, context, lastShown, server, table, now, report, lost>>

\* A vote is about the completion shown last, once.
Feedback(vote) ==
    /\ lastShown # None /\ Enabled
    /\ Send(lastShown, vote)
    /\ lastShown' = None
    /\ UNCHANGED <<insights, shown, context, server, table, now, report, lost>>

-----------------------------------------------------------------------------
(* POST /v1/quality/events *)

\* mutant: every event is sampled on its own
Sampled_Event(e) == (Bucket[e.completion] + 50 * e.id) % 100 < server.percent

\* The hash of the completion's identifier decides.
Sampled(e) ==
    CASE server.percent >= 100 -> TRUE
      [] server.percent = 0 -> FALSE
      [] OTHER -> Bucket[e.completion] < server.percent

\* UNIQUE (completion_id, event_type), and one vote per completion.
Conflicts(e) ==
    \E row \in table :
        /\ row.completion = e.completion
        /\ row.type = e.type \/ {row.type, e.type} \subseteq Votes

RecordQualityEvent(e) ==
    table' = IF Conflicts(e) THEN table
             ELSE table \cup {[id |-> e.id, completion |-> e.completion, type |-> e.type, created |-> now]}

\* The event arrives.  A server without the endpoint answers 404, and the reporter
\* sends no more.
Record(e) ==
    /\ e \in wire
    /\ wire' = wire \ {e}
    /\ IF server.recording
       THEN /\ IF Sampled(e) THEN RecordQualityEvent(e) ELSE UNCHANGED table
            /\ UNCHANGED <<insights, lost>>
       ELSE insights' = [insights EXCEPT !.available = FALSE] /\ lost' = TRUE /\ UNCHANGED table
    /\ UNCHANGED <<shown, context, lastShown, serial, server, now, report>>

\* The event is lost, refused by the rate limit, or given up before it arrives.
Lose(e) ==
    /\ e \in wire
    /\ wire' = wire \ {e} /\ lost' = TRUE
    /\ UNCHANGED <<insights, shown, context, lastShown, serial, server, table, now, report>>

-----------------------------------------------------------------------------
(* The server's life, and time *)

DeleteQualityEventsBefore(before) == {row \in table : row.created >= before}

\* A server with the endpoint starts by deleting what is older than the retention.
StartUp(recording, percent) ==
    /\ server' = [recording |-> recording, percent |-> percent]
    /\ table' = IF recording THEN DeleteQualityEventsBefore(now - Retention * Day) ELSE table
    /\ lost' = (lost \/ percent # server.percent \/ table' # table)
    /\ report' = NoReport
    /\ UNCHANGED <<insights, shown, context, lastShown, wire, serial, now>>

Later ==
    /\ now < MaxNow
    /\ now' = now + 1
    /\ UNCHANGED <<insights, shown, context, lastShown, wire, serial, server, table, report, lost>>

-----------------------------------------------------------------------------
(* GET /v1/admin/quality *)

\* Windows outside 1..90 days are a week.
Window(days) == IF days \in 1..90 THEN days ELSE 7

\* The rows a part of the report counts.
Counts(part) == IF part = "feedback" THEN {"not-helpful"} ELSE Outcomes \cup Votes

\* created_at >= now() - days
Recent(row, window, moment) == row.created + window * Day >= moment

\* mutant: the later parts look at one day less
Inside_Day(part, row) ==
    Recent(row, IF part = "summary" THEN report.window ELSE report.window - 1, now)

\* The same condition in every part, but each query has a now() of its own.
Inside(part, row) == Recent(row, report.window, now)

After == [summary |-> "dimensions", dimensions |-> "trend", trend |-> "feedback", feedback |-> "done"]

AdminQuality(days) ==
    /\ report.at \in {"none", "done"}
    /\ report' = [NoReport EXCEPT !.at = "summary", !.window = Window(days)]
    /\ UNCHANGED <<insights, shown, context, lastShown, wire, serial, server, table, now, lost>>

QueryPart(part) ==
    /\ report.at = part
    /\ report' = [report EXCEPT
         !.at = After[part],
         !.asked[part] = now,
         !.rows[part] = {row \in table : row.type \in Counts(part) /\ Inside(part, row)}]
    /\ UNCHANGED <<insights, shown, context, lastShown, wire, serial, server, table, now, lost>>

\* A query fails: there is no report.
QueryFails ==
    /\ report.at \in Parts
    /\ report' = NoReport
    /\ UNCHANGED <<insights, shown, context, lastShown, wire, serial, server, table, now, lost>>

-----------------------------------------------------------------------------

Next ==
    \/ \E on \in BOOLEAN : Configure(on)
    \/ \E c \in Completions : Shown(c) \/ Accepted(c)
    \/ \E vote \in Votes : Feedback(vote)
    \/ \E e \in wire : Record(e) \/ Lose(e)
    \/ \E recording \in Recordings, percent \in Percents : StartUp(recording, percent)
    \/ Later
    \/ \E days \in Days : AdminQuality(days)
    \/ \E part \in Parts : QueryPart(part)
    \/ QueryFails

Spec == Init /\ [][Next]_vars

-----------------------------------------------------------------------------
(* Properties *)

RowsOf(type) == {row.completion : row \in {r \in table : r.type = type}}

\* Unless something was lost, when nothing is under way, every recorded acceptance or vote
\* has its "shown" event: order of arrival and sampling never part the two.
PairsArrive ==
    ~lost /\ wire = {} => RowsOf("accepted") \cup RowsOf("helpful") \cup RowsOf("not-helpful") \subseteq RowsOf("shown")

\* What one part counted and the window still holds when the next is asked, the next
\* counts if it is of its kind; and the next counts more only of what came meanwhile.
FollowsOn(part, next) ==
    /\ \A row \in report.rows[part] :
           row.type \in Counts(next) /\ Recent(row, report.window, report.asked[next])
           => row \in report.rows[next]
    /\ \A row \in report.rows[next] \ report.rows[part] : row.created >= report.asked[part]

\* The parts of a report fit together, although events arrive between its queries, the
\* window moves with every one of them, and rows leave it at any moment.
ReportAddsUp ==
    report.at = "done" =>
        /\ FollowsOn("summary", "dimensions")
        /\ FollowsOn("dimensions", "trend")
        /\ FollowsOn("trend", "feedback")
=============================================================================
