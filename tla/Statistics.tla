------------------------------- MODULE Statistics ------------------------------
(***************************************************************************)
(* Statistics (src/stats, utils/visitor-tracking.ts, user-activity.ts).    *)
(* Every instance of the server keeps, once a day at midnight in Korea and *)
(* when it starts, the counters of all prompts; how popular a prompt is    *)
(* now is the difference to what was kept Period days ago.  Views and      *)
(* downloads are added up and go by one counter here.  Time passes in days *)
(* for snapshots, uploads and visits, in ticks for the activity of users.  *)
(***************************************************************************)
EXTENDS Naturals, FiniteSets, Functions, Requests

CONSTANTS
  Items,      \* prompts
  Instances,  \* instances of the server
  Visitors,   \* signed-in users and addresses
  Period,     \* popular prompts: 7 days
  Retention,  \* snapshots are kept for 90 days
  Window,     \* 30 days of visitors or activity
  Buckets,    \* new prompts: 7 days
  Throttle,   \* ticks between two updates of last_active_at: 300 seconds
  FinalDay, FinalTick, MaxHits  \* bounds on time and on the counters

ASSUME StatisticsAssumption ==
  /\ {Period, Retention, Window, Buckets, Throttle, FinalDay, FinalTick, MaxHits} \subseteq Nat
  /\ 0 < Period /\ Period < Retention /\ 0 < Buckets /\ 0 < Window /\ 0 < Throttle

VARIABLES
  date,       \* the date in Korea
  hits,       \* Prompt.views and downloads
  born,       \* created_at; FinalDay + 1 before
  snaps,      \* PromptStatDaily rows
  up,         \* running instances
  job,        \* runs of the job: one from the start of an instance, one from its cron;
              \* "due", the day it is or is to be for, is for the properties only
  visits,     \* the HyperLogLog of each date, as if it were exact
  clock,      \* ticks
  lastActive, \* User.last_active_at
  mutedTill,  \* expiry of the key user_active
  updating,   \* users whose last_active_at is about to be written
  \* for the properties only
  dawn,       \* hits when each day began
  begun,      \* dates whose midnight a running instance saw
  covered,    \* dates for which a run has inserted snapshots
  spoilt,     \* dates of which a run failed, was cut off or came too late
  lastSeen,   \* the last request of each user
  unwritten   \* users of whom the last update failed

snapVars  == <<date, hits, born, snaps, up, job, visits, dawn, begun, covered, spoilt>>
clockVars == <<clock, lastActive, mutedTill, updating, lastSeen, unwritten>>
statVars  == <<snapVars, clockVars>>

Dates  == 0..FinalDay
Unborn == FinalDay + 1
Resting == [step |-> "none"]
Origins == {"start", "cron"}

StatTypeOK ==
  /\ date \in Dates
  /\ hits \in [Items -> 0..MaxHits] /\ born \in [Items -> 0..Unborn]
  /\ snaps \subseteq [of : Items, snapshot_date : Dates, hits : 0..MaxHits]
  /\ up \subseteq Instances
  /\ \A i \in Instances, o \in Origins : job[i][o] \in {Resting}
       \cup [step : {"count", "date", "read", "clean"}, due : Dates, date : Dates]
       \cup [step : {"write"}, due : Dates, date : Dates, kept : SUBSET [of : Items, hits : 0..MaxHits]]
  /\ visits \in [Dates -> SUBSET Visitors]
  /\ clock \in 0..FinalTick
  /\ lastActive \in [Visitors -> 0..FinalTick] /\ lastSeen \in [Visitors -> 0..FinalTick]
  /\ mutedTill \in [Visitors -> 0..FinalTick + Throttle]
  /\ updating \cup unwritten \subseteq Visitors
  /\ dawn \in [Items -> [Dates -> 0..MaxHits]]
  /\ begun \cup covered \cup spoilt \subseteq Dates

StatInit ==
  /\ date = 0 /\ hits = [w \in Items |-> 0] /\ born = [w \in Items |-> Unborn]
  /\ snaps = {} /\ up = {}
  /\ job = [i \in Instances |-> [o \in Origins |-> Resting]]
  /\ visits = [d \in Dates |-> {}]
  /\ clock = 0 /\ updating = {} /\ unwritten = {}
  /\ lastActive = [v \in Visitors |-> 0] /\ lastSeen = lastActive /\ mutedTill = lastActive
  /\ dawn = [w \in Items |-> [d \in Dates |-> 0]]
  /\ begun = {} /\ covered = {} /\ spoilt = {}

Active == {w \in Items : born[w] # Unborn}
-----------------------------------------------------------------------------
(* What is counted.                                                         *)

Upload(w) ==
  /\ w \notin Active /\ born' = [born EXCEPT ![w] = date]
  /\ UNCHANGED <<date, hits, snaps, up, job, visits, dawn, begun, covered, spoilt, clockVars>>

\* getPromptDetailRepo and increaseDownload, each an increment in the database.
Hit(w) ==
  /\ w \in Active /\ hits[w] < MaxHits /\ hits' = [hits EXCEPT ![w] = @ + 1]
  /\ UNCHANGED <<date, born, snaps, up, job, visits, dawn, begun, covered, spoilt, clockVars>>

\* visitorTracker and recordVisit, after an answer below 400 to no robot.
RecordVisit(v) ==
  /\ visits' = [visits EXCEPT ![date] = @ \cup {v}]
  /\ UNCHANGED <<date, hits, born, snaps, up, job, dawn, begun, covered, spoilt, clockVars>>
-----------------------------------------------------------------------------
(* The job.                                                                 *)

Pending(d)      == \E i \in Instances, o \in Origins : job[i][o] # Resting /\ job[i][o].due = d
RunAt(i, o, r)  == job' = [job EXCEPT ![i][o] = r]
Spoil(i, o)     == spoilt' = spoilt \cup {job[i][o].due}

\* ensureTodaySnapshot when an instance starts.
StartInstance(i) ==
  /\ i \notin up /\ up' = up \cup {i}
  /\ RunAt(i, "start", [step |-> "count", due |-> date, date |-> date])
  /\ UNCHANGED <<date, hits, born, snaps, visits, dawn, begun, covered, spoilt, clockVars>>

\* "0 0 * * *" in Asia/Seoul, in every instance; a run takes less than a day.
Midnight ==
  /\ date < FinalDay /\ date' = date + 1
  /\ \A i \in up : job[i]["cron"] = Resting
  /\ dawn' = [w \in Items |-> [dawn[w] EXCEPT ![date + 1] = hits[w]]]
  /\ job' = [i \in Instances |-> IF i \notin up THEN job[i]
               ELSE [job[i] EXCEPT !["cron"] = [step |-> "date", due |-> date + 1, date |-> date + 1]]]
  /\ begun' = IF up = {} THEN begun ELSE begun \cup {date + 1}
  /\ UNCHANGED <<hits, born, snaps, up, visits, covered, spoilt, clockVars>>

\* Any snapshot of the date is enough to leave the start alone.
EnsureTodaySnapshot(i) ==
  /\ job[i]["start"].step = "count"
  /\ IF \E s \in snaps : s.snapshot_date = job[i]["start"].date
       THEN RunAt(i, "start", Resting) ELSE RunAt(i, "start", [job[i]["start"] EXCEPT !.step = "date"])
  /\ UNCHANGED <<date, hits, born, snaps, up, visits, dawn, begun, covered, spoilt, clockVars>>

\* Mutant: the date in Greenwich, which at midnight in Korea is the day before.
UtcDate == IF date = 0 THEN 0 ELSE date - 1

\* toKstDateString of now
KstDate == date

\* snapshotAllPromptStats: the date first, then the prompts ...
SnapshotDate(i, o) ==
  /\ job[i][o].step = "date"
  /\ RunAt(i, o, [job[i][o] EXCEPT !.step = "read", !.due = date, !.date = KstDate])
  /\ IF date # job[i][o].due THEN Spoil(i, o) ELSE UNCHANGED spoilt
  /\ UNCHANGED <<date, hits, born, snaps, up, visits, dawn, begun, covered, clockVars>>

ReadPrompts(i, o) ==
  /\ job[i][o].step = "read"
  /\ RunAt(i, o, [step |-> "write", due |-> job[i][o].due, date |-> job[i][o].date,
                  kept |-> {[of |-> w, hits |-> hits[w]] : w \in Active}])
  /\ IF date # job[i][o].due THEN Spoil(i, o) ELSE UNCHANGED spoilt
  /\ UNCHANGED <<date, hits, born, snaps, up, visits, dawn, begun, covered, clockVars>>

\* ... then one insert that leaves out what has a row of that date.
CreateSnapshots(i, o) ==
  LET r == job[i][o] IN
    /\ r.step = "write"
    /\ snaps' = snaps \cup {[of |-> k.of, snapshot_date |-> r.date, hits |-> k.hits] : k \in
                  {j \in r.kept : \A s \in snaps : s.of # j.of \/ s.snapshot_date # r.date}}
    /\ covered' = IF r.kept = {} THEN covered ELSE covered \cup {r.date}
    /\ RunAt(i, o, [step |-> "clean", due |-> r.due, date |-> r.date])
    /\ UNCHANGED <<date, hits, born, up, visits, dawn, begun, spoilt, clockVars>>

CleanupOldSnapshots(i, o) ==
  /\ job[i][o].step = "clean"
  /\ snaps' = {s \in snaps : s.snapshot_date + Retention >= KstDate}
  /\ RunAt(i, o, Resting)
  /\ UNCHANGED <<date, hits, born, up, visits, dawn, begun, covered, spoilt, clockVars>>

\* A statement fails: what the run has not done, nobody does for it.
RunFails(i, o) ==
  /\ job[i][o] # Resting /\ Spoil(i, o) /\ RunAt(i, o, Resting)
  /\ UNCHANGED <<date, hits, born, snaps, up, visits, dawn, begun, covered, clockVars>>

StopInstance(i) ==
  /\ i \in up /\ up' = up \ {i}
  /\ job' = [job EXCEPT ![i] = [o \in Origins |-> Resting]]
  /\ spoilt' = spoilt \cup {job[i][o].due : o \in {p \in Origins : job[i][p] # Resting}}
  /\ UNCHANGED <<date, hits, born, snaps, visits, dawn, begun, covered, clockVars>>
-----------------------------------------------------------------------------
(* What the admin is told.                                                  *)

\* findSnapshotsByDate, for one prompt.
SnapshotOf(w, d) == {s \in snaps : s.of = w /\ s.snapshot_date = d}

\* getPopularPrompts: what is new since the snapshot, or everything without one.
PopularScore(w) ==
  LET snap == SnapshotOf(w, date - Period) IN
    IF date < Period \/ snap = {} THEN hits[w] ELSE hits[w] - (CHOOSE s \in snap : TRUE).hits

\* getNewPromptStats: uploads of each of the last seven dates, today's included.
DailyUploads == [ago \in 0..Buckets - 1 |-> Cardinality({w \in Active : born[w] + ago = date})]
WeeklyCount  == SumFunctionOnSet(DailyUploads, 0..Buckets - 1)

\* getVisitorStats: the dates of the window that ends yesterday, and of the one before.
DateRange(from, days) == {d \in Dates : from <= d + 2 * Window /\ d + 2 * Window < from + days}
CurrentDates          == DateRange(date + Window, Window)
PreviousDates         == DateRange(date, Window)
CountUniqueOverRange(dates) == Cardinality(UNION {visits[d] : d \in dates})
-----------------------------------------------------------------------------
(* Activity of users.                                                       *)

Tick ==
  /\ clock < FinalTick /\ clock' = clock + 1
  /\ UNCHANGED <<snapVars, lastActive, mutedTill, updating, lastSeen, unwritten>>

Muted(v) == mutedTill[v] > clock

\* SET with NX and EX
SetKey(v) == mutedTill' = IF Muted(v) THEN mutedTill ELSE [mutedTill EXCEPT ![v] = clock + Throttle]

\* recordUserActivity up to its update.
RecordUserActivity(v) ==
  /\ lastSeen' = [lastSeen EXCEPT ![v] = clock]
  /\ SetKey(v)
  /\ updating' = IF Muted(v) THEN updating ELSE updating \cup {v}
  /\ UNCHANGED <<snapVars, clock, lastActive, unwritten>>

UpdateLastActive(v) ==
  /\ v \in updating /\ updating' = updating \ {v}
  /\ lastActive' = [lastActive EXCEPT ![v] = clock]
  /\ unwritten' = unwritten \ {v}
  /\ UNCHANGED <<snapVars, clock, mutedTill, lastSeen>>

\* The update fails, or its process ends; the key stays.
ActivityFails(v) ==
  /\ v \in updating /\ updating' = updating \ {v}
  /\ unwritten' = unwritten \cup {v}
  /\ UNCHANGED <<snapVars, clock, lastActive, mutedTill, lastSeen>>

SnapshotNext ==
  \/ \E w \in Items : Upload(w) \/ Hit(w)
  \/ \E i \in Instances : StartInstance(i) \/ StopInstance(i) \/ EnsureTodaySnapshot(i)
  \/ \E i \in Instances, o \in Origins :
       \/ SnapshotDate(i, o) \/ ReadPrompts(i, o) \/ CreateSnapshots(i, o)
       \/ CleanupOldSnapshots(i, o) \/ RunFails(i, o)
  \/ Midnight

VisitNext    == Midnight \/ \E v \in Visitors : RecordVisit(v)
ActivityNext == Tick \/ \E v \in Visitors : \/ RecordUserActivity(v) \/ UpdateLastActive(v)
                                            \/ ActivityFails(v)

StatNext == SnapshotNext \/ VisitNext \/ ActivityNext
StatSpec == StatInit /\ [][StatNext]_statVars
-----------------------------------------------------------------------------
(* Properties.                                                              *)

\* The score of a prompt leaves out what was there before the day it counts from,
\* and nothing that came after that day, unless a run of that day crossed a
\* midnight; it is the whole count only for prompts that are not older, or when
\* no run of that day came to its insert.
PopularCountsPeriod ==
  \A w \in Active : date >= Period =>
    LET from == date - Period IN
      IF SnapshotOf(w, from) = {} THEN born[w] >= from \/ from \notin covered
      ELSE /\ PopularScore(w) <= hits[w] - dawn[w][from]
           /\ from \in spoilt \/ PopularScore(w) >= hits[w] - dawn[w][from + 1]

\* A day that an instance saw begin comes to its insert, unless a run of it failed,
\* was cut off or came too late; and one that did has a snapshot of each prompt
\* that was there before, for as long as snapshots are kept.
SnapshotsAreTaken ==
  \A w \in Active, d \in Dates : born[w] < d /\ d + Retention >= date =>
    /\ d \in begun /\ ~ Pending(d) => d \in covered \cup spoilt
    /\ d \in covered => SnapshotOf(w, d) # {}

\* last_active_at is behind the last request by less than the throttle, unless
\* an update failed or is still to come.
ActivityLags ==
  \A v \in Visitors \ (updating \cup unwritten) : lastSeen[v] < lastActive[v] + Throttle

\* The windows of visitors abut and end yesterday: together they are the dates of
\* twice their length before today; the uploads of a week add up to its prompts.
WindowsAbut ==
  /\ CurrentDates \cap PreviousDates = {}
  /\ CurrentDates \cup PreviousDates = {d \in Dates : d < date /\ d + 2 * Window >= date}
  /\ WeeklyCount = Cardinality({w \in Active : born[w] + Buckets > date})
=============================================================================
