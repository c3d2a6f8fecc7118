------------------------------ MODULE Scheduler -----------------------------
(***************************************************************************)
(* The loop that runs scheduled actions (lib.rs).  It waits for a tick of  *)
(* an interval of one minute that began when the server did, reads the     *)
(* wall clock, and runs what is scheduled; ticks that were missed while it *)
(* worked follow at once.  One repository: the work for others is time     *)
(* that a run takes.                                                       *)
(***************************************************************************)
EXTENDS Integers

CONSTANTS
    Sched,       \* Sched[a]: the schedule of action a, a record, Always or Malformed
    MinuteLen,   \* instants in a minute
    HourLen,     \* minutes in an hour
    MaxInstant,  \* bound: the wall clock
    MaxStarts,   \* bound: starts of the server
    Star, Always, Malformed

ASSUME SchedulerAssumptions ==
    /\ MinuteLen \in Nat \ {0} /\ HourLen \in Nat \ {0}
    /\ MaxInstant \in Nat /\ MaxStarts \in Nat

VARIABLES
    instant,  \* the wall clock
    starts,   \* starts of the server so far
    due,      \* when the interval ticks next
    loop,     \* what the loop does: "waits" or "runs"
    ran,      \* history: ran[a][m], how often action a was run in minute m
    slipped,  \* history: minutes whose tick was served in a later minute
    crowded   \* history: minutes in which a tick of an earlier one was served

schedulerVars == <<instant, starts, due, loop, ran, slipped, crowded>>

Scheduled   == DOMAIN Sched
MinuteOf(t) == t \div MinuteLen
Minutes     == 0..MinuteOf(MaxInstant)

(* "*" and "*:*" always match; otherwise both parts must. *)
schedule_matches(s, m) ==
    \/ s = Always
    \/ /\ s \notin {Always, Malformed}
       /\ s.hour \in {Star, m \div HourLen}
       /\ s.minute \in {Star, m % HourLen}

ShouldRun(m) == \E a \in Scheduled : schedule_matches(Sched[a], m)

(* Mutant: the tick at the start is served. *)
MutFirstDue(t) == t

(* The interval ticks at once; that tick is skipped. *)
FirstDue(t) == t + MinuteLen

(* The loop wakes at or after its tick.  All scheduled actions run when    *)
(* one of them matches the minute.                                         *)
ServeTick ==
    /\ loop = "waits" /\ instant >= due
    /\ LET m == MinuteOf(instant) IN
         /\ ran' = IF ShouldRun(m) THEN [a \in Scheduled |-> [ran[a] EXCEPT ![m] = @ + 1]]
                                   ELSE ran
         /\ loop' = IF ShouldRun(m) THEN "runs" ELSE "waits"
         /\ slipped' = IF MinuteOf(due) < m THEN slipped \cup {MinuteOf(due)} ELSE slipped
         /\ crowded' = IF MinuteOf(due) < m THEN crowded \cup {m} ELSE crowded
    /\ due' = due + MinuteLen
    /\ UNCHANGED <<instant, starts>>

RunEnded ==
    /\ loop = "runs"
    /\ loop' = "waits"
    /\ UNCHANGED <<instant, starts, due, ran, slipped, crowded>>

(* The server is killed and started again. *)
Restart ==
    /\ starts < MaxStarts
    /\ starts' = starts + 1
    /\ due' = FirstDue(instant)
    /\ loop' = "waits"
    /\ UNCHANGED <<instant, ran, slipped, crowded>>

TimePasses ==
    /\ instant < MaxInstant
    /\ instant' = instant + 1
    /\ UNCHANGED <<starts, due, loop, ran, slipped, crowded>>

SchedulerInit ==
    /\ instant \in 0..(MinuteLen - 1)
    /\ starts = 1
    /\ due = FirstDue(instant)
    /\ loop = "waits"
    /\ ran = [a \in Scheduled |-> [m \in Minutes |-> 0]]
    /\ slipped = {} /\ crowded = {}

SchedulerNext == ServeTick \/ RunEnded \/ Restart \/ TimePasses

SchedulerSpec == SchedulerInit /\ [][SchedulerNext]_schedulerVars

---------------------------------------------------------------------------
(* An action runs in every full minute that its schedule names, and only   *)
(* once, unless the loop came late: then the minute of the late tick is    *)
(* missed, or the one it is served in runs twice.  A restart may skip a    *)
(* minute and never repeats one.  An action runs in a minute that its own  *)
(* schedule does not name only because another one's does.                 *)
ScheduleKept ==
    \A a \in Scheduled, m \in Minutes :
        /\ ran[a][m] > 1 => m \in crowded
        /\ ran[a][m] > 0 => ShouldRun(m)
        /\ schedule_matches(Sched[a], m) /\ m > 0 /\ starts = 1
             => ran[a][m] > 0 \/ m \in slipped \/ MinuteOf(due) <= m
=============================================================================
