------------------------------- MODULE MailQueue -------------------------------
(***************************************************************************)
(* The queue of outgoing mails: rows of CronTask, one Mail each, and the   *)
(* runs of CronPrismaService.processTasks that send them.  A run starts    *)
(* every 30 seconds and when the process starts, whether or not earlier    *)
(* runs have ended, and takes all its tasks side by side.  What it writes  *)
(* comes from the list it read first; nothing locks a task.                *)
(***************************************************************************)
EXTENDS Integers

CONSTANTS
    Tasks,       \* the rows of CronTask
    Runs,        \* the runs of processTasks that may overlap
    MaxTries,    \* CRON_MAX_TRIES
    MaxFaults    \* bound on rejected updates and crashes

ASSUME TriesAssumption == MaxTries \in Nat \ {0}
ASSUME FaultsAssumption == MaxFaults \in Nat

VARIABLES
    status,   \* status[t]: CronTask.status, "None" before the mail is created
    tries,    \* tries[t]: CronTask.tries
    doing,    \* doing[r][t]: where the run r is with the task t
    listed,   \* listed[r][t]: the tries of t in the list that r read
    starts,   \* starts[t]: how often t was started, counted to MaxTries (history)
    sent,     \* the tasks whose mail was handed to SMTP (history)
    logged,   \* the tasks whose mail has a row in MailLog
    faults    \* rejected updates and crashes so far (bounds the model)

vars == <<status, tries, doing, listed, starts, sent, logged, faults>>

taskVars == <<status, tries>>

CronStatus == {"Ready", "Work", "Done", "Error", "Failed"}

\* The places of one task's part of a run: listed and about to be started,
\* before and after the mail is sent, about to be finished, rejected, and
\* about to be written as Failed or as Error.
Stages == {"idle", "start", "send", "log", "finish", "reject", "fail", "retry"}

TypeOK ==
    /\ status \in [Tasks -> CronStatus \cup {"None"}]
    /\ tries \in [Tasks -> Nat]
    /\ doing \in [Runs -> [Tasks -> Stages]]
    /\ listed \in [Runs -> [Tasks -> Nat]]
    /\ starts \in [Tasks -> 0..MaxTries]
    /\ sent \subseteq Tasks
    /\ logged \subseteq Tasks
    /\ faults \in Nat

Init ==
    /\ status = [t \in Tasks |-> "None"]
    /\ tries = [t \in Tasks |-> 0]
    /\ doing = [r \in Runs |-> [t \in Tasks |-> "idle"]]
    /\ listed = [r \in Runs |-> [t \in Tasks |-> 0]]
    /\ starts = [t \in Tasks |-> 0]
    /\ sent = {}
    /\ logged = {}
    /\ faults = 0

Moves(r, t, from, to) ==
    /\ doing[r][t] = from
    /\ doing' = [doing EXCEPT ![r][t] = to]

-----------------------------------------------------------------------------
(* The mails that registration and password recovery ask for. *)

CreateMail(t) ==
    /\ status[t] = "None"
    /\ status' = [status EXCEPT ![t] = "Ready"]
    /\ UNCHANGED <<tries, doing, listed, starts, sent, logged, faults>>

-----------------------------------------------------------------------------
(* One run of processTasks. *)

NotRunning(t) == status[t] \in {"Ready", "Error"}

IdleRun(r) == \A t \in Tasks : doing[r][t] = "idle"

\* The tasks come with their tries; both may be stale when they are used.
ReadTasks(r) ==
    /\ IdleRun(r)
    /\ \E t \in Tasks : NotRunning(t)
    /\ doing' = [doing EXCEPT ![r] =
                    [t \in Tasks |-> IF NotRunning(t) THEN "start" ELSE "idle"]]
    /\ listed' = [listed EXCEPT ![r] = [t \in Tasks |-> IF NotRunning(t) THEN tries[t] ELSE 0]]
    /\ UNCHANGED <<taskVars, starts, sent, logged, faults>>

\* Mutants of StartTask.
StartTaskKeepsTries(r, t) ==
    /\ Moves(r, t, "start", "send")
    /\ status' = [status EXCEPT ![t] = "Work"]
    /\ tries' = [tries EXCEPT ![t] = listed[r][t]]
    /\ starts' = [starts EXCEPT ![t] = IF @ < MaxTries THEN @ + 1 ELSE @]
    /\ UNCHANGED <<listed, sent, logged, faults>>

StartTaskCountsDown(r, t) ==
    /\ Moves(r, t, "start", "send")
    /\ status' = [status EXCEPT ![t] = "Work"]
    /\ tries' = [tries EXCEPT ![t] = listed[r][t] - 1]
    /\ starts' = [starts EXCEPT ![t] = IF @ < MaxTries THEN @ + 1 ELSE @]
    /\ UNCHANGED <<listed, sent, logged, faults>>

\* The update has no condition on the status, so its result is never empty:
\* the test for a task that is "already started" does not stop a second run.
StartTask(r, t) ==
    /\ Moves(r, t, "start", "send")
    /\ status' = [status EXCEPT ![t] = "Work"]
    /\ tries' = [tries EXCEPT ![t] = listed[r][t] + 1]
    /\ starts' = [starts EXCEPT ![t] = IF @ < MaxTries THEN @ + 1 ELSE @]
    /\ UNCHANGED <<listed, sent, logged, faults>>

SendMail(r, t) ==
    /\ Moves(r, t, "send", "log")
    /\ sent' = sent \cup {t}
    /\ UNCHANGED <<taskVars, listed, starts, logged, faults>>

\* Mutant of SendFails: the rejection is not noticed.
SendFailsUnnoticed(r, t) ==
    /\ Moves(r, t, "send", "finish")
    /\ UNCHANGED <<taskVars, listed, starts, sent, logged, faults>>

\* A missing template or the SMTP server rejects the mail.
SendFails(r, t) ==
    /\ Moves(r, t, "send", "reject")
    /\ UNCHANGED <<taskVars, listed, starts, sent, logged, faults>>

LogMail(r, t) ==
    /\ Moves(r, t, "log", "finish")
    /\ logged' = logged \cup {t}
    /\ UNCHANGED <<taskVars, listed, starts, sent, faults>>

\* The id of the log row is the proof, and no id is 0 or -1.
FinishTask(r, t) ==
    /\ Moves(r, t, "finish", "idle")
    /\ status' = [status EXCEPT ![t] = "Done"]
    /\ UNCHANGED <<tries, listed, starts, sent, logged, faults>>

\* Mutant of ErrorTask: one try too few.
ErrorTaskEarly(r, t) ==
    /\ Moves(r, t, "reject", IF tries[t] + 1 >= MaxTries THEN "fail" ELSE "retry")
    /\ UNCHANGED <<taskVars, listed, starts, sent, logged, faults>>

\* errorTask reads the row again, then writes what it decided.
ErrorTask(r, t) ==
    /\ Moves(r, t, "reject", IF tries[t] >= MaxTries THEN "fail" ELSE "retry")
    /\ UNCHANGED <<taskVars, listed, starts, sent, logged, faults>>

FailedTask(r, t) ==
    /\ Moves(r, t, "fail", "idle")
    /\ status' = [status EXCEPT ![t] = "Failed"]
    /\ UNCHANGED <<tries, listed, starts, sent, logged, faults>>

RetryTask(r, t) ==
    /\ Moves(r, t, "retry", "idle")
    /\ status' = [status EXCEPT ![t] = "Error"]
    /\ UNCHANGED <<tries, listed, starts, sent, logged, faults>>

-----------------------------------------------------------------------------
(* Faults. *)

\* An update that is rejected sends the task to errorTask; errorTask's own
\* rejection ends the task's part of the run.
UpdateFails(r, t) ==
    /\ faults < MaxFaults
    /\ \/ \E s \in {"start", "log", "finish"} : Moves(r, t, s, "reject")
       \/ \E s \in {"reject", "fail", "retry"} : Moves(r, t, s, "idle")
    /\ faults' = faults + 1
    /\ UNCHANGED <<taskVars, listed, starts, sent, logged>>

\* The process ends and its runs with it; the tables stay.
Crash ==
    /\ faults < MaxFaults
    /\ \E r \in Runs : ~ IdleRun(r)
    /\ doing' = [r \in Runs |-> [t \in Tasks |-> "idle"]]
    /\ faults' = faults + 1
    /\ UNCHANGED <<taskVars, listed, starts, sent, logged>>

-----------------------------------------------------------------------------
(* The system. *)

TaskStep(r, t) ==
    \/ StartTask(r, t)
    \/ SendMail(r, t)
    \/ SendFails(r, t)
    \/ LogMail(r, t)
    \/ FinishTask(r, t)
    \/ ErrorTask(r, t)
    \/ FailedTask(r, t)
    \/ RetryTask(r, t)

Next ==
    \/ \E t \in Tasks : CreateMail(t)
    \/ \E r \in Runs : ReadTasks(r)
    \/ \E r \in Runs, t \in Tasks : TaskStep(r, t) \/ UpdateFails(r, t)
    \/ Crash

\* The schedule starts a run every 30 seconds, and a run goes on with each of
\* its tasks; nothing obliges a mail to be asked for or a fault to occur.
Fairness ==
    /\ \A r \in Runs : WF_vars(ReadTasks(r))
    /\ \A r \in Runs, t \in Tasks : WF_vars(TaskStep(r, t))

Spec == Init /\ [][Next]_vars /\ Fairness

-----------------------------------------------------------------------------
(* Properties *)

\* A task is given up only after it was started MaxTries times, although a
\* run writes tries from a list that other runs have made stale.
GivenUpLate == \A t \in Tasks : status[t] = "Failed" => starts[t] = MaxTries

\* A task is Done only if its mail was sent and logged, whichever of the runs
\* that share it wrote last.
DoneWasSent == \A t \in Tasks : status[t] = "Done" => t \in logged \cap sent

\* A row of the queue that says Work and that no run will write again.
Abandoned(t) == status[t] = "Work" /\ \A r \in Runs : doing[r][t] = "idle"

\* Every mail is sent or given up in the end and stays so, but for the tasks
\* that a crash or a rejected errorTask left in Work, which no list contains:
\* runs that write the tries of stale lists do not retry for ever.
EveryMailSettles ==
    \A t \in Tasks : <>[](status[t] \in {"None", "Done", "Failed"} \/ Abandoned(t))
=============================================================================
