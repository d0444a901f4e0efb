---------------------------- MODULE MailQueueProofs ----------------------------
(* The safety of the mail queue, for any tasks, runs and number of tries. *)
EXTENDS MailQueue, TLAPS

\* The column counts no more tries than there were starts, however stale the
\* list was that a run took it from.
Counted(n, t) == n <= starts[t] \/ starts[t] = MaxTries

TriesCounted ==
    \A t \in Tasks : Counted(tries[t], t) /\ \A r \in Runs : Counted(listed[r][t], t)

FailsCounted == \A r \in Runs, t \in Tasks : doing[r][t] = "fail" => starts[t] = MaxTries

RunsSent ==
    \A r \in Runs, t \in Tasks :
        /\ doing[r][t] \in {"log", "finish"} => t \in sent
        /\ doing[r][t] = "finish" => t \in logged

MailInv == TypeOK /\ GivenUpLate /\ DoneWasSent /\ TriesCounted /\ FailsCounted /\ RunsSent

USE TriesAssumption, FaultsAssumption

LEMMA MailInit == Init => MailInv
  BY DEF Init, MailInv, TypeOK, GivenUpLate, DoneWasSent, TriesCounted, FailsCounted,
         RunsSent, Counted, Stages, CronStatus

\* A move of one task in one run.
LEMMA MoveStep ==
    ASSUME MailInv, NEW r \in Runs, NEW t \in Tasks,
           NEW from \in Stages, NEW to \in Stages, Moves(r, t, from, to)
    PROVE  /\ doing' \in [Runs -> [Tasks -> Stages]]
           /\ doing[r][t] = from
           /\ \A q \in Runs, u \in Tasks :
                  doing'[q][u] = IF q = r /\ u = t THEN to ELSE doing[q][u]
  BY DEF Moves, MailInv, TypeOK

\* A row that gets a new status.
LEMMA RowStep ==
    ASSUME MailInv, NEW t \in Tasks, NEW s \in CronStatus, status' = [status EXCEPT ![t] = s]
    PROVE  /\ status' \in [Tasks -> CronStatus \cup {"None"}]
           /\ \A u \in Tasks : status'[u] = IF u = t THEN s ELSE status[u]
  BY DEF MailInv, TypeOK

\* A step that leaves the rows and the histories, or only adds to the latter.
LEMMA KeptRows ==
    ASSUME MailInv, UNCHANGED <<status, tries, listed, starts>>,
           sent \subseteq sent', logged \subseteq logged',
           sent' \subseteq Tasks, logged' \subseteq Tasks, faults' \in Nat
    PROVE  /\ GivenUpLate' /\ DoneWasSent' /\ TriesCounted'
           /\ doing' \in [Runs -> [Tasks -> Stages]] => TypeOK'
  BY DEF MailInv, TypeOK, GivenUpLate, DoneWasSent, TriesCounted, Counted

LEMMA StartStep ==
    ASSUME MailInv, NEW r \in Runs, NEW t \in Tasks, StartTask(r, t)
    PROVE  MailInv'
<1>1. /\ doing' \in [Runs -> [Tasks -> Stages]]
      /\ \A q \in Runs, u \in Tasks :
             doing'[q][u] = IF q = r /\ u = t THEN "send" ELSE doing[q][u]
  BY MoveStep DEF StartTask, Stages
<1>2. /\ status' \in [Tasks -> CronStatus \cup {"None"}]
      /\ \A u \in Tasks : status'[u] = IF u = t THEN "Work" ELSE status[u]
  BY RowStep DEF StartTask, CronStatus
<1>3. /\ tries' \in [Tasks -> Nat]
      /\ \A u \in Tasks : tries'[u] = IF u = t THEN listed[r][t] + 1 ELSE tries[u]
  BY DEF StartTask, MailInv, TypeOK
<1>4. /\ starts' \in [Tasks -> 0..MaxTries]
      /\ \A u \in Tasks :
             starts'[u] = IF u = t /\ starts[t] < MaxTries THEN starts[t] + 1 ELSE starts[u]
  BY DEF StartTask, MailInv, TypeOK
<1>5. UNCHANGED <<listed, sent, logged, faults>>
  BY DEF StartTask
<1>6. TypeOK'
  BY <1>1, <1>2, <1>3, <1>4, <1>5 DEF MailInv, TypeOK
<1>7. GivenUpLate' /\ DoneWasSent'
  BY <1>2, <1>4, <1>5 DEF MailInv, GivenUpLate, DoneWasSent, TypeOK
<1>8. TriesCounted'
  <2>1. /\ listed \in [Runs -> [Tasks -> Nat]]
        /\ tries \in [Tasks -> Nat]
        /\ starts \in [Tasks -> 0..MaxTries]
    BY DEF MailInv, TypeOK
  <2>2. /\ \A u \in Tasks : starts[u] <= starts'[u]
        /\ \A u \in Tasks : starts[u] = MaxTries => starts'[u] = MaxTries
        /\ starts[t] + 1 <= starts'[t] \/ starts'[t] = MaxTries
    <3>1. CASE starts[t] < MaxTries
      BY <1>4, <2>1, <3>1
    <3>2. CASE starts[t] = MaxTries
      BY <1>4, <2>1, <3>2
    <3>3. starts[t] < MaxTries \/ starts[t] = MaxTries
      BY <2>1
    <3>4. QED
      BY <3>1, <3>2, <3>3
  <2>3. \A u \in Tasks : tries'[u] <= starts'[u] \/ starts'[u] = MaxTries
    <3>1. listed[r][t] <= starts[t] \/ starts[t] = MaxTries
      BY DEF MailInv, TriesCounted, Counted
    <3>2. tries'[t] <= starts'[t] \/ starts'[t] = MaxTries
      BY <1>3, <1>4, <2>1, <2>2, <3>1
    <3>3. ASSUME NEW u \in Tasks, u # t
          PROVE  tries'[u] <= starts'[u] \/ starts'[u] = MaxTries
      <4>1. tries'[u] = tries[u] /\ starts'[u] = starts[u]
        BY <1>3, <1>4, <3>3
      <4>2. QED
        BY <4>1 DEF MailInv, TriesCounted, Counted
    <3>4. QED
      BY <3>2, <3>3
  <2>4. ASSUME NEW q \in Runs, NEW u \in Tasks
        PROVE  listed[q][u] <= starts'[u] \/ starts'[u] = MaxTries
    <3>1. listed[q][u] <= starts[u] \/ starts[u] = MaxTries
      BY DEF MailInv, TriesCounted, Counted
    <3>2. QED
      BY <1>4, <2>1, <2>2, <3>1
  <2>5. QED
    BY <1>5, <2>3, <2>4 DEF TriesCounted, Counted
<1>9. FailsCounted' /\ RunsSent'
  <2>1. \A u \in Tasks : starts[u] = MaxTries => starts'[u] = MaxTries
    BY <1>4
  <2>2. FailsCounted'
    BY <1>1, <2>1 DEF MailInv, FailsCounted
  <2>3. RunsSent'
    BY <1>1, <1>5 DEF MailInv, RunsSent
  <2>4. QED
    BY <2>2, <2>3
<1>10. QED
  BY <1>6, <1>7, <1>8, <1>9 DEF MailInv

LEMMA SendStep ==
    ASSUME MailInv, NEW r \in Runs, NEW t \in Tasks,
           SendMail(r, t) \/ SendFails(r, t) \/ LogMail(r, t) \/ ErrorTask(r, t) \/ UpdateFails(r, t)
    PROVE  MailInv'
<1>1. /\ UNCHANGED <<status, tries, listed, starts>>
      /\ sent \subseteq sent' /\ logged \subseteq logged'
      /\ sent' \subseteq Tasks /\ logged' \subseteq Tasks /\ faults' \in Nat
  BY DEF SendMail, SendFails, LogMail, ErrorTask, UpdateFails, taskVars, MailInv, TypeOK
<1>2. PICK from \in Stages, to \in Stages :
          /\ Moves(r, t, from, to)
          /\ to = "fail" => tries[t] >= MaxTries
          /\ to = "log" => t \in sent'
          /\ to = "finish" => from = "log" /\ t \in logged'
  BY DEF SendMail, SendFails, LogMail, ErrorTask, UpdateFails, Stages
<1>3. /\ doing' \in [Runs -> [Tasks -> Stages]] /\ doing[r][t] = from
      /\ \A q \in Runs, u \in Tasks :
             doing'[q][u] = IF q = r /\ u = t THEN to ELSE doing[q][u]
  BY <1>2, MoveStep
<1>4. FailsCounted'
  <2>1. to = "fail" => starts[t] = MaxTries
    <3>1. starts[t] \in 0..MaxTries /\ tries[t] \in Nat
      BY DEF MailInv, TypeOK
    <3>2. tries[t] <= starts[t] \/ starts[t] = MaxTries
      BY DEF MailInv, TriesCounted, Counted
    <3>3. QED
      BY <1>2, <3>1, <3>2
  <2>2. QED
    BY <1>1, <1>3, <2>1 DEF MailInv, FailsCounted
<1>5. RunsSent'
  BY <1>1, <1>2, <1>3 DEF MailInv, RunsSent
<1>6. QED
  BY <1>1, <1>3, <1>4, <1>5, KeptRows DEF MailInv

LEMMA EndStep ==
    ASSUME MailInv, NEW r \in Runs, NEW t \in Tasks,
           FinishTask(r, t) \/ FailedTask(r, t) \/ RetryTask(r, t)
    PROVE  MailInv'
<1>1. UNCHANGED <<tries, listed, starts, sent, logged, faults>>
  BY DEF FinishTask, FailedTask, RetryTask
<1>2. PICK from \in Stages, s \in CronStatus :
          /\ Moves(r, t, from, "idle")
          /\ status' = [status EXCEPT ![t] = s]
          /\ s = "Failed" => from = "fail"
          /\ s = "Done" => from = "finish"
  BY DEF FinishTask, FailedTask, RetryTask, Stages, CronStatus
<1>3. /\ doing' \in [Runs -> [Tasks -> Stages]] /\ doing[r][t] = from
      /\ \A q \in Runs, u \in Tasks :
             doing'[q][u] = IF q = r /\ u = t THEN "idle" ELSE doing[q][u]
  BY <1>2, MoveStep DEF Stages
<1>4. /\ status' \in [Tasks -> CronStatus \cup {"None"}]
      /\ \A u \in Tasks : status'[u] = IF u = t THEN s ELSE status[u]
  BY <1>2, RowStep
<1>5. TypeOK'
  BY <1>1, <1>3, <1>4 DEF MailInv, TypeOK
<1>6. GivenUpLate'
  BY <1>1, <1>2, <1>3, <1>4 DEF MailInv, GivenUpLate, FailsCounted
<1>7. DoneWasSent'
  BY <1>1, <1>2, <1>3, <1>4 DEF MailInv, DoneWasSent, RunsSent
<1>8. TriesCounted' /\ FailsCounted' /\ RunsSent'
  BY <1>1, <1>3 DEF MailInv, TriesCounted, Counted, FailsCounted, RunsSent
<1>9. QED
  BY <1>5, <1>6, <1>7, <1>8 DEF MailInv

LEMMA OtherStep ==
    ASSUME MailInv, (\E t \in Tasks : CreateMail(t)) \/ (\E r \in Runs : ReadTasks(r)) \/ Crash
                    \/ UNCHANGED vars
    PROVE  MailInv'
<1>1. ASSUME NEW t \in Tasks, CreateMail(t)
      PROVE  MailInv'
  <2>1. /\ status' \in [Tasks -> CronStatus \cup {"None"}]
        /\ \A u \in Tasks : status'[u] = IF u = t THEN "Ready" ELSE status[u]
    BY <1>1, RowStep DEF CreateMail, CronStatus
  <2>2. QED
    BY <1>1, <2>1 DEF CreateMail, MailInv, TypeOK, GivenUpLate, DoneWasSent, TriesCounted,
                      Counted, FailsCounted, RunsSent
<1>2. ASSUME NEW r \in Runs, ReadTasks(r)
      PROVE  MailInv'
  <2>1. /\ doing' \in [Runs -> [Tasks -> Stages]]
        /\ \A q \in Runs, u \in Tasks : doing'[q][u] \in {"start", "idle", doing[q][u]}
    BY <1>2 DEF ReadTasks, MailInv, TypeOK, Stages
  <2>2. /\ listed' \in [Runs -> [Tasks -> Nat]]
        /\ \A q \in Runs, u \in Tasks : listed'[q][u] \in {tries[u], 0, listed[q][u]}
    BY <1>2 DEF ReadTasks, MailInv, TypeOK
  <2>3. UNCHANGED <<status, tries, starts, sent, logged, faults>>
    BY <1>2 DEF ReadTasks, taskVars
  <2>4. TypeOK' /\ GivenUpLate' /\ DoneWasSent'
    BY <2>1, <2>2, <2>3 DEF MailInv, TypeOK, GivenUpLate, DoneWasSent
  <2>5. TriesCounted'
    BY <2>2, <2>3 DEF MailInv, TypeOK, TriesCounted, Counted
  <2>6. FailsCounted' /\ RunsSent'
    BY <2>1, <2>3 DEF MailInv, FailsCounted, RunsSent
  <2>7. QED
    BY <2>4, <2>5, <2>6 DEF MailInv
<1>3. CASE Crash
  <2>1. /\ UNCHANGED <<status, tries, listed, starts, sent, logged>>
        /\ faults' \in Nat /\ doing' \in [Runs -> [Tasks -> Stages]]
        /\ \A r \in Runs, t \in Tasks : doing'[r][t] = "idle"
    BY <1>3 DEF Crash, taskVars, MailInv, TypeOK, Stages
  <2>2. FailsCounted' /\ RunsSent'
    BY <2>1 DEF FailsCounted, RunsSent
  <2>3. QED
    BY <2>1, <2>2, KeptRows DEF MailInv, TypeOK
<1>4. CASE UNCHANGED vars
  BY <1>4 DEF vars, MailInv, TypeOK, GivenUpLate, DoneWasSent, TriesCounted, Counted,
              FailsCounted, RunsSent
<1>5. QED
  BY <1>1, <1>2, <1>3, <1>4

\* Whatever runs overlap, crash or are rejected, the counts of tries stay
\* below the starts, and a run past sending has sent.
THEOREM MailSafety == Spec => []MailInv
<1>1. MailInv /\ [Next]_vars => MailInv'
  BY StartStep, SendStep, EndStep, OtherStep DEF Next, TaskStep
<1>2. QED
  BY <1>1, MailInit, PTL DEF Spec

\* The rows of the queue and the stages of the runs keep their types: no run
\* writes a status that CronStatus has not, or a negative number of tries.
THEOREM MailTypes == Spec => []TypeOK
  BY MailSafety, PTL DEF MailInv

\* No mail is given up before it was started MaxTries times.
THEOREM GivenUp == Spec => []GivenUpLate
  BY MailSafety, PTL DEF MailInv

\* No mail counts as done that was not sent and logged.
THEOREM DoneSent == Spec => []DoneWasSent
  BY MailSafety, PTL DEF MailInv
=============================================================================
