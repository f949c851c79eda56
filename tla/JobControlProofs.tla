-------------------------- MODULE JobControlProofs --------------------------
(***************************************************************************)
(* Theorems about JobControl, for any number of jobs, tasks, sessions and  *)
(* requests in flight: its types and its use of the slots of SlotGate, and *)
(* then what it keeps of its jobs, as long as two requests at the same     *)
(* time are about different jobs (RequestsApart).                          *)
(*                                                                         *)
(* BookInv, about the runner's sets, is inductive with TypeOK; RecordInv,  *)
(* about the records, is inductive with both.                              *)
(***************************************************************************)
EXTENDS JobControl, FiniteSetTheorems, TLAPS

(* The initial state is well typed. *)
LEMMA InitTyped == ASSUME Init PROVE TypeOK
  <1> USE JobAssumption DEF Init
  <1>1. SlotsTyped
    BY DEF Gate!Init, SlotsTyped, Gate!Places
  <1>2. TasksTyped
    BY DEF TasksTyped, NoTask, TaskState, TaskPlaces
  <1>3. RequestsTyped
    BY DEF RequestsTyped, NoRequest, Request, HandlerPlaces
  <1>4. RecordsTyped /\ RunnerTyped
    BY DEF RecordsTyped, RunnerTyped
  <1> QED BY <1>1, <1>2, <1>3, <1>4 DEF TypeOK

(* A task that goes to a place with the copy that belongs there. *)
LEMMA StepTyped ==
  ASSUME TasksTyped, NEW t \in Task, task[t].at # "idle",
         NEW at \in TaskPlaces, at # "idle", NEW doc \in Doc \cup {None},
         at \notin {"pool", "finish", "ended", "completed"} => doc \in Doc,
         Step(t, at, doc)
  PROVE  TasksTyped'
  BY DEF TasksTyped, TaskState, Step

(* A new task. *)
LEMMA EnqueueTyped ==
  ASSUME TasksTyped, NEW kind \in Kinds, NEW j \in Job, Enqueue(kind, j)
  PROVE  TasksTyped'
  BY DEF TasksTyped, TaskState, Enqueue, TaskPlaces

(* A request that goes on. *)
LEMMA GotoTyped ==
  ASSUME RequestsTyped, NEW h \in Handler, handler[h].at # "idle",
         NEW at \in HandlerPlaces,
         at \notin {"idle", "create", "submit"} => handler[h].doc \in Doc,
         Goto(h, at)
  PROVE  RequestsTyped'
  BY DEF RequestsTyped, Request, Goto

(* A request that is answered. *)
LEMMA AnswerTyped ==
  ASSUME RequestsTyped, NEW h \in Handler, Answer(h)
  PROVE  RequestsTyped'
  BY DEF RequestsTyped, Request, Answer, NoRequest, HandlerPlaces

(* A whole document replaces the record. *)
LEMMA PutTyped ==
  ASSUME RecordsTyped, NEW j \in Job, NEW doc \in Doc, Put(j, doc), UNCHANGED cloud
  PROVE  RecordsTyped'
  BY DEF RecordsTyped, Put

(* A session is pinned. *)
LEMMA PinTyped ==
  ASSUME RunnerTyped, NEW j \in Job, NEW s \in Session, Pin(j, s),
         running' = running \cup {j}, UNCHANGED cancelReq
  PROVE  RunnerTyped'
  BY DEF RunnerTyped, Pin

(* A request that reads a record. *)
LEMMA ReadTyped ==
  ASSUME RecordsTyped, RequestsTyped, NEW h \in Handler, NEW j \in Job, store[j] # None,
         NEW at \in HandlerPlaces,
         handler' = [handler EXCEPT ![h] =
                       [at |-> at, job |-> j, doc |-> store[j], sess |-> None]]
  PROVE  RequestsTyped'
  BY DEF RecordsTyped, RequestsTyped, Request

(* The steps of a request keep the types. *)
LEMMA HandlerTyped ==
  ASSUME TypeOK, NEW h \in Handler, HandlerStep(h)
  PROVE  TypeOK'
<1> USE JobAssumption
<1> USE DEF TypeOK, vars, records, runner, slots
<1>1. ASSUME NEW j \in Job, CreateBegin(h, j) PROVE TypeOK'
  <2>1. RequestsTyped'
    BY <1>1 DEF CreateBegin, RequestsTyped, Request, HandlerPlaces
  <2> QED
    BY <1>1, <2>1 DEF CreateBegin, RecordsTyped, TasksTyped, RunnerTyped, SlotsTyped
<1>2. ASSUME NEW j \in Job, \/ CancelRead(h, j) \/ FinalizeRead(h, j) \/ FinishRead(h, j)
      PROVE  TypeOK'
  <2>1. RequestsTyped'
    BY <1>2, ReadTyped DEF CancelRead, FinalizeRead, FinishRead, HandlerPlaces
  <2> QED
    BY <1>2, <2>1
    DEF CancelRead, FinalizeRead, FinishRead, RecordsTyped, TasksTyped, RunnerTyped, SlotsTyped
<1>3. ASSUME CreatePut(h) PROVE TypeOK'
  <2> DEFINE j == handler[h].job
  <2>1. j \in Job /\ handler[h].at # "idle"
    BY <1>3 DEF CreatePut, RequestsTyped
  <2>2. RequestsTyped'
    BY <1>3, <2>1, GotoTyped, AnswerTyped DEF CreatePut, HandlerPlaces
  <2>3. NewDoc \in Doc
    BY DEF NewDoc, Doc, Phases
  <2>4. RecordsTyped'
    BY <1>3, <2>1, <2>3, PutTyped DEF CreatePut, RecordsTyped
  <2> QED
    BY <1>3, <2>2, <2>4 DEF CreatePut, TasksTyped, RunnerTyped, SlotsTyped
<1>4. ASSUME Submit(h) PROVE TypeOK'
  <2>1. handler[h].job \in Job /\ handler[h].sess \in Session \cup {None}
    BY <1>4 DEF Submit, RequestsTyped, Request
  <2>2. RequestsTyped'
    BY <1>4, AnswerTyped DEF Submit
  <2>3. TasksTyped'
    BY <1>4, <2>1, EnqueueTyped DEF Submit, Kinds
  <2>4. RunnerTyped'
    <3>1. CASE handler[h].sess = None
      BY <1>4, <2>1, <3>1 DEF Submit, RunnerTyped
    <3>2. CASE handler[h].sess # None
      BY <1>4, <2>1, <3>2, PinTyped DEF Submit
    <3> QED BY <3>1, <3>2
  <2> QED
    BY <1>4, <2>2, <2>3, <2>4 DEF Submit, RecordsTyped, SlotsTyped
<1>5. ASSUME \/ CancelTest(h) \/ FinalizeTest(h) PROVE TypeOK'
  <2>1. handler[h].at # "idle" /\ handler[h].doc \in Doc
    BY <1>5 DEF CancelTest, FinalizeTest, RequestsTyped
  <2>2. RequestsTyped'
    BY <1>5, <2>1, GotoTyped, AnswerTyped DEF CancelTest, FinalizeTest, HandlerPlaces
  <2> QED
    BY <1>5, <2>2
    DEF CancelTest, FinalizeTest, RecordsTyped, TasksTyped, RunnerTyped, SlotsTyped
<1>6. ASSUME CancelFlag(h) PROVE TypeOK'
  <2>1. handler[h].at # "idle" /\ handler[h].doc \in Doc /\ handler[h].job \in Job
    BY <1>6 DEF CancelFlag, RequestsTyped
  <2>2. RequestsTyped'
    BY <1>6, <2>1, GotoTyped DEF CancelFlag, HandlerPlaces
  <2> QED
    BY <1>6, <2>1, <2>2 DEF CancelFlag, RecordsTyped, TasksTyped, RunnerTyped, SlotsTyped
<1>7. ASSUME \/ CancelNote(h) \/ CleanupPut(h) \/ FinalizePut(h) \/ FinishPut(h) PROVE TypeOK'
  <2>1. handler[h].at # "idle" /\ handler[h].doc \in Doc /\ handler[h].job \in Job
    BY <1>7 DEF CancelNote, CleanupPut, FinalizePut, FinishPut, RequestsTyped
  <2>2. RequestsTyped'
    BY <1>7, <2>1, GotoTyped, AnswerTyped
    DEF CancelNote, CleanupPut, FinalizePut, FinishPut, HandlerPlaces
  <2>3. [handler[h].doc EXCEPT !.phase = "COMPLETED"] \in Doc
    BY <2>1 DEF Doc, Phases, Terminal
  <2>4. RecordsTyped'
    BY <1>7, <2>1, <2>3, PutTyped DEF CancelNote, CleanupPut, FinalizePut, FinishPut
  <2> QED
    BY <1>7, <2>2, <2>4
    DEF CancelNote, CleanupPut, FinalizePut, FinishPut, TasksTyped, RunnerTyped, SlotsTyped
<1>8. ASSUME CleanupSubmit(h) PROVE TypeOK'
  <2>1. handler[h].job \in Job
    BY <1>8 DEF CleanupSubmit, RequestsTyped
  <2>2. RequestsTyped' /\ TasksTyped'
    BY <1>8, <2>1, AnswerTyped, EnqueueTyped DEF CleanupSubmit, Kinds
  <2>3. RunnerTyped'
    <3>1. CASE UNCHANGED <<jobSession, pins>>
      BY <1>8, <2>1, <3>1 DEF CleanupSubmit, RunnerTyped
    <3>2. ASSUME NEW s \in Session, Pin(handler[h].job, s) PROVE RunnerTyped'
      BY <1>8, <2>1, <3>2, PinTyped DEF CleanupSubmit
    <3> QED BY <1>8, <3>1, <3>2 DEF CleanupSubmit
  <2> QED
    BY <1>8, <2>2, <2>3 DEF CleanupSubmit, RecordsTyped, SlotsTyped
<1>9. ASSUME FinalizeSubmit(h) PROVE TypeOK'
  <2>1. handler[h].job \in Job
    BY <1>9 DEF FinalizeSubmit, RequestsTyped
  <2>2. RequestsTyped' /\ TasksTyped'
    BY <1>9, <2>1, AnswerTyped, EnqueueTyped DEF FinalizeSubmit, Kinds
  <2> QED
    BY <1>9, <2>1, <2>2 DEF FinalizeSubmit, RecordsTyped, RunnerTyped, SlotsTyped
<1> QED
  BY <1>1, <1>2, <1>3, <1>4, <1>5, <1>6, <1>7, <1>8, <1>9 DEF HandlerStep

(* Any step of the gate keeps its types. *)
LEMMA GateTyped ==
  ASSUME SlotsTyped, NEW t \in Task,
         \/ Gate!Arrive(t) \/ Gate!Take(t) \/ Gate!GiveUp(t) \/ Gate!Sleep(t)
         \/ Gate!Timeout(t) \/ Gate!Release(t)
  PROVE  SlotsTyped'
<1> USE JobAssumption
<1>1. ASSUME NEW g \in [Task -> Gate!Places] PROVE Gate!Notified(g) \in [Task -> Gate!Places]
  BY DEF Gate!Notified, Gate!Places
<1>2. ASSUME NEW p \in Gate!Places PROVE [gate EXCEPT ![t] = p] \in [Task -> Gate!Places]
  BY DEF SlotsTyped
<1>3. CASE Gate!Release(t)
  <2>1. gate' = Gate!Notified([gate EXCEPT ![t] = "done"])
    BY <1>3 DEF Gate!Release
  <2>2. "done" \in Gate!Places
    BY DEF Gate!Places
  <2>3. gate' \in [Task -> Gate!Places]
    BY <1>1, <1>2, <2>1, <2>2
  <2>4. migrating' \in Nat /\ limit' = limit
    BY <1>3 DEF Gate!Release, SlotsTyped
  <2> QED BY <2>3, <2>4 DEF SlotsTyped
<1>4. CASE ~Gate!Release(t)
  BY <1>4 DEF SlotsTyped, Gate!Places, Gate!Arrive, Gate!Take, Gate!GiveUp, Gate!Sleep, Gate!Timeout
<1> QED BY <1>3, <1>4

(* A task that saves its copy. *)
LEMMA SaveTyped ==
  ASSUME TasksTyped, RecordsTyped, NEW t \in Task, task[t].at # "idle",
         NEW at \in TaskPlaces \ {"idle"}, NEW doc \in Doc, Save(t, at, doc), UNCHANGED cloud
  PROVE  TasksTyped' /\ RecordsTyped'
<1>1. task[t].job \in Job
  BY DEF TasksTyped
<1> QED BY <1>1, StepTyped, PutTyped DEF Save

(* The steps of a task keep the types. *)
LEMMA TaskTyped ==
  ASSUME TypeOK, NEW t \in Task, TaskStep(t)
  PROVE  TypeOK'
<1> USE JobAssumption
<1> USE DEF TypeOK, vars, records, runner, slots
<1> DEFINE doc == task[t].doc
<1>1. /\ task[t].at \notin {"idle", "pool", "finish", "ended", "completed"} => doc \in Doc
      /\ task[t].at # "idle" => task[t].job \in Job /\ task[t].kind \in Kinds
  BY DEF TasksTyped
<1>2. ASSUME doc \in Doc
      PROVE  /\ \A p \in Phases : [doc EXCEPT !.phase = p] \in Doc
             /\ [doc EXCEPT !.inst = TRUE] \in Doc
             /\ [doc EXCEPT !.copied = TRUE] \in Doc
  BY <1>2 DEF Doc
<1>3. Ending(t) \in TaskPlaces \ {"idle", "pool", "ended", "completed"}
  BY DEF Ending, TaskPlaces
<1>4. {"waiting", "begin", "note", "provision", "launched", "ready", "finish", "export", "copied",
       "finalize", "served", "saved", "clean", "torn", "gate", "ended", "completed"}
        \subseteq TaskPlaces \ {"idle"}
  BY DEF TaskPlaces, WorkPlaces
<1>5. ASSUME Start(t) PROVE TypeOK'
  <2>1. task[t].job \in Job /\ task[t].at # "idle" /\ task[t].kind \in Kinds
    BY <1>1, <1>5 DEF Start
  <2>2. store[task[t].job] \in Doc \cup {None}
    BY <2>1 DEF RecordsTyped
  <2>3. TasksTyped'
    BY <1>4, <1>5, <2>1, <2>2, StepTyped DEF Start, FirstPlace
  <2>4. SlotsTyped'
    <3>1. CASE UNCHANGED slots
      BY <3>1 DEF SlotsTyped
    <3>2. CASE Gate!Arrive(t)
      BY <3>2, GateTyped
    <3> QED BY <1>5, <3>1, <3>2 DEF Start
  <2> QED
    BY <1>5, <2>3, <2>4 DEF Start, RecordsTyped, RequestsTyped, RunnerTyped
<1>6. ASSUME WaitForSlot(t) PROVE TypeOK'
  <2>1. doc \in Doc /\ task[t].at # "idle"
    BY <1>1, <1>6 DEF WaitForSlot
  <2>2. TasksTyped' /\ RecordsTyped'
    <3>1. CASE task[t].at = "gate"
      BY <1>4, <1>6, <2>1, <3>1, SaveTyped DEF WaitForSlot
    <3>2. CASE task[t].at # "gate"
      BY <1>6, <3>2 DEF WaitForSlot, TasksTyped, RecordsTyped
    <3> QED BY <3>1, <3>2
  <2>3. SlotsTyped'
    BY <1>6, GateTyped DEF WaitForSlot
  <2> QED
    BY <1>6, <2>2, <2>3 DEF WaitForSlot, RequestsTyped, RunnerTyped
<1>7. ASSUME Wake(t) PROVE TypeOK'
  <2>1. SlotsTyped'
    BY <1>7, GateTyped DEF Wake
  <2> QED
    BY <1>7, <2>1 DEF Wake, TasksTyped, RecordsTyped, RequestsTyped, RunnerTyped
<1>8. ASSUME \/ TakeSlot(t) \/ GiveUpSlot(t) \/ ReleaseSlot(t) PROVE TypeOK'
  <2>1. doc \in Doc /\ task[t].at # "idle"
    BY <1>1, <1>8 DEF TakeSlot, GiveUpSlot, ReleaseSlot
  <2>2. TasksTyped'
    BY <1>4, <1>8, <2>1, StepTyped DEF TakeSlot, GiveUpSlot, ReleaseSlot
  <2>3. SlotsTyped'
    BY <1>8, GateTyped DEF TakeSlot, GiveUpSlot, ReleaseSlot
  <2> QED
    BY <1>8, <2>2, <2>3
    DEF TakeSlot, GiveUpSlot, ReleaseSlot, RecordsTyped, RequestsTyped, RunnerTyped
<1>9. ASSUME \/ Launch(t) \/ Serve(t) \/ TearDown(t) \/ Cancelled(t) PROVE TypeOK'
  <2>1. doc \in Doc /\ task[t].at # "idle"
    BY <1>1, <1>9 DEF Launch, Serve, TearDown, Cancelled
  <2>2. TasksTyped'
    BY <1>4, <1>9, <2>1, StepTyped DEF Launch, Serve, TearDown, Cancelled
  <2>3. RecordsTyped'
    BY <1>9 DEF Launch, Serve, TearDown, Cancelled, RecordsTyped
  <2> QED
    BY <1>9, <2>2, <2>3
    DEF Launch, Serve, TearDown, Cancelled, RequestsTyped, RunnerTyped, SlotsTyped
<1>10. ASSUME \/ Provision(t) \/ Recorded(t) \/ HandOver(t) \/ Export(t) \/ Copied(t)
              \/ Finalize(t) \/ Complete(t)
       PROVE  TypeOK'
  <2>1. doc \in Doc /\ task[t].at # "idle"
    BY <1>1, <1>10 DEF Provision, Recorded, HandOver, Export, Copied, Finalize, Complete
  <2>2. {"PROVISIONING", "INSTALLING", "EXPORTING", "FINALIZING", "COMPLETED"} \subseteq Phases
    BY DEF Phases, Terminal
  <2>3. TasksTyped' /\ RecordsTyped'
    BY <1>2, <1>4, <1>10, <2>1, <2>2, SaveTyped
    DEF Provision, Recorded, HandOver, Export, Copied, Finalize, Complete
  <2> QED
    BY <1>10, <2>3
    DEF Provision, Recorded, HandOver, Export, Copied, Finalize, Complete, RequestsTyped,
        RunnerTyped, SlotsTyped
<1>11. ASSUME \/ SaveMessage(t) \/ Fail(t) \/ NoteCancel(t) \/ SaveCancelled(t) PROVE TypeOK'
  <2>1. doc \in Doc /\ task[t].at # "idle"
    BY <1>1, <1>11 DEF SaveMessage, Fail, NoteCancel, SaveCancelled, WorkPlaces
  <2>2. {"FAILED", "CANCELLED"} \subseteq Phases
    BY DEF Phases, Terminal
  <2>3. TasksTyped' /\ RecordsTyped'
    BY <1>2, <1>3, <1>4, <1>11, <2>1, <2>2, SaveTyped
    DEF SaveMessage, Fail, NoteCancel, SaveCancelled
  <2> QED
    BY <1>11, <2>3
    DEF SaveMessage, Fail, NoteCancel, SaveCancelled, RequestsTyped, RunnerTyped, SlotsTyped
<1>12. ASSUME Finish(t) PROVE TypeOK'
  <2>1. task[t].at # "idle" /\ task[t].job \in Job
    BY <1>1, <1>12 DEF Finish
  <2>2. TasksTyped'
    BY <1>4, <1>12, <2>1, StepTyped DEF Finish, Depart
  <2>3. RunnerTyped'
    BY <1>12, <2>1 DEF Finish, RunnerTyped
  <2> QED
    BY <1>12, <2>2, <2>3 DEF Finish, RecordsTyped, RequestsTyped, SlotsTyped
<1> QED
  BY <1>5, <1>6, <1>7, <1>8, <1>9, <1>10, <1>11, <1>12 DEF TaskStep

(* The steps that are nobody's task or request keep the types. *)
LEMMA ServiceTyped ==
  ASSUME TypeOK,
         \/ \E P \in {{"FAILED", "CANCELLED"}, Terminal} : Purge(P)
         \/ \E n \in 1..Cap : SetMax(n)
         \/ Restart
  PROVE  TypeOK'
<1> USE JobAssumption
<1> USE DEF TypeOK, vars, records, runner, slots
<1>1. ASSUME NEW P, Purge(P) PROVE TypeOK'
  <2>1. RecordsTyped'
    BY <1>1 DEF Purge, DeleteFinished, RecordsTyped
  <2> QED
    BY <1>1, <2>1 DEF Purge, TasksTyped, RequestsTyped, RunnerTyped, SlotsTyped
<1>2. ASSUME NEW n \in 1..Cap, SetMax(n) PROVE TypeOK'
  <2>1. SlotsTyped'
    BY <1>2 DEF SetMax, Gate!SetMax, Gate!Notified, Gate!Places, SlotsTyped
  <2> QED
    BY <1>2, <2>1 DEF SetMax, RecordsTyped, TasksTyped, RequestsTyped, RunnerTyped
<1>3. ASSUME Restart PROVE TypeOK'
  <2>1. \A d \in Doc : [d EXCEPT !.phase = "FAILED"] \in Doc
    BY DEF Doc, Phases, Terminal
  <2>2. RecordsTyped'
    BY <1>3, <2>1 DEF Restart, RecordsTyped
  <2>3. TasksTyped'
    <3> DEFINE stopped(t) == [task[t] EXCEPT !.at = "ended", !.doc = None]
    <3>1. task' = [t \in Task |-> IF t \in Live THEN stopped(t) ELSE task[t]]
      BY <1>3 DEF Restart
    <3>2. ASSUME NEW t \in Task
          PROVE  /\ stopped(t) \in TaskState
                 /\ stopped(t).at = "ended"
                 /\ stopped(t).job = task[t].job /\ stopped(t).kind = task[t].kind
      BY DEF TasksTyped, TaskState, TaskPlaces
    <3>3. \A t \in Live : t \in Task /\ task[t].at # "idle"
      BY DEF Live
    <3> HIDE DEF stopped
    <3>4. task' \in [Task -> TaskState]
      BY <3>1, <3>2 DEF TasksTyped
    <3>5. ASSUME NEW t \in Task
          PROVE  /\ task'[t].at # "idle" => task'[t].job \in Job /\ task'[t].kind \in Kinds
                 /\ task'[t].at \notin {"idle", "pool", "finish", "ended", "completed"}
                      => task'[t].doc \in Doc
      BY <3>1, <3>2, <3>3 DEF TasksTyped
    <3> QED BY <3>4, <3>5 DEF TasksTyped
  <2>4. RequestsTyped'
    BY <1>3 DEF Restart, RequestsTyped, Request, NoRequest, HandlerPlaces
  <2>5. RunnerTyped'
    BY <1>3 DEF Restart, RunnerTyped
  <2>6. SlotsTyped'
    BY <1>3 DEF Restart, Gate!Restart, Gate!Places, SlotsTyped
  <2>7. restarts' \in 0..MaxRestarts
    <3>1. restarts < MaxRestarts /\ restarts' = restarts + 1
      BY <1>3 DEF Restart
    <3> QED BY <3>1
  <2> QED BY <2>2, <2>3, <2>4, <2>5, <2>6, <2>7
<1> QED BY <1>1, <1>2, <1>3

(* Every record is a complete document, and whoever works on a job has a   *)
(* complete copy of one: no path uses a record that is not there.          *)
THEOREM TypeCorrect == Spec => []TypeOK
<1>1. TypeOK /\ [Next]_vars => TypeOK'
  <2>1. ASSUME TypeOK, UNCHANGED vars PROVE TypeOK'
    BY <2>1
    DEF vars, records, runner, slots, TypeOK, RecordsTyped, TasksTyped, RequestsTyped,
        RunnerTyped, SlotsTyped
  <2> QED BY <2>1, HandlerTyped, TaskTyped, ServiceTyped DEF Next
<1> QED BY <1>1, InitTyped, PTL DEF Spec

-----------------------------------------------------------------------------
(* A step that leaves the gate alone sets the flag of some tasks or clears *)
(* it, as far as the gate is concerned.                                    *)
LEMMA FlagStep ==
  ASSUME UNCHANGED slots, Flagged \subseteq Flagged' \/ Flagged' \subseteq Flagged
  PROVE  Gate!Next
<1>1. Flagged \subseteq Task /\ Flagged' \subseteq Task
  BY DEF Flagged
<1>2. CASE Flagged \subseteq Flagged'
  <2>1. Gate!RequestCancel(Flagged')
    BY <1>2 DEF Gate!RequestCancel, slots
  <2> QED BY <1>1, <2>1 DEF Gate!Next
<1>3. CASE Flagged' \subseteq Flagged
  <2>1. Gate!ForgetCancel(Flagged \ Flagged')
    BY <1>3 DEF Gate!ForgetCancel, slots
  <2> QED BY <1>1, <2>1 DEF Gate!Next
<1> QED BY <1>2, <1>3

(* A task keeps its job. *)
LEMMA StepKeepsFlags ==
  ASSUME TasksTyped, NEW t \in Task, NEW at, NEW doc, Step(t, at, doc), UNCHANGED cancelReq
  PROVE  Flagged' = Flagged
  BY DEF TasksTyped, TaskState, Step, Flagged

(* A new task can only add to the flagged ones. *)
LEMMA EnqueueKeepsFlags ==
  ASSUME TasksTyped, RunnerTyped, NEW kind \in Kinds, NEW j \in Job, Enqueue(kind, j),
         UNCHANGED cancelReq
  PROVE  Flagged \subseteq Flagged'
<1>1. None \notin cancelReq
  BY JobAssumption DEF RunnerTyped
<1> QED BY <1>1 DEF TasksTyped, TaskState, Enqueue, Flagged, NoTask

(* What requests do to the gate. *)
LEMMA HandlerGate ==
  ASSUME TypeOK, NEW h \in Handler, HandlerStep(h)
  PROVE  Gate!Next
<1> USE DEF TypeOK, vars, records, runner, slots
<1>1. UNCHANGED slots
  BY DEF HandlerStep, CreateBegin, CancelRead, FinalizeRead, FinishRead, CreatePut, Submit,
         CancelTest, CancelFlag, CancelNote, CleanupPut, CleanupSubmit, FinalizeTest,
         FinalizePut, FinalizeSubmit, FinishPut
<1>2. CASE CancelFlag(h)
  <2>1. Flagged \subseteq Flagged'
    BY <1>2 DEF CancelFlag, Flagged
  <2> QED BY <1>1, <2>1, FlagStep
<1>3. CASE Submit(h) \/ CleanupSubmit(h) \/ FinalizeSubmit(h)
  <2>1. handler[h].job \in Job
    BY <1>3 DEF Submit, CleanupSubmit, FinalizeSubmit, RequestsTyped
  <2>2. PICK kind \in Kinds : Enqueue(kind, handler[h].job)
    BY <1>3 DEF Submit, CleanupSubmit, FinalizeSubmit, Kinds
  <2>3. UNCHANGED cancelReq
    BY <1>3 DEF Submit, CleanupSubmit, FinalizeSubmit
  <2> QED BY <1>1, <2>1, <2>2, <2>3, EnqueueKeepsFlags, FlagStep
<1>4. CASE ~(CancelFlag(h) \/ Submit(h) \/ CleanupSubmit(h) \/ FinalizeSubmit(h))
  <2>1. UNCHANGED <<task, cancelReq>>
    BY <1>4
    DEF HandlerStep, CreateBegin, CancelRead, FinalizeRead, FinishRead, CreatePut, CancelTest,
        CancelNote, CleanupPut, FinalizeTest, FinalizePut, FinishPut
  <2>2. Flagged' = Flagged
    BY <2>1 DEF Flagged
  <2> QED BY <1>1, <2>2, FlagStep
<1> QED BY <1>2, <1>3, <1>4

(* What tasks do to the gate. *)
LEMMA TaskGate ==
  ASSUME TypeOK, NEW t \in Task, TaskStep(t)
  PROVE  Gate!Next
<1> USE DEF TypeOK, vars, records, runner, slots
<1>1. CASE \/ Gate!Arrive(t) \/ Gate!Take(t) \/ Gate!GiveUp(t) \/ Gate!Sleep(t)
           \/ Gate!Timeout(t) \/ Gate!Release(t)
  BY <1>1 DEF Gate!Next, Gate!Look
<1>2. CASE Finish(t)
  <2>1. Flagged' \subseteq Flagged
    BY <1>2 DEF Finish, Depart, Step, Flagged, TasksTyped, TaskState
  <2>2. UNCHANGED slots
    BY <1>2 DEF Finish
  <2> QED BY <2>1, <2>2, FlagStep
<1>3. CASE /\ ~Finish(t)
           /\ ~(\/ Gate!Arrive(t) \/ Gate!Take(t) \/ Gate!GiveUp(t) \/ Gate!Sleep(t)
                \/ Gate!Timeout(t) \/ Gate!Release(t))
  <2>1. /\ UNCHANGED slots /\ UNCHANGED cancelReq
        /\ \E at, doc : Step(t, at, doc)
    BY <1>3
    DEF TaskStep, Start, WaitForSlot, Wake, TakeSlot, GiveUpSlot, Provision, Launch, Recorded,
        HandOver, Export, Copied, Finalize, Serve, Complete, SaveMessage, Fail, Cancelled,
        NoteCancel, TearDown, SaveCancelled, ReleaseSlot, Save
  <2>2. Flagged' = Flagged
    BY <2>1, StepKeepsFlags
  <2> QED BY <2>1, <2>2, FlagStep
<1> QED BY <1>1, <1>2, <1>3

(* The runner uses its slots as SlotGate specifies, whatever requests,     *)
(* cancellations, failures and restarts do.                                *)
THEOREM ImplementsGate == Spec => UsesGate
<1>1. Init => Gate!Init
  BY DEF Init
<1>2. TypeOK /\ [Next]_vars => [Gate!Next]_(Gate!vars)
  <2> SUFFICES ASSUME TypeOK, [Next]_vars PROVE [Gate!Next]_(Gate!vars)
    OBVIOUS
  <2>1. ASSUME NEW P, Purge(P) PROVE Gate!Next
    BY <2>1, FlagStep DEF Purge, Flagged, records, runner, slots
  <2>2. ASSUME NEW n \in 1..Cap, SetMax(n) PROVE Gate!Next
    BY <2>2 DEF SetMax, Gate!Next
  <2>3. CASE Restart
    BY <2>3 DEF Restart, Gate!Next
  <2>4. CASE UNCHANGED vars
    BY <2>4, FlagStep DEF vars, records, runner, slots, Flagged
  <2> QED BY <2>1, <2>2, <2>3, <2>4, HandlerGate, TaskGate DEF Next
<1> QED BY <1>1, <1>2, TypeCorrect, PTL DEF Spec, UsesGate, Gate!Spec

-----------------------------------------------------------------------------
(* The jobs and their records. *)

(* What a step of a task leaves as it is. *)
LEMMA StepFacts ==
  ASSUME TasksTyped, NEW t \in Task, NEW at, NEW doc, Step(t, at, doc)
  PROVE  /\ task'[t].at = at /\ task'[t].doc = doc
         /\ task'[t].job = task[t].job /\ task'[t].kind = task[t].kind
         /\ \A u \in Task : u # t => task'[u] = task[u]
  BY DEF TasksTyped, TaskState, Step

(* A live task that goes to another place among those of the live. *)
LEMMA StepLive ==
  ASSUME TasksTyped, NEW t \in Live, NEW at, NEW doc, Step(t, at, doc),
         at \notin {"idle", "ended", "completed"}
  PROVE  /\ Live' = Live
         /\ \A u \in Task : task'[u].job = task[u].job /\ task'[u].kind = task[u].kind
<1>1. t \in Task
  BY DEF Live
<1>2. /\ task'[t].at = at
      /\ \A u \in Task : /\ task'[u].job = task[u].job /\ task'[u].kind = task[u].kind
                         /\ u # t => task'[u] = task[u]
  BY <1>1, StepFacts
<1> QED BY <1>1, <1>2 DEF Live

(* A new task. *)
LEMMA EnqueueFacts ==
  ASSUME TasksTyped, NEW kind, NEW j, Enqueue(kind, j)
  PROVE  \E t \in Task :
           /\ t \notin Live /\ Live' = Live \cup {t}
           /\ task'[t] = [kind |-> kind, job |-> j, at |-> "pool", doc |-> None]
           /\ \A u \in Task : u # t => task'[u] = task[u]
<1>1. PICK t \in Task :
        /\ task[t] = NoTask
        /\ task' = [task EXCEPT ![t] = [kind |-> kind, job |-> j, at |-> "pool", doc |-> None]]
  BY DEF Enqueue
<1>2. /\ task'[t] = [kind |-> kind, job |-> j, at |-> "pool", doc |-> None]
      /\ \A u \in Task : u # t => task'[u] = task[u]
  BY <1>1 DEF TasksTyped
<1>3. task[t].at = "idle" /\ task'[t].at = "pool"
  BY <1>1, <1>2 DEF NoTask
<1>4. t \notin Live /\ Live' = Live \cup {t}
  BY <1>2, <1>3 DEF Live
<1> QED BY <1>2, <1>4

(* A request in flight changes its own state only. *)
LEMMA GotoFacts ==
  ASSUME RequestsTyped, NEW h \in Handler, NEW at, Goto(h, at)
  PROVE  /\ handler'[h].at = at /\ handler'[h].job = handler[h].job
         /\ handler'[h].doc = handler[h].doc /\ handler'[h].sess = handler[h].sess
         /\ \A g \in Handler : g # h => handler'[g] = handler[g]
  BY DEF RequestsTyped, Request, Goto

LEMMA AnswerFacts ==
  ASSUME RequestsTyped, NEW h \in Handler, Answer(h)
  PROVE  /\ handler'[h].at = "idle"
         /\ \A g \in Handler : g # h => handler'[g] = handler[g]
  BY DEF RequestsTyped, Request, Answer, NoRequest

(* A request that begins. *)
LEMMA BeginFacts ==
  ASSUME RequestsTyped, NEW h \in Handler, NEW r, handler' = [handler EXCEPT ![h] = r]
  PROVE  handler'[h] = r /\ \A g \in Handler : g # h => handler'[g] = handler[g]
  BY DEF RequestsTyped

-----------------------------------------------------------------------------
(* The bookkeeping. *)

(* Nothing of it changes. *)
LEMMA BookFrame ==
  ASSUME RunningIsLive, OneLiveTask, PinsFollowTasks,
         Live' = Live, UNCHANGED <<running, jobSession, pins>>,
         \A u \in Task : task'[u].job = task[u].job /\ task'[u].kind = task[u].kind
  PROVE  RunningIsLive' /\ OneLiveTask' /\ PinsFollowTasks'
<1>1. \A u \in Live : task'[u].job = task[u].job /\ task'[u].kind = task[u].kind
  BY DEF Live
<1>2. RunningIsLive' /\ OneLiveTask'
  BY <1>1 DEF RunningIsLive, OneLiveTask
<1>3. \A j : OnJob(j)' = OnJob(j)
  BY <1>1 DEF OnJob
<1>4. PinsFollowTasks'
  BY <1>1, <1>3 DEF PinsFollowTasks
<1> QED BY <1>2, <1>4

(* A task is added to a job that nobody works on; jobs and sessions other  *)
(* than its own keep what they have.                                       *)
LEMMA BookEnqueue ==
  ASSUME TypeOK, RunningIsLive, OneLiveTask, PinsFollowTasks,
         NEW j \in Job, NEW kind \in Kinds, Enqueue(kind, j),
         \A t \in Live : task[t].job # j,
         running' = running \cup {j},
         \/ UNCHANGED <<jobSession, pins>> /\ kind # "run"
         \/ \E s \in Session : Pin(j, s)
  PROVE  RunningIsLive' /\ OneLiveTask' /\ PinsFollowTasks'
<1>1. PICK t \in Task :
           /\ t \notin Live /\ Live' = Live \cup {t}
           /\ task'[t] = [kind |-> kind, job |-> j, at |-> "pool", doc |-> None]
           /\ \A u \in Task : u # t => task'[u] = task[u]
  BY EnqueueFacts DEF TypeOK
<1>2. task'[t].job = j /\ task'[t].kind = kind
  BY <1>1
<1>3. \A u \in Live : u \in Task /\ task'[u] = task[u]
  BY <1>1 DEF Live
<1>4. RunningIsLive'
  BY <1>1, <1>2, <1>3 DEF RunningIsLive
<1>5. OneLiveTask'
  BY <1>1, <1>2, <1>3 DEF OneLiveTask
<1>6. PinsFollowTasks'
  <2>1. \A s \in Session : j \notin pins[s]
    BY DEF PinsFollowTasks, OnJob
  <2>2. \A k : OnJob(k) # {} => OnJob(k)' # {}
    BY <1>1, <1>3 DEF OnJob
  <2>3. OnJob(j)' # {}
    BY <1>1, <1>2 DEF OnJob
  <2>4. /\ jobSession \in [Job -> Session \cup {None}]
        /\ pins \in [Session -> SUBSET Job]
        /\ \A u \in Live : task[u].job \in Job
        /\ None \notin Session
    BY JobAssumption DEF TypeOK, RunnerTyped, TasksTyped, Live
  <2>5. CASE UNCHANGED <<jobSession, pins>> /\ kind # "run"
    BY <1>1, <1>2, <1>3, <2>1, <2>2, <2>5 DEF PinsFollowTasks
  <2>6. ASSUME NEW s \in Session, Pin(j, s) PROVE PinsFollowTasks'
    <3>1. /\ jobSession'[j] = s /\ \A k \in Job \ {j} : jobSession'[k] = jobSession[k]
          /\ pins'[s] = pins[s] \cup {j} /\ \A r \in Session \ {s} : pins'[r] = pins[r]
      BY <2>4, <2>6 DEF Pin
    <3>2. ASSUME NEW u \in Live', task'[u].kind = "run"
          PROVE  /\ jobSession'[task'[u].job] # None
                 /\ task'[u].job \in pins'[jobSession'[task'[u].job]]
      <4>1. CASE u = t
        BY <1>2, <2>4, <3>1, <4>1
      <4>2. CASE u # t
        <5>1. /\ u \in Live /\ task'[u] = task[u] /\ task[u].job # j /\ task[u].job \in Job
              /\ jobSession[task[u].job] # None
              /\ task[u].job \in pins[jobSession[task[u].job]]
          BY <1>1, <1>3, <2>4, <3>2, <4>2 DEF PinsFollowTasks
        <5>2. jobSession[task[u].job] \in Session
          BY <2>4, <5>1
        <5> QED BY <3>1, <5>1, <5>2
      <4> QED BY <4>1, <4>2
    <3>3. ASSUME NEW r \in Session, NEW k \in pins'[r]
          PROVE  jobSession'[k] = r /\ OnJob(k)' # {}
      <4>1. CASE k = j
        BY <2>1, <2>3, <3>1, <3>3, <4>1
      <4>2. CASE k # j
        <5>1. k \in pins[r] /\ k \in Job
          BY <2>4, <3>1, <3>3, <4>2
        <5> QED BY <2>2, <3>1, <4>2, <5>1 DEF PinsFollowTasks
      <4> QED BY <4>1, <4>2
    <3> QED BY <3>2, <3>3 DEF PinsFollowTasks
  <2> QED BY <2>5, <2>6
<1> QED BY <1>4, <1>5, <1>6

(* A task that leaves takes its job and its pin with it. *)
LEMMA BookFinish ==
  ASSUME TypeOK, RunningIsLive, OneLiveTask, PinsFollowTasks, NEW t \in Task, Finish(t)
  PROVE  RunningIsLive' /\ OneLiveTask' /\ PinsFollowTasks' /\ Live' \subseteq Live
<1> DEFINE j == task[t].job
<1>1. /\ task'[t].at \in {"ended", "completed"}
      /\ \A u \in Task : u # t => task'[u] = task[u]
  BY StepFacts DEF Finish, Depart, TypeOK
<1>2. t \in Live /\ Live' = Live \ {t} /\ \A u \in Live : u \in Task
  BY <1>1 DEF Live, Finish
<1>3. \A u \in Live' : u \in Live /\ task'[u] = task[u] /\ task[u].job # j
  BY <1>1, <1>2 DEF OneLiveTask
<1>4. \A u \in Live : u # t => u \in Live' /\ task'[u].job = task[u].job
  BY <1>1, <1>2
<1>5. RunningIsLive'
  BY <1>2, <1>3, <1>4 DEF RunningIsLive, Finish
<1>6. OneLiveTask'
  BY <1>3 DEF OneLiveTask
<1>7. PinsFollowTasks'
  <2>1. /\ jobSession \in [Job -> Session \cup {None}] /\ pins \in [Session -> SUBSET Job]
        /\ \A u \in Live : task[u].job \in Job
        /\ None \notin Session
    BY JobAssumption DEF TypeOK, RunnerTyped, TasksTyped, Live
  <2>2. \A k \in Job \ {j} : jobSession'[k] = jobSession[k]
    BY <2>1 DEF Finish
  <2>3. \A s \in Session : pins'[s] = pins[s] \ {j}
    BY <2>1 DEF Finish, PinsFollowTasks
  <2>4. ASSUME NEW u \in Live', task'[u].kind = "run"
        PROVE  /\ jobSession'[task'[u].job] # None
               /\ task'[u].job \in pins'[jobSession'[task'[u].job]]
    <3>1. /\ u \in Live /\ task'[u] = task[u] /\ task[u].job \in Job \ {j}
          /\ jobSession[task[u].job] # None /\ task[u].job \in pins[jobSession[task[u].job]]
      BY <1>3, <2>1, <2>4 DEF PinsFollowTasks
    <3> QED BY <2>1, <2>2, <2>3, <3>1
  <2>5. ASSUME NEW s \in Session, NEW k \in pins'[s]
        PROVE  jobSession'[k] = s /\ OnJob(k)' # {}
    <3>1. k \in pins[s] /\ k # j /\ k \in Job
      BY <2>1, <2>3, <2>5
    <3>2. jobSession[k] = s /\ OnJob(k) # {}
      BY <3>1 DEF PinsFollowTasks
    <3>3. OnJob(k)' # {}
      BY <1>4, <3>1, <3>2 DEF OnJob
    <3> QED BY <2>2, <3>1, <3>2, <3>3
  <2> QED BY <2>4, <2>5 DEF PinsFollowTasks
<1> QED BY <1>2, <1>5, <1>6, <1>7

(* But for Finish, a step of a task only moves that task. *)
LEMMA TaskMoves ==
  ASSUME TypeOK, NEW t \in Task, TaskStep(t), ~Finish(t)
  PROVE  /\ UNCHANGED <<handler, runner>>
         /\ \/ UNCHANGED task
            \/ /\ t \in Live
               /\ \E at, doc : Step(t, at, doc) /\ at \notin {"idle", "ended", "completed"}
<1> USE DEF TypeOK, runner
<1>1. CASE Start(t)
  BY <1>1 DEF Start, FirstPlace, Live, TasksTyped, Kinds
<1>2. CASE WaitForSlot(t) \/ Wake(t) \/ TakeSlot(t) \/ GiveUpSlot(t) \/ ReleaseSlot(t)
  BY <1>2 DEF WaitForSlot, Wake, TakeSlot, GiveUpSlot, ReleaseSlot, Save, Live
<1>3. CASE Provision(t) \/ Launch(t) \/ Recorded(t) \/ HandOver(t) \/ Export(t) \/ Copied(t)
           \/ Finalize(t)
  BY <1>3 DEF Provision, Launch, Recorded, HandOver, Export, Copied, Finalize, Save, Live
<1>4. CASE Serve(t) \/ Complete(t) \/ SaveMessage(t) \/ Fail(t) \/ Cancelled(t) \/ NoteCancel(t)
           \/ TearDown(t) \/ SaveCancelled(t)
  BY <1>4 DEF Serve, Complete, SaveMessage, Fail, Cancelled, NoteCancel, TearDown, SaveCancelled,
              Save, Ending, Live, WorkPlaces
<1> QED BY <1>1, <1>2, <1>3, <1>4 DEF TaskStep

(* The tasks keep the books. *)
LEMMA TaskBook ==
  ASSUME TypeOK, BookInv, NEW t \in Task, TaskStep(t)
  PROVE  BookInv'
<1>1. CASE Finish(t)
  <2>1. RunningIsLive' /\ OneLiveTask' /\ PinsFollowTasks' /\ Live' \subseteq Live
    BY <1>1, BookFinish DEF BookInv
  <2>2. \A u \in Live : task'[u].job = task[u].job
    BY <1>1, StepFacts DEF Finish, Depart, TypeOK, Live
  <2>3. UNCHANGED handler
    BY <1>1 DEF Finish
  <2> QED BY <2>1, <2>2, <2>3 DEF BookInv, RequestsFree
<1>2. CASE ~Finish(t)
  <2>1. /\ Live' = Live
        /\ \A u \in Task : task'[u].job = task[u].job /\ task'[u].kind = task[u].kind
    <3>1. CASE UNCHANGED task
      BY <3>1 DEF Live
    <3>2. CASE ~UNCHANGED task
      BY <1>2, <3>2, TaskMoves, StepLive DEF TypeOK
    <3> QED BY <3>1, <3>2
  <2>2. UNCHANGED <<handler, running, jobSession, pins>>
    BY <1>2, TaskMoves DEF runner
  <2>3. RunningIsLive' /\ OneLiveTask' /\ PinsFollowTasks'
    BY <2>1, <2>2, BookFrame DEF BookInv
  <2>4. RequestsFree'
    BY <2>1, <2>2 DEF BookInv, RequestsFree, Live
  <2> QED BY <2>3, <2>4 DEF BookInv
<1> QED BY <1>1, <1>2

(* The requests that do not hand anything to the pool move themselves only. *)
LEMMA RequestMoves ==
  ASSUME TypeOK, NEW h \in Handler, HandlerStep(h),
         ~(Submit(h) \/ CleanupSubmit(h) \/ FinalizeSubmit(h))
  PROVE  /\ UNCHANGED <<task, running, jobSession, pins, cloud>>
         /\ \A g \in Handler : g # h => handler'[g] = handler[g]
<1> USE DEF TypeOK, records, runner, slots
<1>1. ASSUME NEW j \in Job, \/ CreateBegin(h, j) \/ CancelRead(h, j) \/ FinalizeRead(h, j)
                            \/ FinishRead(h, j)
      PROVE  /\ UNCHANGED <<task, running, jobSession, pins, cloud>>
             /\ \A g \in Handler : g # h => handler'[g] = handler[g]
  BY <1>1, BeginFacts DEF CreateBegin, CancelRead, FinalizeRead, FinishRead
<1>2. CASE \/ CreatePut(h) \/ CancelTest(h) \/ CancelFlag(h) \/ CancelNote(h)
           \/ CleanupPut(h) \/ FinalizeTest(h) \/ FinalizePut(h) \/ FinishPut(h)
  BY <1>2, GotoFacts, AnswerFacts
  DEF CreatePut, CancelTest, CancelFlag, CancelNote, CleanupPut, FinalizeTest, FinalizePut,
      FinishPut
<1> QED BY <1>1, <1>2 DEF HandlerStep

(* A request that moves on towards the pool has found its job free. *)
LEMMA RequestFree ==
  ASSUME TypeOK, BookInv, NEW h \in Handler, HandlerStep(h),
         ~(Submit(h) \/ CleanupSubmit(h) \/ FinalizeSubmit(h))
  PROVE  /\ handler'[h].at \in {"create", "submit", "clean", "cleanup", "fput", "finalize"} =>
              \A t \in Live : task[t].job # handler'[h].job
         /\ handler'[h].at \in {"create", "submit"} =>
              (handler'[h].sess = None <=> handler'[h].job \in IsoJob)
<1> USE DEF TypeOK, BookInv
<1>1. ASSUME NEW j \in Job, CreateBegin(h, j)
      PROVE  /\ \A t \in Live : task[t].job # handler'[h].job
             /\ handler'[h].sess = None <=> handler'[h].job \in IsoJob
  <2>1. PICK s \in (IF j \in IsoJob THEN {None} ELSE Session) :
          handler' = [handler EXCEPT ![h] = [at |-> "create", job |-> j, doc |-> None, sess |-> s]]
    BY <1>1 DEF CreateBegin
  <2>2. handler'[h].job = j /\ handler'[h].sess = s
    BY <2>1 DEF RequestsTyped
  <2> QED BY <1>1, <2>1, <2>2, JobAssumption DEF CreateBegin, Fresh, Live
<1>2. ASSUME NEW j \in Job, \/ CancelRead(h, j) \/ FinalizeRead(h, j) \/ FinishRead(h, j)
      PROVE  handler'[h].at \in {"test", "ftest", "complete"}
  BY <1>2, BeginFacts DEF CancelRead, FinalizeRead, FinishRead
<1>3. CASE CreatePut(h) \/ CleanupPut(h) \/ FinalizePut(h)
  BY <1>3, GotoFacts, AnswerFacts DEF CreatePut, CleanupPut, FinalizePut, RequestsFree
<1>4. CASE CancelTest(h) \/ FinalizeTest(h)
  <2>1. \A t \in Live : task[t].job \in running
    BY DEF RunningIsLive
  <2> QED BY <1>4, <2>1, GotoFacts, AnswerFacts DEF CancelTest, FinalizeTest
<1>5. CASE CancelFlag(h) \/ CancelNote(h) \/ FinishPut(h)
  BY <1>5, GotoFacts, AnswerFacts DEF CancelFlag, CancelNote, FinishPut
<1> QED BY <1>1, <1>2, <1>3, <1>4, <1>5 DEF HandlerStep

(* The requests keep the books. *)
LEMMA HandlerBook ==
  ASSUME TypeOK, BookInv, RequestsApart, NEW h \in Handler, HandlerStep(h)
  PROVE  BookInv'
<1> USE DEF TypeOK, BookInv, records, runner, slots
<1>1. CASE Submit(h) \/ CleanupSubmit(h) \/ FinalizeSubmit(h)
  <2> DEFINE j == handler[h].job
  <2>1. /\ j \in Job /\ handler[h].at \in {"submit", "cleanup", "finalize"}
        /\ handler[h].sess \in Session \cup {None}
        /\ running' = running \cup {j} /\ Answer(h)
    BY <1>1 DEF Submit, CleanupSubmit, FinalizeSubmit, RequestsTyped, Request
  <2>2. \A t \in Live : task[t].job # j
    BY <2>1 DEF RequestsFree
  <2>3. PICK kind \in Kinds :
          /\ Enqueue(kind, j)
          /\ \/ UNCHANGED <<jobSession, pins>> /\ kind # "run"
             \/ \E s \in Session : Pin(j, s)
    <3>1. CASE Submit(h)
      BY <2>1, <3>1 DEF Submit, RequestsFree, Kinds
    <3>2. CASE CleanupSubmit(h) \/ FinalizeSubmit(h)
      BY <3>2 DEF CleanupSubmit, FinalizeSubmit, Kinds
    <3> QED BY <1>1, <3>1, <3>2
  <2>4. RunningIsLive' /\ OneLiveTask' /\ PinsFollowTasks'
    BY <2>1, <2>2, <2>3, BookEnqueue
  <2>5. handler'[h].at = "idle" /\ \A g \in Handler : g # h => handler'[g] = handler[g]
    BY <2>1, AnswerFacts
  <2>6. \A g \in Handler : g # h /\ handler[g].at # "idle" => handler[g].job # j
    BY <2>1 DEF RequestsApart
  <2>7. PICK t \in Task :
           /\ t \notin Live /\ Live' = Live \cup {t}
           /\ task'[t] = [kind |-> kind, job |-> j, at |-> "pool", doc |-> None]
           /\ \A u \in Task : u # t => task'[u] = task[u]
    BY <2>3, EnqueueFacts
  <2>8. \A u \in Live' : u \in Task /\ (task'[u].job = j \/ (u \in Live /\ task'[u] = task[u]))
    BY <2>7 DEF Live
  <2>9. RequestsFree'
    BY <2>5, <2>6, <2>8 DEF RequestsFree
  <2> QED BY <2>4, <2>9
<1>2. CASE ~(Submit(h) \/ CleanupSubmit(h) \/ FinalizeSubmit(h))
  <2>1. /\ UNCHANGED <<task, running, jobSession, pins>>
        /\ \A g \in Handler : g # h => handler'[g] = handler[g]
    BY <1>2, RequestMoves
  <2>2. Live' = Live
    BY <2>1 DEF Live
  <2>3. RunningIsLive' /\ OneLiveTask' /\ PinsFollowTasks'
    BY <2>1, <2>2, BookFrame
  <2>4. RequestsFree'
    BY <1>2, <2>1, <2>2, RequestFree DEF RequestsFree
  <2> QED BY <2>3, <2>4
<1> QED BY <1>1, <1>2

(* Neither does a purge, a new limit or a restart disturb them. *)
LEMMA ServiceBook ==
  ASSUME TypeOK, BookInv,
         \/ \E P \in {{"FAILED", "CANCELLED"}, Terminal} : Purge(P)
         \/ \E n \in 1..Cap : SetMax(n)
         \/ Restart
  PROVE  BookInv'
<1>1. ASSUME UNCHANGED <<task, handler, runner>> PROVE BookInv'
  BY <1>1 DEF runner, BookInv, RunningIsLive, OneLiveTask, PinsFollowTasks, RequestsFree, Live,
              OnJob
<1>2. CASE Restart
  <2>1. Live' = {}
    <3>1. ASSUME NEW t \in Task PROVE task'[t].at \in {"idle", "ended", "completed"}
      BY <1>2 DEF Restart, Live, TypeOK, TasksTyped, TaskState
    <3> QED BY <3>1 DEF Live
  <2>2. /\ running' = {} /\ \A s \in Session : pins'[s] = {}
        /\ \A h \in Handler : handler'[h].at = "idle"
    BY <1>2 DEF Restart, NoRequest
  <2> QED BY <2>1, <2>2 DEF BookInv, RunningIsLive, OneLiveTask, PinsFollowTasks, RequestsFree
<1> QED BY <1>1, <1>2 DEF Purge, SetMax

LEMMA BookStep ==
  ASSUME TypeOK, BookInv, RequestsApart, [Next]_vars
  PROVE  BookInv'
<1>1. CASE UNCHANGED vars
  BY <1>1 DEF vars, runner, BookInv, RunningIsLive, OneLiveTask, PinsFollowTasks, RequestsFree,
              Live, OnJob
<1> QED BY <1>1, HandlerBook, TaskBook, ServiceBook DEF Next

LEMMA BookInit == ASSUME Init PROVE BookInv
<1>1. Live = {}
  BY DEF Init, Live, NoTask
<1> QED
  BY <1>1 DEF Init, NoRequest, BookInv, RunningIsLive, OneLiveTask, PinsFollowTasks, RequestsFree

(* Tasks that never share a job are at most one for each. *)
LEMMA OneIsOne == ASSUME OneLiveTask PROVE OneTaskPerJob
<1> SUFFICES ASSUME NEW j \in Job PROVE Cardinality(OnJob(j)) <= 1
  BY DEF OneTaskPerJob
<1>1. CASE OnJob(j) = {}
  BY <1>1, FS_EmptySet
<1>2. ASSUME NEW t \in OnJob(j) PROVE Cardinality(OnJob(j)) <= 1
  <2>1. OnJob(j) = {t}
    BY <1>2 DEF OnJob, OneLiveTask
  <2>2. Cardinality({t}) = 1
    BY FS_Singleton
  <2> QED BY <2>1, <2>2
<1> QED BY <1>1, <1>2

LEMMA BookHolds == Spec /\ []RequestsApart => []BookInv
  BY BookInit, BookStep, TypeCorrect, PTL DEF Spec

(* Whatever requests overlap, a job that the runner takes for running has  *)
(* a thread that will let go of it.                                        *)
THEOREM RunningHandled == Spec => []RunningHasTask
<1>1. Init => RunningHasTask
  BY DEF Init, RunningHasTask
<1>2. ASSUME TypeOK, RunningHasTask, NEW h \in Handler, HandlerStep(h) PROVE RunningHasTask'
  <2>1. CASE Submit(h) \/ CleanupSubmit(h) \/ FinalizeSubmit(h)
    <3>1. PICK kind : Enqueue(kind, handler[h].job)
      BY <2>1 DEF Submit, CleanupSubmit, FinalizeSubmit
    <3>2. PICK t \in Task :
             /\ t \notin Live /\ Live' = Live \cup {t}
             /\ task'[t] = [kind |-> kind, job |-> handler[h].job, at |-> "pool", doc |-> None]
             /\ \A u \in Task : u # t => task'[u] = task[u]
      BY <1>2, <3>1, EnqueueFacts DEF TypeOK
    <3>3. \A u \in Live : u \in Live' /\ task'[u].job = task[u].job
      BY <3>2 DEF Live
    <3>4. task'[t].job = handler[h].job
      BY <3>2
    <3>5. running' = running \cup {handler[h].job}
      BY <2>1 DEF Submit, CleanupSubmit, FinalizeSubmit
    <3> QED BY <1>2, <3>2, <3>3, <3>4, <3>5 DEF RunningHasTask
  <2>2. CASE ~(Submit(h) \/ CleanupSubmit(h) \/ FinalizeSubmit(h))
    BY <1>2, <2>2, RequestMoves DEF RunningHasTask, Live
  <2> QED BY <2>1, <2>2
<1>3. ASSUME TypeOK, RunningHasTask, NEW t \in Task, TaskStep(t) PROVE RunningHasTask'
  <2>1. CASE Finish(t)
    <3>1. /\ running' = running \ {task[t].job}
          /\ \A u \in Task : u # t => task'[u] = task[u]
      BY <1>3, <2>1, StepFacts DEF Finish, Depart, TypeOK
    <3>2. \A u \in Live : task[u].job # task[t].job => u \in Live' /\ task'[u].job = task[u].job
      BY <3>1 DEF Live
    <3> QED BY <1>3, <3>1, <3>2 DEF RunningHasTask
  <2>2. CASE ~Finish(t)
    <3>1. UNCHANGED running
      BY <1>3, <2>2, TaskMoves DEF runner
    <3>2. Live' = Live /\ \A u \in Live : task'[u].job = task[u].job
      <4>1. CASE UNCHANGED task
        BY <4>1 DEF Live
      <4>2. CASE ~UNCHANGED task
        BY <1>3, <2>2, <4>2, TaskMoves, StepLive DEF TypeOK, Live
      <4> QED BY <4>1, <4>2
    <3> QED BY <1>3, <3>1, <3>2 DEF RunningHasTask
  <2> QED BY <2>1, <2>2
<1>4. ASSUME RunningHasTask, UNCHANGED <<task, running>> PROVE RunningHasTask'
  BY <1>4 DEF RunningHasTask, Live
<1>5. ASSUME Restart PROVE RunningHasTask'
  BY <1>5 DEF Restart, RunningHasTask
<1>6. ASSUME NEW P, Purge(P) PROVE UNCHANGED <<task, running>>
  BY <1>6 DEF Purge, runner
<1>7. ASSUME NEW n, SetMax(n) PROVE UNCHANGED <<task, running>>
  BY <1>7 DEF SetMax, runner
<1>8. UNCHANGED vars => UNCHANGED <<task, running>>
  BY DEF vars, runner
<1>9. TypeOK /\ RunningHasTask /\ [Next]_vars => RunningHasTask'
  BY <1>2, <1>3, <1>4, <1>5, <1>6, <1>7, <1>8 DEF Next
<1> QED BY <1>1, <1>9, TypeCorrect, PTL DEF Spec

(* The runner takes for running exactly the jobs that a thread has in      *)
(* hand, one thread each, and pins the session of each migration until it  *)
(* is over, whatever fails, is cancelled, purged or restarted.             *)
THEOREM BooksAgree == Spec /\ []RequestsApart => []BookkeepingAgrees
<1>1. BookInv => BookkeepingAgrees
  BY OneIsOne DEF BookInv, BookkeepingAgrees
<1> QED BY <1>1, BookHolds, PTL

-----------------------------------------------------------------------------
(* The records. *)

(* A claim on a machine stands on an open record. *)
LEMMA ClaimsOpen ==
  ASSUME TypeOK, WorkIsOpen, CopiesHarmless, NEW j \in Claims
  PROVE  j \in Job /\ store[j] # None /\ ~Settled(store[j])
<1>1. CASE \E h \in Handler : handler[h].at = "submit" /\ handler[h].job = j
  BY <1>1 DEF CopiesHarmless, TypeOK, RequestsTyped
<1>2. CASE \E t \in AtWork : task[t].job = j
  BY <1>2 DEF WorkIsOpen, AtWork, Live, TypeOK, TasksTyped
<1> QED BY <1>1, <1>2 DEF Claims

(* What a step of a task has to see to, so that the others need not care.  *)
LEMMA TaskKeepsRecords ==
  ASSUME TypeOK, BookInv, RecordInv, NEW t \in Live, NEW at, NEW doc, Step(t, at, doc),
         at \notin {"idle", "ended", "completed"}, UNCHANGED handler,
         \A k \in Job : k # task[t].job => store'[k] = store[k] /\ cloud'[k] = cloud[k],
         t \in AtWork' => /\ t \in AtWork
                          /\ store'[task[t].job] # None /\ ~Settled(store'[task[t].job])
                          /\ ~Settled(doc),
         task[t].job \notin IsoJob /\ at \notin {"saved", "release", "finish"} =>
           ~Done(store'[task[t].job]) /\ ~Done(doc),
         at \in {"served", "saved"} => cloud'[task[t].job] = "serving",
         task[t].job \notin IsoJob /\ Done(store'[task[t].job]) => cloud'[task[t].job] = "serving"
  PROVE  RecordInv'
<1> DEFINE j == task[t].job
<1>1. t \in Task /\ j \in Job
  BY DEF Live, TypeOK, TasksTyped
<1>2. /\ task'[t].at = at /\ task'[t].doc = doc
      /\ \A u \in Task : /\ task'[u].job = task[u].job /\ task'[u].kind = task[u].kind
                         /\ u # t => task'[u] = task[u]
      /\ Live' = Live
  BY <1>1, StepFacts, StepLive DEF TypeOK
<1>3. \A u \in Live : u \in Task /\ task[u].job \in Job /\ (u # t => task[u].job # j)
  BY DEF BookInv, OneLiveTask, Live, TypeOK, TasksTyped
<1>4. AtWork' \subseteq AtWork /\ AtWork \subseteq Live
  BY <1>2, <1>3 DEF AtWork
<1>5. WorkIsOpen'
  <2>1. ASSUME NEW u \in AtWork'
        PROVE  /\ store'[task'[u].job] # None
               /\ ~Settled(store'[task'[u].job])
               /\ ~Settled(task'[u].doc)
    <3>1. CASE u = t
      BY <1>2, <1>1, <2>1, <3>1
    <3>2. CASE u # t
      BY <1>2, <1>3, <1>4, <2>1, <3>2 DEF RecordInv, WorkIsOpen
    <3> QED BY <3>1, <3>2
  <2> QED BY <2>1 DEF WorkIsOpen, Settled
<1>6. CopiesHarmless'
  <2>1. ASSUME NEW h \in Handler, handler[h].at \in {"submit", "cleanup", "finalize"}
        PROVE  handler[h].job # j /\ handler[h].job \in Job
    BY <1>3, <2>1 DEF BookInv, RequestsFree, TypeOK, RequestsTyped
  <2>2. \A h \in Handler : handler[h].at \in {"submit", "cleanup", "finalize"} =>
          store'[handler[h].job] = store[handler[h].job]
    BY <2>1
  <2>3. \A u \in AtWork' : task'[u].job = task[u].job
    BY <1>2, <1>3, <1>4
  <2> QED BY <1>4, <2>2, <2>3 DEF RecordInv, CopiesHarmless, Settled, Done
<1>7. BusyNotDone'
  <2>1. ASSUME NEW u \in Live, task[u].job \notin IsoJob,
               task'[u].at \notin {"saved", "release", "finish"}
        PROVE  ~Done(store'[task[u].job]) /\ ~Done(task'[u].doc)
    <3>1. CASE u = t
      BY <1>2, <2>1, <3>1
    <3>2. CASE u # t
      BY <1>2, <1>3, <2>1, <3>2 DEF RecordInv, BusyNotDone
    <3> QED BY <3>1, <3>2
  <2> QED BY <1>2, <1>3, <2>1 DEF BusyNotDone, Done
<1>8. ServedServes'
  <2>1. ASSUME NEW u \in Live, task'[u].at \in {"served", "saved"}
        PROVE  cloud'[task[u].job] = "serving"
    <3>1. CASE u = t
      BY <1>2, <2>1, <3>1
    <3>2. CASE u # t
      BY <1>2, <1>3, <2>1, <3>2 DEF RecordInv, ServedServes
    <3> QED BY <3>1, <3>2
  <2> QED BY <1>2, <1>3, <2>1 DEF ServedServes
<1>9. CompletedIsServing'
  BY DEF RecordInv, CompletedIsServing, Done
<1>10. OneClaimPerVm'
  <2>1. Claims' \subseteq Claims
    BY <1>2, <1>3, <1>4 DEF Claims
  <2> QED BY <1>2, <1>3, <2>1 DEF RecordInv, OneClaimPerVm
<1> QED BY <1>5, <1>6, <1>7, <1>8, <1>9, <1>10 DEF RecordInv

(* Nothing that the records depend on changes. *)
LEMMA RecordFrame ==
  ASSUME RecordInv, UNCHANGED <<task, handler, store, cloud>>
  PROVE  RecordInv'
  BY DEF RecordInv, WorkIsOpen, CopiesHarmless, BusyNotDone, ServedServes, CompletedIsServing,
         OneClaimPerVm, Claims, AtWork, Live, Settled, Done

(* What Put does to the records. *)
LEMMA PutFacts ==
  ASSUME RecordsTyped, NEW j \in Job, NEW doc, Put(j, doc)
  PROVE  store'[j] = doc /\ \A k \in Job : k # j => store'[k] = store[k]
  BY DEF RecordsTyped, Put

(* A task at work saves an open copy. *)
LEMMA SaveOpen ==
  ASSUME TypeOK, BookInv, RecordInv, NEW t \in Live,
         task[t].at \notin {"saved", "release", "finish"},
         NEW at, NEW doc, Save(t, at, doc), UNCHANGED <<handler, cloud>>,
         at \notin {"idle", "ended", "completed", "served", "saved", "release", "finish"},
         doc # None, t \in AtWork => ~Settled(doc),
         task[t].job \notin IsoJob => ~Done(doc)
  PROVE  RecordInv'
<1>1. t \in Task /\ task[t].job \in Job
  BY DEF Live, TypeOK, TasksTyped
<1>2. Step(t, at, doc) /\ Put(task[t].job, doc)
  BY DEF Save
<1>3. store'[task[t].job] = doc /\ \A k \in Job : k # task[t].job => store'[k] = store[k]
  BY <1>1, <1>2, PutFacts DEF TypeOK
<1>4. t \in AtWork' => t \in AtWork
  BY <1>1, <1>2, StepFacts DEF AtWork, TypeOK
<1> QED BY <1>2, <1>3, <1>4, TaskKeepsRecords

(* A task saves its last phase. *)
LEMMA SaveLast ==
  ASSUME TypeOK, BookInv, RecordInv, NEW t \in Live,
         NEW at \in {"saved", "release", "finish"}, NEW doc, Save(t, at, doc),
         UNCHANGED <<handler, cloud>>,
         Done(doc) \/ at = "saved" => cloud[task[t].job] = "serving"
  PROVE  RecordInv'
<1>1. t \in Task /\ task[t].job \in Job
  BY DEF Live, TypeOK, TasksTyped
<1>2. Step(t, at, doc) /\ Put(task[t].job, doc)
  BY DEF Save
<1>3. store'[task[t].job] = doc /\ \A k \in Job : k # task[t].job => store'[k] = store[k]
  BY <1>1, <1>2, PutFacts DEF TypeOK
<1>4. t \notin AtWork'
  BY <1>1, <1>2, StepFacts DEF AtWork, TypeOK
<1> QED BY <1>2, <1>3, <1>4, TaskKeepsRecords

(* A task goes on without a save: its copy stays, and if the instance of   *)
(* its job changes, the job is not COMPLETED or serves.                    *)
LEMMA MoveOnly ==
  ASSUME TypeOK, BookInv, RecordInv, NEW t \in Live, NEW at, Step(t, at, task[t].doc),
         at \notin {"idle", "ended", "completed", "saved"},
         task[t].at \in {"saved", "release", "finish"} => at \in {"release", "finish"},
         UNCHANGED <<handler, store>>,
         \A k \in Job : k # task[t].job => cloud'[k] = cloud[k],
         \/ UNCHANGED cloud
         \/ cloud'[task[t].job] = "serving"
         \/ task[t].at \notin {"saved", "release", "finish"},
         at = "served" => cloud'[task[t].job] = "serving"
  PROVE  RecordInv'
<1>1. t \in Task /\ task[t].job \in Job
  BY DEF Live, TypeOK, TasksTyped
<1>2. t \in AtWork' => t \in AtWork
  BY <1>1, StepFacts DEF AtWork, TypeOK
<1>3. t \in AtWork => /\ store[task[t].job] # None /\ ~Settled(store[task[t].job])
                      /\ ~Settled(task[t].doc)
  BY DEF RecordInv, WorkIsOpen
<1>4. (task[t].job \notin IsoJob /\ task[t].at \notin {"saved", "release", "finish"}) =>
        ~Done(store[task[t].job]) /\ ~Done(task[t].doc)
  BY DEF RecordInv, BusyNotDone
<1>5. (task[t].job \notin IsoJob /\ Done(store[task[t].job])) => cloud[task[t].job] = "serving"
  BY <1>1 DEF RecordInv, CompletedIsServing, Done
<1> QED BY <1>2, <1>3, <1>4, <1>5, TaskKeepsRecords

(* The task reads the record when a thread picks it up. *)
LEMMA StartRecords ==
  ASSUME TypeOK, BookInv, RecordInv, NEW t \in Task, Start(t)
  PROVE  RecordInv'
<1> DEFINE j == task[t].job
<1>1. t \in Live /\ j \in Job /\ task[t].kind \in Kinds /\ task[t].at = "pool"
  BY DEF Start, Live, TypeOK, TasksTyped
<1>2. UNCHANGED <<handler, store, cloud>>
  BY DEF Start, records
<1>3. t \in AtWork => store[j] # None /\ ~Settled(store[j])
  BY DEF RecordInv, WorkIsOpen
<1>4. j \notin IsoJob => ~Done(store[j])
  BY <1>1 DEF RecordInv, BusyNotDone
<1>5. CASE store[j] = None
  <2>1. Step(t, "finish", None)
    BY <1>5 DEF Start
  <2>2. t \notin AtWork'
    BY <2>1, <1>1, StepFacts DEF AtWork, TypeOK
  <2> QED BY <1>1, <1>2, <1>4, <1>5, <2>1, <2>2, TaskKeepsRecords DEF Done
<1>6. CASE store[j] # None
  <2>1. PICK at \in {"gate", "clean", "begin"} : Step(t, at, store[j])
    BY <1>1, <1>6 DEF Start, FirstPlace
  <2>2. t \in AtWork' => t \in AtWork
    BY <1>1, <2>1, StepFacts DEF AtWork, TypeOK
  <2> QED BY <1>1, <1>2, <1>3, <1>4, <2>1, <2>2, TaskKeepsRecords
<1> QED BY <1>5, <1>6

(* A task that leaves. *)
LEMMA FinishRecords ==
  ASSUME TypeOK, BookInv, RecordInv, NEW t \in Task, Finish(t)
  PROVE  RecordInv'
<1>1. /\ task'[t].at \in {"ended", "completed"}
      /\ \A u \in Task : u # t => task'[u] = task[u]
  BY StepFacts DEF Finish, Depart, TypeOK
<1>2. UNCHANGED <<store, cloud, handler>>
  BY DEF Finish, records
<1>3. /\ Live' \subseteq Live /\ AtWork' \subseteq AtWork
      /\ \A u \in Live' : task'[u] = task[u]
      /\ \A u \in AtWork' : task'[u] = task[u]
  BY <1>1 DEF Live, AtWork
<1>4. Claims' \subseteq Claims
  BY <1>2, <1>3 DEF Claims
<1>5. WorkIsOpen' /\ BusyNotDone' /\ ServedServes' /\ CompletedIsServing' /\ OneClaimPerVm'
  BY <1>2, <1>3, <1>4
  DEF RecordInv, WorkIsOpen, BusyNotDone, ServedServes, CompletedIsServing, OneClaimPerVm,
      Settled, Done
<1>6. CopiesHarmless'
  BY <1>2, <1>3 DEF RecordInv, CopiesHarmless, Settled, Done
<1> QED BY <1>5, <1>6 DEF RecordInv

(* The tasks keep the records right. *)
LEMMA TaskRecords ==
  ASSUME TypeOK, BookInv, RecordInv, NEW t \in Task, TaskStep(t)
  PROVE  RecordInv'
<1> DEFINE j == task[t].job
<1> DEFINE doc == task[t].doc
<1>1. /\ task[t].at \notin {"idle", "ended", "completed"} => t \in Live /\ j \in Job
      /\ task[t].at \notin {"idle", "pool", "finish", "ended", "completed"} => doc \in Doc
  BY DEF Live, TypeOK, TasksTyped
<1>2. /\ t \in AtWork => ~Settled(doc)
      /\ (t \in Live /\ j \notin IsoJob /\ task[t].at \notin {"saved", "release", "finish"}) =>
           ~Done(doc)
  BY DEF RecordInv, WorkIsOpen, BusyNotDone
<1>3. ASSUME NEW p \in {"PROVISIONING", "EXPORTING", "FINALIZING"}, NEW d \in Doc
      PROVE  /\ [d EXCEPT !.phase = p] # None
             /\ ~Settled([d EXCEPT !.phase = p]) /\ ~Done([d EXCEPT !.phase = p])
  <2>1. [d EXCEPT !.phase = p] \in Doc /\ [d EXCEPT !.phase = p].phase = p
    BY <1>3 DEF Doc, Phases
  <2> QED BY <2>1, NoRecordAssumption DEF Settled, Done, Terminal
<1>4. ASSUME NEW p \in {"FAILED", "CANCELLED", "INSTALLING"}, NEW d \in Doc
      PROVE  ~Done([d EXCEPT !.phase = p])
  BY <1>4 DEF Done, Doc
<1>5. Ending(t) \in {"release", "finish"}
  BY DEF Ending
<1>6. CASE WaitForSlot(t) \/ Wake(t)
  <2>1. UNCHANGED <<handler, cloud>>
    BY <1>6 DEF WaitForSlot, Wake, records
  <2>2. CASE UNCHANGED <<task, store>>
    BY <2>1, <2>2, RecordFrame
  <2>3. CASE ~UNCHANGED <<task, store>>
    <3>1. Save(t, "waiting", doc) /\ task[t].at = "gate"
      BY <1>6, <2>3 DEF WaitForSlot, Wake, records
    <3> QED BY <1>1, <1>2, <2>1, <3>1, SaveOpen, NoRecordAssumption
  <2> QED BY <2>2, <2>3
<1>7. CASE Provision(t) \/ Export(t) \/ Finalize(t)
  <2>1. PICK p \in {"PROVISIONING", "EXPORTING", "FINALIZING"}, at \in {"provision", "export", "finalize"} :
          Save(t, at, [doc EXCEPT !.phase = p])
    BY <1>7 DEF Provision, Export, Finalize
  <2>2. /\ task[t].at \in {"begin", "ready", "copied"}
        /\ UNCHANGED <<handler, cloud>>
    BY <1>7 DEF Provision, Export, Finalize
  <2> DEFINE d == [doc EXCEPT !.phase = p]
  <2>3. d # None /\ ~Settled(d) /\ ~Done(d)
    BY <1>1, <1>3, <2>2
  <2>4. t \in Live /\ Save(t, at, d)
    BY <1>1, <2>1, <2>2
  <2> HIDE DEF d
  <2> QED BY <2>2, <2>3, <2>4, SaveOpen
<1>8. CASE Recorded(t) \/ Copied(t) \/ NoteCancel(t)
  <2>1. PICK d \in {doc, [doc EXCEPT !.inst = TRUE], [doc EXCEPT !.copied = TRUE]},
             at \in {"ready", "copied", "clean"} : Save(t, at, d)
    BY <1>8 DEF Recorded, Copied, NoteCancel
  <2>2. /\ task[t].at \in {"launched", "export", "note"}
        /\ UNCHANGED <<handler, cloud>>
    BY <1>8 DEF Recorded, Copied, NoteCancel
  <2>3. t \in Live /\ doc \in Doc
    BY <1>1, <2>2
  <2>4. d \in Doc /\ d.phase = doc.phase
    BY <2>1, <2>3 DEF Doc
  <2>5. /\ d # None /\ (t \in AtWork => ~Settled(d))
        /\ j \notin IsoJob => ~Done(d)
    BY <1>2, <2>2, <2>3, <2>4, NoRecordAssumption DEF Settled, Done
  <2> QED BY <2>1, <2>2, <2>3, <2>5, SaveOpen
<1>9. CASE HandOver(t) \/ Fail(t) \/ SaveCancelled(t)
  <2>1. PICK p \in {"FAILED", "CANCELLED", "INSTALLING"}, at \in {"release", "finish"} :
          Save(t, at, [doc EXCEPT !.phase = p])
    BY <1>5, <1>9 DEF HandOver, Fail, SaveCancelled
  <2>2. /\ task[t].at \in WorkPlaces \cup {"torn"}
        /\ UNCHANGED <<handler, cloud>>
    BY <1>9 DEF HandOver, Fail, SaveCancelled, WorkPlaces
  <2>3. t \in Live /\ doc \in Doc
    BY <1>1, <2>2 DEF WorkPlaces
  <2> DEFINE d == [doc EXCEPT !.phase = p]
  <2>4. Save(t, at, d) /\ ~Done(d)
    BY <1>4, <2>1, <2>3
  <2> HIDE DEF d
  <2> QED BY <2>2, <2>3, <2>4, SaveLast
<1>10. CASE Complete(t) \/ SaveMessage(t)
  <2>1. PICK d \in {doc, [doc EXCEPT !.phase = "COMPLETED"]}, at \in {"saved", "release", "finish"} :
          Save(t, at, d)
    BY <1>5, <1>10 DEF Complete, SaveMessage
  <2>2. task[t].at \in {"served", "saved"} /\ UNCHANGED <<handler, cloud>>
    BY <1>10 DEF Complete, SaveMessage
  <2>3. t \in Live /\ cloud[j] = "serving"
    BY <1>1, <2>2 DEF RecordInv, ServedServes
  <2> QED BY <2>1, <2>2, <2>3, SaveLast
<1>11. CASE TakeSlot(t) \/ GiveUpSlot(t) \/ Cancelled(t) \/ ReleaseSlot(t)
  <2>1. PICK at \in {"begin", "note", "finish"} :
          Step(t, at, doc) /\ (task[t].at \in {"saved", "release", "finish"} => at = "finish")
    BY <1>11 DEF TakeSlot, GiveUpSlot, Cancelled, ReleaseSlot
  <2>2. /\ UNCHANGED <<handler, store, cloud>>
        /\ task[t].at \notin {"idle", "ended", "completed"}
    BY <1>11 DEF TakeSlot, GiveUpSlot, Cancelled, ReleaseSlot, records
  <2> QED BY <1>1, <2>1, <2>2, MoveOnly
<1>12. CASE Launch(t) \/ Serve(t) \/ TearDown(t)
  <2>1. PICK at \in {"launched", "served", "torn"} :
          Step(t, at, doc) /\ (at = "served" => Serve(t))
    BY <1>12 DEF Launch, Serve, TearDown
  <2>2. /\ UNCHANGED <<handler, store>>
        /\ task[t].at \in {"provision", "finalize", "clean"}
    BY <1>12 DEF Launch, Serve, TearDown
  <2>3. \A k \in Job : k # j => cloud'[k] = cloud[k]
    BY <1>12 DEF Launch, Serve, TearDown, TypeOK, RecordsTyped
  <2>4. at = "served" => cloud'[j] = "serving"
    BY <1>1, <2>1, <2>2 DEF Serve, TypeOK, RecordsTyped
  <2> QED BY <1>1, <2>1, <2>2, <2>3, <2>4, MoveOnly
<1> QED
  BY <1>6, <1>7, <1>8, <1>9, <1>10, <1>11, <1>12, StartRecords, FinishRecords DEF TaskStep

(* What a step of a request has to see to, so that tasks and other         *)
(* requests need not care.                                                 *)
LEMMA RequestKeepsRecords ==
  ASSUME TypeOK, BookInv, RecordInv, RequestsApart, NEW h \in Handler,
         UNCHANGED <<task, cloud>>, \A g \in Handler : g # h => handler'[g] = handler[g],
         \A k \in Job : k # handler[h].job => store'[k] = store[k],
         \/ UNCHANGED store
         \/ /\ handler[h].at # "idle"
            /\ \A t \in AtWork : task[t].job = handler[h].job =>
                 store'[handler[h].job] # None /\ ~Settled(store'[handler[h].job])
            /\ handler[h].job \notin IsoJob => ~Done(store'[handler[h].job]),
         handler'[h].at = "submit" =>
           /\ store'[handler'[h].job] # None /\ ~Settled(store'[handler'[h].job])
           /\ handler'[h].job \notin IsoJob =>
                \A k \in Claims \ IsoJob : k # handler'[h].job => VmOf[k] # VmOf[handler'[h].job],
         handler'[h].at \in {"test", "flag", "note", "complete"} /\ Settled(handler'[h].doc) =>
           \A t \in AtWork : task[t].job # handler'[h].job,
         handler'[h].at = "complete" => handler'[h].job \in IsoJob /\ Settled(handler'[h].doc),
         handler'[h].at \in {"test", "flag", "note", "clean", "cleanup", "ftest", "fput", "finalize"} =>
           ~Done(handler'[h].doc),
         handler'[h].at \in {"submit", "cleanup", "finalize"} => ~Done(store'[handler'[h].job])
  PROVE  RecordInv'
<1> DEFINE j == handler[h].job
<1>1. /\ Live' = Live /\ AtWork' = AtWork /\ AtWork \subseteq Live
      /\ \A t \in Live : task[t].job \in Job
  BY DEF Live, AtWork, TypeOK, TasksTyped
<1>2. \A k \in Job : store'[k] = store[k] \/ (k = j /\ ~UNCHANGED store)
  OBVIOUS
<1>3. WorkIsOpen'
  BY <1>1, <1>2 DEF RecordInv, WorkIsOpen, Settled
<1>4. BusyNotDone' /\ CompletedIsServing' /\ ServedServes'
  BY <1>1, <1>2 DEF RecordInv, BusyNotDone, CompletedIsServing, ServedServes, Done
<1>5. CopiesHarmless'
  <2>1. ASSUME NEW g \in Handler, g # h
        PROVE  /\ handler'[g] = handler[g]
               /\ handler[g].at \in {"submit", "cleanup", "finalize"} =>
                    store'[handler[g].job] = store[handler[g].job]
    <3>1. handler[g].at \in {"submit", "cleanup", "finalize"} => handler[g].job \in Job
      BY DEF TypeOK, RequestsTyped
    <3> QED BY <1>2, <2>1, <3>1 DEF RequestsApart
  <2> QED BY <1>1, <2>1 DEF RecordInv, CopiesHarmless, Settled, Done
<1>6. OneClaimPerVm'
  <2>1. \A k \in Claims' : k \in Claims \/ (handler'[h].at = "submit" /\ k = handler'[h].job)
    BY <1>1 DEF Claims
  <2>2. \A k, m \in Claims' \ IsoJob : VmOf[k] = VmOf[m] => k = m
    BY <2>1 DEF RecordInv, OneClaimPerVm
  <2> QED BY <1>1, <2>2 DEF RecordInv, OneClaimPerVm
<1> QED BY <1>3, <1>4, <1>5, <1>6 DEF RecordInv

(* A request that begins. *)
LEMMA BeginRecords ==
  ASSUME TypeOK, BookInv, RecordInv, RequestsApart, NEW h \in Handler, NEW j \in Job,
         CreateBegin(h, j) \/ CancelRead(h, j) \/ FinalizeRead(h, j) \/ FinishRead(h, j)
  PROVE  RecordInv'
<1>1. UNCHANGED <<task, cloud, store>>
  BY DEF CreateBegin, CancelRead, FinalizeRead, FinishRead, records
<1>2. \A g \in Handler : g # h => handler'[g] = handler[g]
  BY BeginFacts DEF CreateBegin, CancelRead, FinalizeRead, FinishRead, TypeOK
<1>3. CASE CreateBegin(h, j)
  <2>1. handler'[h].at = "create"
    BY <1>3 DEF CreateBegin, TypeOK, RequestsTyped
  <2> QED BY <1>1, <1>2, <2>1, RequestKeepsRecords
<1>4. CASE ~CreateBegin(h, j)
  <2>1. PICK at \in {"test", "ftest", "complete"} :
          /\ handler' = [handler EXCEPT ![h] = [at |-> at, job |-> j, doc |-> store[j], sess |-> None]]
          /\ store[j] # None
          /\ at = "complete" => j \in IsoJob /\ store[j].phase = "INSTALLING"
          /\ at # "complete" => store[j].phase # "COMPLETED"
    BY <1>4 DEF CancelRead, FinalizeRead, FinishRead, CanResumeFinalize
  <2>2. handler'[h].at = at /\ handler'[h].job = j /\ handler'[h].doc = store[j]
    BY <2>1 DEF TypeOK, RequestsTyped
  <2>3. Settled(store[j]) => \A t \in AtWork : task[t].job # j
    BY DEF RecordInv, WorkIsOpen
  <2>4. at = "complete" => Settled(store[j])
    BY <2>1 DEF Settled
  <2>5. at # "complete" => ~Done(store[j])
    BY <2>1 DEF Done
  <2> QED BY <1>1, <1>2, <2>1, <2>2, <2>3, <2>4, <2>5, RequestKeepsRecords
<1> QED BY <1>3, <1>4

(* The check for another migration of the machine and the put of the new   *)
(* record are one step.                                                    *)
LEMMA CreateRecords ==
  ASSUME TypeOK, BookInv, RecordInv, RequestsApart, NEW h \in Handler, CreatePut(h)
  PROVE  RecordInv'
<1> DEFINE j == handler[h].job
<1>1. UNCHANGED <<task, cloud>> /\ j \in Job /\ handler[h].at = "create"
  BY DEF CreatePut, TypeOK, RequestsTyped
<1>2. CASE j \notin IsoJob /\ ActiveForVm(VmOf[j])
  <2>1. Answer(h) /\ UNCHANGED store
    BY <1>2 DEF CreatePut
  <2>2. handler'[h].at = "idle" /\ \A g \in Handler : g # h => handler'[g] = handler[g]
    BY <2>1, AnswerFacts DEF TypeOK
  <2> QED BY <1>1, <2>1, <2>2, RequestKeepsRecords
<1>3. CASE ~(j \notin IsoJob /\ ActiveForVm(VmOf[j]))
  <2>1. Goto(h, "submit") /\ Put(j, NewDoc)
    BY <1>3 DEF CreatePut
  <2>2. /\ handler'[h].at = "submit" /\ handler'[h].job = j
        /\ \A g \in Handler : g # h => handler'[g] = handler[g]
    BY <2>1, GotoFacts DEF TypeOK
  <2>3. NewDoc \in Doc /\ ~Settled(NewDoc) /\ ~Done(NewDoc)
    BY DEF NewDoc, Doc, Phases, Settled, Done, Terminal
  <2>4. /\ store'[j] # None /\ ~Settled(store'[j]) /\ ~Done(store'[j])
        /\ \A k \in Job : k # j => store'[k] = store[k]
    BY <1>1, <2>1, <2>3, PutFacts, NoRecordAssumption DEF TypeOK
  <2>5. ASSUME j \notin IsoJob, NEW k \in Claims \ IsoJob PROVE VmOf[k] # VmOf[j]
    <3>1. k \in Job /\ store[k] # None /\ ~Settled(store[k])
      BY <2>5, ClaimsOpen DEF RecordInv
    <3> QED BY <1>3, <2>5, <3>1 DEF ActiveForVm, Settled
  <2> QED BY <1>1, <2>2, <2>4, <2>5, RequestKeepsRecords
<1> QED BY <1>2, <1>3

(* A request that puts its copy back. *)
LEMMA CopyRecords ==
  ASSUME TypeOK, BookInv, RecordInv, RequestsApart, NEW h \in Handler,
         CancelNote(h) \/ CleanupPut(h) \/ FinalizePut(h) \/ FinishPut(h)
  PROVE  RecordInv'
<1> DEFINE j == handler[h].job
<1> DEFINE doc == handler[h].doc
<1>1. /\ UNCHANGED <<task, cloud>> /\ j \in Job /\ doc \in Doc
      /\ handler[h].at \in {"note", "clean", "fput", "complete"}
  BY DEF CancelNote, CleanupPut, FinalizePut, FinishPut, TypeOK, RequestsTyped
<1>2. /\ handler[h].at \in {"clean", "fput"} => \A t \in AtWork : task[t].job # j
      /\ handler[h].at \in {"note", "complete"} /\ Settled(doc) => \A t \in AtWork : task[t].job # j
      /\ handler[h].at = "complete" => j \in IsoJob /\ Settled(doc)
      /\ handler[h].at # "complete" => ~Done(doc)
  BY <1>1 DEF BookInv, RequestsFree, RecordInv, CopiesHarmless, AtWork
<1>3. PICK d \in Doc :
        /\ Put(j, d)
        /\ d = doc \/ handler[h].at = "complete"
  <2>1. [doc EXCEPT !.phase = "COMPLETED"] \in Doc
    BY <1>1 DEF Doc, Phases, Terminal
  <2> QED BY <1>1, <2>1 DEF CancelNote, CleanupPut, FinalizePut, FinishPut
<1>4. store'[j] = d /\ d # None /\ \A k \in Job : k # j => store'[k] = store[k]
  BY <1>1, <1>3, PutFacts, NoRecordAssumption DEF TypeOK
<1>5. /\ handler'[h].at \in {"idle", "cleanup", "finalize"}
      /\ handler'[h].at # "idle" =>
           handler'[h].job = j /\ handler'[h].doc = doc /\ handler[h].at # "complete"
      /\ \A g \in Handler : g # h => handler'[g] = handler[g]
  BY GotoFacts, AnswerFacts DEF CancelNote, CleanupPut, FinalizePut, FinishPut, TypeOK
<1> QED BY <1>1, <1>2, <1>3, <1>4, <1>5, RequestKeepsRecords

(* A request that looks whether the job is running, or sets its flag. *)
LEMMA TestRecords ==
  ASSUME TypeOK, BookInv, RecordInv, RequestsApart, NEW h \in Handler,
         CancelTest(h) \/ CancelFlag(h) \/ FinalizeTest(h)
  PROVE  RecordInv'
<1>1. /\ UNCHANGED <<task, cloud, store>>
      /\ handler[h].at \in {"test", "flag", "ftest"}
  BY DEF CancelTest, CancelFlag, FinalizeTest, records
<1>2. /\ \A g \in Handler : g # h => handler'[g] = handler[g]
      /\ handler'[h].at \in {"idle", "flag", "note", "clean", "fput"}
      /\ handler'[h].at # "idle" => handler'[h].job = handler[h].job /\ handler'[h].doc = handler[h].doc
      /\ handler'[h].at \in {"flag", "note"} => handler[h].at \in {"test", "flag"}
  BY GotoFacts, AnswerFacts DEF CancelTest, CancelFlag, FinalizeTest, TypeOK
<1>3. /\ ~Done(handler[h].doc)
      /\ handler[h].at \in {"test", "flag"} /\ Settled(handler[h].doc) =>
           \A t \in AtWork : task[t].job # handler[h].job
  BY <1>1 DEF RecordInv, CopiesHarmless
<1> QED BY <1>1, <1>2, <1>3, RequestKeepsRecords

(* A request that hands its job to the pool. *)
LEMMA SubmitRecords ==
  ASSUME TypeOK, BookInv, RecordInv, RequestsApart, NEW h \in Handler,
         Submit(h) \/ CleanupSubmit(h) \/ FinalizeSubmit(h)
  PROVE  RecordInv'
<1> DEFINE j == handler[h].job
<1>1. /\ UNCHANGED <<store, cloud>> /\ j \in Job /\ Answer(h)
      /\ handler[h].at \in {"submit", "cleanup", "finalize"}
  BY DEF Submit, CleanupSubmit, FinalizeSubmit, records, TypeOK, RequestsTyped
<1>2. PICK kind \in Kinds :
        /\ Enqueue(kind, j)
        /\ kind \in {"run", "iso"} => handler[h].at = "submit"
        /\ kind = "run" => j \notin IsoJob
  BY DEF Submit, CleanupSubmit, FinalizeSubmit, Kinds
<1>3. PICK t \in Task :
         /\ t \notin Live /\ Live' = Live \cup {t}
         /\ task'[t] = [kind |-> kind, job |-> j, at |-> "pool", doc |-> None]
         /\ \A u \in Task : u # t => task'[u] = task[u]
  BY <1>2, EnqueueFacts DEF TypeOK
<1>4. handler'[h].at = "idle" /\ \A g \in Handler : g # h => handler'[g] = handler[g]
  BY <1>1, AnswerFacts DEF TypeOK
<1>5. /\ ~Done(store[j])
      /\ handler[h].at = "submit" => store[j] # None /\ ~Settled(store[j])
  BY <1>1 DEF RecordInv, CopiesHarmless
<1>6. /\ task'[t].kind = kind /\ task'[t].job = j /\ task'[t].at = "pool" /\ task'[t].doc = None
      /\ \A u \in Live' : u = t \/ (u \in Live /\ task'[u] = task[u])
      /\ \A u \in AtWork' : (u = t /\ kind \in {"run", "iso"}) \/ (u \in AtWork /\ task'[u] = task[u])
  BY <1>3 DEF Live, AtWork
<1>7. WorkIsOpen'
  BY <1>1, <1>2, <1>5, <1>6 DEF RecordInv, WorkIsOpen, Settled
<1>8. BusyNotDone' /\ ServedServes' /\ CompletedIsServing'
  BY <1>1, <1>5, <1>6 DEF RecordInv, BusyNotDone, ServedServes, CompletedIsServing, Done
<1>9. CopiesHarmless'
  <2>1. \A g \in Handler : g # h /\ handler[g].at # "idle" => handler[g].job # j
    BY <1>1 DEF RequestsApart
  <2> QED BY <1>1, <1>4, <1>6, <2>1 DEF RecordInv, CopiesHarmless, Settled, Done
<1>10. OneClaimPerVm'
  <2>1. Claims' \subseteq Claims
    BY <1>1, <1>2, <1>4, <1>6 DEF Claims
  <2>2. \A u \in Live' : task'[u].kind = "run" => task'[u].job \notin IsoJob
    BY <1>2, <1>6 DEF RecordInv, OneClaimPerVm
  <2> QED BY <2>1, <2>2 DEF RecordInv, OneClaimPerVm
<1> QED BY <1>7, <1>8, <1>9, <1>10 DEF RecordInv

(* Only settled records are purged, and only open ones fail in a restart.  *)
LEMMA ServiceRecords ==
  ASSUME TypeOK, BookInv, RecordInv,
         \/ \E P \in {{"FAILED", "CANCELLED"}, Terminal} : Purge(P)
         \/ \E n \in 1..Cap : SetMax(n)
         \/ Restart
  PROVE  RecordInv'
<1>1. ASSUME NEW P, Purge(P) PROVE RecordInv'
  <2>1. UNCHANGED <<task, handler, cloud>>
    BY <1>1 DEF Purge
  <2>2. \A j \in Job : \/ store'[j] = store[j]
                       \/ store'[j] = None /\ Settled(store[j])
    BY <1>1 DEF Purge, DeleteFinished, Settled
  <2>3. /\ Live' = Live /\ AtWork' = AtWork /\ Claims' = Claims
        /\ \A t \in Live : task[t].job \in Job
        /\ AtWork \subseteq Live
    BY <2>1 DEF Live, AtWork, Claims, TypeOK, TasksTyped
  <2>4. WorkIsOpen' /\ BusyNotDone' /\ ServedServes'
    BY <2>1, <2>2, <2>3 DEF RecordInv, WorkIsOpen, BusyNotDone, ServedServes, Settled, Done
  <2>5. CompletedIsServing' /\ OneClaimPerVm'
    BY <2>1, <2>2, <2>3 DEF RecordInv, CompletedIsServing, OneClaimPerVm
  <2>6. \A h \in Handler : handler[h].at # "idle" => handler[h].job \in Job
    BY DEF TypeOK, RequestsTyped
  <2>7. CopiesHarmless'
    BY <2>1, <2>2, <2>3, <2>6 DEF RecordInv, CopiesHarmless, Settled, Done
  <2> QED BY <2>4, <2>5, <2>7 DEF RecordInv
<1>2. ASSUME NEW n \in 1..Cap, SetMax(n) PROVE RecordInv'
  BY <1>2, RecordFrame DEF SetMax, records
<1>3. CASE Restart
  <2>1. Live' = {} /\ AtWork' = {}
    <3>1. ASSUME NEW t \in Task PROVE task'[t].at \in {"idle", "ended", "completed"}
      BY <1>3 DEF Restart, Live, TypeOK, TasksTyped, TaskState
    <3> QED BY <3>1 DEF Live, AtWork
  <2>2. \A h \in Handler : handler'[h].at = "idle"
    BY <1>3 DEF Restart, NoRequest
  <2>3. Claims' = {}
    BY <2>1, <2>2 DEF Claims
  <2>4. \A j \in Job : store'[j] # None /\ store'[j].phase = "COMPLETED" =>
          store[j] # None /\ store[j].phase = "COMPLETED"
    <3>1. \A d \in Doc : [d EXCEPT !.phase = "FAILED"].phase = "FAILED"
      BY DEF Doc
    <3> QED BY <1>3, <3>1 DEF Restart, TypeOK, RecordsTyped
  <2>5. CompletedIsServing'
    BY <1>3, <2>4 DEF Restart, RecordInv, CompletedIsServing
  <2> QED
    BY <2>1, <2>2, <2>3, <2>5
    DEF RecordInv, WorkIsOpen, CopiesHarmless, BusyNotDone, ServedServes, OneClaimPerVm
<1> QED BY <1>1, <1>2, <1>3

LEMMA HandlerRecords ==
  ASSUME TypeOK, BookInv, RecordInv, RequestsApart, NEW h \in Handler, HandlerStep(h)
  PROVE  RecordInv'
  BY BeginRecords, CreateRecords, CopyRecords, TestRecords, SubmitRecords DEF HandlerStep

LEMMA RecordStep ==
  ASSUME TypeOK, BookInv, RecordInv, RequestsApart, [Next]_vars
  PROVE  RecordInv'
<1>1. CASE UNCHANGED vars
  BY <1>1, RecordFrame DEF vars, records
<1> QED BY <1>1, HandlerRecords, TaskRecords, ServiceRecords DEF Next

LEMMA RecordInit == ASSUME Init PROVE RecordInv
<1>1. Live = {} /\ AtWork = {} /\ Claims = {}
  BY DEF Init, Live, AtWork, Claims, NoTask, NoRequest
<1> QED
  BY <1>1
  DEF Init, NoRequest, RecordInv, WorkIsOpen, CopiesHarmless, BusyNotDone, ServedServes,
      CompletedIsServing, OneClaimPerVm

LEMMA RecordHolds == Spec /\ []RequestsApart => []RecordInv
  BY RecordInit, RecordStep, BookHolds, TypeCorrect, PTL DEF Spec

(* A job is on record, and open, for as long as somebody works on it.      *)
THEOREM WorkRecorded == Spec /\ []RequestsApart => []WorkIsRecorded
<1>1. RecordInv => WorkIsRecorded
  BY DEF RecordInv, WorkIsOpen, WorkIsRecorded, Settled
<1> QED BY <1>1, RecordHolds, PTL

(* A migration that is COMPLETED has an instance that serves: no cancel,   *)
(* retry or restart takes it away.                                         *)
THEOREM CompletedServes == Spec /\ []RequestsApart => []CompletedIsServing
  BY RecordHolds, PTL DEF RecordInv

(* Two requests at the same time never get one machine migrated twice.     *)
THEOREM MachineOnce == Spec /\ []RequestsApart => []OneMigrationPerVm
<1>1. ASSUME BookInv, RecordInv PROVE OneMigrationPerVm
  <2> SUFFICES ASSUME NEW t \in AtWork, NEW u \in AtWork, t # u,
                      task[t].kind = "run", task[u].kind = "run"
               PROVE  VmOf[task[t].job] # VmOf[task[u].job]
    BY DEF OneMigrationPerVm
  <2>1. task[t].job # task[u].job
    BY <1>1 DEF BookInv, OneLiveTask, AtWork
  <2>2. task[t].job \in Claims \ IsoJob /\ task[u].job \in Claims \ IsoJob
    BY <1>1 DEF RecordInv, OneClaimPerVm, Claims, AtWork
  <2> QED BY <1>1, <2>1, <2>2 DEF RecordInv, OneClaimPerVm
<1> QED BY <1>1, BookHolds, RecordHolds, PTL
=============================================================================
