-------------------------- MODULE FpDevice_proofs --------------------------
(***************************************************************************)
(* Proof that a libfprint device keeps its promises about cancellation,    *)
(* suspension, removal, results and temperature, for any set of actions    *)
(* its class offers and any nesting of critical sections.                  *)
(***************************************************************************)
EXTENDS FpDevice, TLAPS

\* The task, the driver that works on it, and the queue of the driver's critical
\* section, whose requests belong to that task.
Working ==
  /\ drv.busy <=> task.action # "NONE" /\ task.idle_return = "none"
  /\ task.connected <=> drv.busy
  /\ task.action = "NONE" => /\ task.cancellable = "none" /\ task.handlers = {}
                              /\ task.idle_return = "none"
  /\ task.action # "NONE" => task.cancellable # "none"
  /\ task.idle_cancel => task.connected /\ task.cancellable = "cancelled"
  /\ crit.depth > 0 => drv.busy
  /\ crit.flush => crit.depth = 0
  /\ crit.cancel => task.cancellable = "cancelled"
  /\ QueuedIsFlushed

\* A handler of notify::completed, on the task or on the one that has returned.
Pending(h) == h \in task.handlers \cup notify

\* Whoever will finish the call of suspend or resume is the only one.
Answering ==
  /\ drv.asked # "none" => /\ pm.task = drv.asked
                           /\ ~crit.suspend /\ ~crit.resume
                           /\ ~Pending("suspended") /\ ~Pending("short")
  /\ crit.suspend => /\ pm.task = "suspend" /\ ~crit.resume
                     /\ ~Pending("suspended") /\ ~Pending("short")
  /\ crit.resume => pm.task = "resume" /\ ~Pending("suspended") /\ ~Pending("short")
  /\ Pending("suspended") \/ Pending("short") => pm.task = "suspend"
  /\ ~(Pending("suspended") /\ Pending("short"))
  /\ "suspended" \in task.handlers => "suspended" \notin notify
  /\ "short" \in task.handlers => "short" \notin notify

\* What a task that suspend cancelled leaves behind.
Suspending ==
  /\ "suspended" \in task.handlers => task.reason # "none"
  /\ "suspended" \in notify => outcome # "error" /\ task.action \notin Long
  /\ ~unwinding => notify = {}
  /\ Pending("suspended") => dev.suspended
  /\ dev.suspended /\ pm.task = "suspend" => Pending("suspended")

Safe ==
  /\ Working
  /\ Answering
  /\ Suspending
  /\ Overheating
  /\ MarkedAgreed
  /\ ReportedSuccess
  /\ RemovalKept

IInv == TypeOK /\ Safe

---------------------------------------------------------------------------
\* Type correctness.

\* A critical section that is entered or left has a depth and a flush flag.
LEMMA CriticalTyped ==
  ASSUME NEW c \in Criticals
  PROVE  /\ c.depth < MaxCritical => [c EXCEPT !.depth = @ + 1, !.flush = FALSE] \in Criticals
         /\ c.depth > 0 => Left(c) \in Criticals
<1>1. \A n \in 0..MaxCritical, b \in BOOLEAN : [c EXCEPT !.depth = n, !.flush = b] \in Criticals
  BY Zenon DEF Criticals
<1>2. c.depth \in 0..MaxCritical
  BY DEF Criticals
<1>3. ASSUME c.depth < MaxCritical
      PROVE  [c EXCEPT !.depth = @ + 1, !.flush = FALSE] \in Criticals
  <2>1. c.depth + 1 \in 0..MaxCritical
    BY <1>2, <1>3, ActionsAssumption
  <2> QED
    BY <1>1, <2>1, Zenon
<1>4. ASSUME c.depth > 0
      PROVE  Left(c) \in Criticals
  <2>1. c.depth - 1 \in 0..MaxCritical
    BY <1>2, <1>4, ActionsAssumption
  <2>2. (c.depth = 1) \in BOOLEAN
    OBVIOUS
  <2> QED
    BY <1>1, <2>1, <2>2, Zenon DEF Left
<1> QED
  BY <1>3, <1>4

\* An update of the temperature leaves a temperature.
LEMMA TemperatureTyped ==
  ASSUME TempTypeOK, NEW ratio \in Bands, NEW active \in BOOLEAN, UpdateTemp(ratio, active)
  PROVE  TempTypeOK'
<1>1. Temperature(ratio) \in {"COLD", "WARM", "HOT"}
  BY DEF Temperature, Bands
<1>2. NextThreshold(ratio, active) \in BOOLEAN
  <2>1. CASE active
    BY <2>1 DEF NextThreshold
  <2>2. CASE ~active
    BY <2>2 DEF NextThreshold
  <2> QED
    BY <2>1, <2>2
<1>3. CASE has_temp
  BY <1>1, <1>2, <1>3, Zenon DEF TempTypeOK, UpdateTemp
<1>4. CASE ~has_temp
  BY <1>4, Zenon DEF TempTypeOK, UpdateTemp, tempVars
<1> QED
  BY <1>3, <1>4

\* What an update writes, on a device that has the model.
LEMMA Updated ==
  ASSUME NEW ratio, NEW active, UpdateTemp(ratio, active)
  PROVE  /\ has_temp' = has_temp
         /\ has_temp => /\ temp_current' = Temperature(ratio)
                        /\ temp_last_active' = active
                        /\ temp_timeout' = NextThreshold(ratio, active)
BY Zenon DEF UpdateTemp, tempVars

\* The ratio drifts within its bands.
LEMMA DriftTyped ==
  ASSUME TempTypeOK
  PROVE  Drift \subseteq Bands /\ Crossed \subseteq Bands
BY DEF TempTypeOK, Drift, Crossed, Bands

\* Cancelling a task leaves a task.
LEMMA CancelledTyped ==
  ASSUME NEW t \in Tasks
  PROVE  /\ Cancelled(t) \in Tasks
         /\ \A why \in {"BUSY", "TOO_HOT"} : CancelledFor(t, why) \in Tasks
<1>1. ASSUME NEW u \in Tasks
      PROVE  Cancelled(u) \in Tasks
  <2>1. u.connected \in BOOLEAN
    BY DEF Tasks
  <2>2. \A b \in BOOLEAN : [u EXCEPT !.cancellable = "cancelled", !.idle_cancel = b] \in Tasks
    BY Zenon DEF Tasks
  <2> QED
    BY <2>1, <2>2, Zenon DEF Cancelled
<1>2. ASSUME NEW why \in {"BUSY", "TOO_HOT"}
      PROVE  [t EXCEPT !.reason = IF t.reason = "none" THEN why ELSE t.reason] \in Tasks
  BY DEF Tasks
<1> QED
  BY <1>1, <1>2, SMTT(30) DEF CancelledFor

\* The completion of suspend and of resume, for TypeOK.
LEMMA CompleteTyped ==
  ASSUME TypeOK, NEW error \in BOOLEAN, SuspendComplete(error) \/ ResumeComplete
  PROVE  /\ pm' \in [task : {"none", "suspend", "resume"}, error : BOOLEAN]
         /\ dev' \in Devices
         /\ task' \in Tasks
<1>1. CASE SuspendComplete(error) /\ error /\ task.action # "NONE"
  <2>1. CancelledFor(task, "BUSY") \in Tasks
    BY CancelledTyped DEF TypeOK
  <2>2. \A t \in Tasks : [t EXCEPT !.handlers = @ \cup {"suspended"}] \in Tasks
    BY DEF Tasks, Handlers
  <2>3. task' \in Tasks
    BY <1>1, <2>1, <2>2 DEF SuspendComplete
  <2>4. dev' = [dev EXCEPT !.suspended = TRUE] /\ pm' = [task |-> "suspend", error |-> TRUE]
    BY <1>1 DEF SuspendComplete
  <2> QED
    BY <2>3, <2>4, Zenon DEF TypeOK, Devices
<1>2. CASE SuspendComplete(error) /\ ~(error /\ task.action # "NONE")
  <2>1. /\ pm' = [task |-> "none", error |-> FALSE]
        /\ dev' = [dev EXCEPT !.suspended = TRUE, !.wakeup = @ \/ task.action # "NONE"]
        /\ task' = task
    BY <1>2 DEF SuspendComplete
  <2> QED
    BY <2>1, Zenon DEF TypeOK, Devices
<1>3. CASE ResumeComplete
  BY <1>3, Zenon DEF ResumeComplete, TypeOK, Devices
<1> QED
  BY <1>1, <1>2, <1>3

\* fpi_device_suspend and fpi_device_resume, for TypeOK.
LEMMA SuspendTyped ==
  ASSUME TypeOK, NEW c \in Criticals, Suspend(c) \/ Resume(c)
  PROVE  /\ pm' \in [task : {"none", "suspend", "resume"}, error : BOOLEAN]
         /\ dev' \in Devices
         /\ task' \in Tasks
         /\ crit' \in Criticals
         /\ drv' \in Drivers
         /\ aborted' \in BOOLEAN
<1>1. CASE \/ /\ SuspendComplete(TRUE) \/ SuspendComplete(FALSE) \/ ResumeComplete
              /\ crit' = c
              /\ UNCHANGED <<drv, aborted>>
  BY <1>1, CompleteTyped, Zenon DEF TypeOK
<1>2. CASE \E what \in {"suspend", "resume"} : AskDriver(what) /\ crit' = c
  BY <1>2 DEF AskDriver, TypeOK, Drivers
<1>3. CASE /\ \E what \in {"suspend", "resume"} : pm' = [pm EXCEPT !.task = what]
           /\ crit' \in {c, [c EXCEPT !.suspend = TRUE], [c EXCEPT !.resume = TRUE]}
           /\ task' \in {task, [task EXCEPT !.handlers = @ \cup {"short"}]}
           /\ aborted' \in {aborted, TRUE}
           /\ UNCHANGED <<dev, drv>>
  <2>1. task' \in Tasks
    BY <1>3 DEF TypeOK, Tasks, Handlers
  <2>2. crit' \in Criticals
    BY <1>3, Zenon DEF Criticals
  <2> QED
    BY <1>3, <2>1, <2>2, Zenon DEF TypeOK
<1> QED
  BY <1>1, <1>2, <1>3, Zenon DEF Suspend, Resume

\* Every step keeps the type invariant.
LEMMA TypeStep ==
  ASSUME TypeOK, [Next]_devVars
  PROVE  TypeOK'
<1> USE DEF TypeOK
<1>1. ASSUME NEW a \in Long, StartLong(a)
      PROVE  TypeOK'
  <2>1. TempTypeOK'
    BY <1>1, DriftTyped, TemperatureTyped, Zenon DEF StartLong
  <2>2. task' \in Tasks /\ drv' \in Drivers
    <3>1. NewTask(a) \in Tasks
      BY Zenon DEF NewTask, NoTask, Tasks, Actions, Handlers
    <3>2. [drv EXCEPT !.busy = TRUE] \in Drivers
      BY Zenon DEF Drivers
    <3> QED
      BY <1>1, <3>1, <3>2, Zenon DEF StartLong, Begin
  <2> QED
    BY <1>1, <2>1, <2>2 DEF StartLong
<1>2. ASSUME NEW a \in Short, StartShort(a)
      PROVE  TypeOK'
  <2>1. task' \in Tasks /\ drv' \in Drivers
    <3>1. NewTask(a) \in Tasks
      BY Zenon DEF NewTask, NoTask, Tasks, Actions, Handlers
    <3>2. [drv EXCEPT !.busy = TRUE] \in Drivers
      BY Zenon DEF Drivers
    <3> QED
      BY <1>2, <3>1, <3>2 DEF StartShort, Begin
  <2> QED
    BY <1>2, <2>1 DEF StartShort, tempVars, TempTypeOK
<1>3. CASE Cancel
  BY <1>3, CancelledTyped DEF Cancel, tempVars, TempTypeOK
<1>4. CASE fp_device_cancel_in_idle_cb
  <2>1. task' \in Tasks
    BY <1>4, Zenon DEF fp_device_cancel_in_idle_cb, Tasks
  <2>2. crit' \in Criticals
    BY <1>4, ZenonT(30) DEF fp_device_cancel_in_idle_cb, Criticals
  <2>3. drv' \in Drivers
    BY <1>4, Zenon DEF fp_device_cancel_in_idle_cb, Drivers
  <2> QED
    BY <1>4, <2>1, <2>2, <2>3 DEF fp_device_cancel_in_idle_cb, tempVars, TempTypeOK
<1>5. CASE fp_device_suspend \/ fp_device_resume
  <2>1. caught' \in BOOLEAN
    BY <1>5, Zenon DEF fp_device_suspend, fp_device_resume
  <2> QED
    BY <1>5, <2>1, SuspendTyped DEF fp_device_suspend, fp_device_resume, tempVars, TempTypeOK
<1>6. CASE fpi_device_critical_enter \/ fpi_device_critical_leave
  BY <1>6, CriticalTyped, ZenonT(30) DEF fpi_device_critical_enter, fpi_device_critical_leave,
                             tempVars, TempTypeOK
<1>7. ASSUME NEW r \in {"given", "error"}, Report(r)
      PROVE  TypeOK'
  <2>1. task' \in Tasks
    BY <1>7 DEF Report, Tasks
  <2> QED
    BY <1>7, <2>1 DEF Report, tempVars, TempTypeOK
<1>8. ASSUME NEW given \in BOOLEAN, NEW error \in BOOLEAN, DriverCompletes(given, error)
      PROVE  TypeOK'
  <2>1. Returned(task.action, given, error) \in {"ok", "error"}
    BY DEF Returned
  <2>2. task' \in Tasks
    BY <1>8, <2>1, Zenon DEF DriverCompletes, clear_device_cancel_action, Tasks
  <2>3. crit' \in Criticals
    <3>1. crit.depth = 1 => crit.depth > 0
      OBVIOUS
    <3> QED
      BY <1>8, <3>1, CriticalTyped, Zenon DEF DriverCompletes
  <2>4. drv' \in Drivers
    BY <1>8, Zenon DEF DriverCompletes, Drivers
  <2> QED
    BY <1>8, <2>2, <2>3, <2>4 DEF DriverCompletes, tempVars, TempTypeOK
<1>9. ASSUME NEW error \in BOOLEAN, DriverAnswers(error)
      PROVE  TypeOK'
  <2>1. drv' \in Drivers
    BY <1>9, Zenon DEF DriverAnswers, Drivers
  <2>2. SuspendComplete(error) \/ ResumeComplete
    BY <1>9 DEF DriverAnswers
  <2>3. /\ pm' \in [task : {"none", "suspend", "resume"}, error : BOOLEAN]
        /\ dev' \in Devices /\ task' \in Tasks
    BY <2>2, CompleteTyped
  <2>4. UNCHANGED <<tempVars, crit, unwinding, notify, outcome, caught, has_suspend, aborted>>
    BY <1>9 DEF DriverAnswers
  <2> QED
    BY <2>1, <2>3, <2>4 DEF tempVars, TempTypeOK
<1>10. CASE FlushCritical
  <2>1. \A c \in {crit, [crit EXCEPT !.cancel = FALSE], [crit EXCEPT !.suspend = FALSE],
                  [crit EXCEPT !.resume = FALSE], [crit EXCEPT !.flush = FALSE]} : c \in Criticals
    <3>1. [crit EXCEPT !.cancel = FALSE] \in Criticals
      BY Zenon DEF Criticals
    <3>2. [crit EXCEPT !.suspend = FALSE] \in Criticals
      BY Zenon DEF Criticals
    <3>3. [crit EXCEPT !.resume = FALSE] \in Criticals
      BY Zenon DEF Criticals
    <3>4. [crit EXCEPT !.flush = FALSE] \in Criticals
      BY Zenon DEF Criticals
    <3> QED
      BY <3>1, <3>2, <3>3, <3>4, Zenon
  <2>2. [drv EXCEPT !.told = @ \/ CancelDue] \in Drivers
    BY Zenon DEF Drivers
  <2>3. CASE Suspend([crit EXCEPT !.suspend = FALSE]) \/ Resume([crit EXCEPT !.resume = FALSE])
    <3>1. /\ pm' \in [task : {"none", "suspend", "resume"}, error : BOOLEAN]
          /\ dev' \in Devices /\ task' \in Tasks /\ crit' \in Criticals /\ drv' \in Drivers
          /\ aborted' \in BOOLEAN
      BY <2>1, <2>3, SuspendTyped
    <3> QED
      BY <1>10, <3>1 DEF FlushCritical, tempVars, TempTypeOK
  <2>4. CASE /\ crit' \in {[crit EXCEPT !.cancel = FALSE], [crit EXCEPT !.flush = FALSE]}
             /\ drv' \in {drv, [drv EXCEPT !.told = @ \/ CancelDue]}
             /\ UNCHANGED <<dev, task, pm, aborted>>
    <3>1. crit' \in Criticals /\ drv' \in Drivers
      BY <2>1, <2>2, <2>4, Zenon
    <3> QED
      BY <1>10, <2>4, <3>1 DEF FlushCritical, tempVars, TempTypeOK
  <2> QED
    BY <1>10, <2>3, <2>4 DEF FlushCritical
<1>11. CASE TempTimeout
  <2>1. TempTypeOK'
    BY <1>11, DriftTyped, TemperatureTyped DEF TempTimeout, TempTypeOK
  <2> QED
    BY <1>11, <2>1, CancelledTyped DEF TempTimeout
<1>12. CASE TaskReturn
  <2>1. TempTypeOK'
    BY <1>12, DriftTyped, TemperatureTyped, Zenon DEF TaskReturn
  <2>2. task' \in Tasks
    BY <1>12 DEF TaskReturn, NoTask, Tasks, Handlers
  <2>3. dev' \in Devices
    BY <1>12, Zenon DEF TaskReturn, Devices
  <2>4. drv' \in Drivers
    BY <1>12, Zenon DEF TaskReturn, Drivers
  <2>5. notify' \in SUBSET Handlers
    BY <1>12 DEF TaskReturn, Tasks
  <2>6. outcome' \in {"none", "ok", "error", "BUSY", "TOO_HOT", "REMOVED"}
    BY <1>12 DEF TaskReturn, Outcome, Tasks
  <2> QED
    BY <1>12, <2>1, <2>2, <2>3, <2>4, <2>5, <2>6 DEF TaskReturn
<1>13. CASE Completed
  <2>1. dev' \in Devices
    BY <1>13, Zenon DEF Completed, Devices
  <2> QED
    BY <1>13, <2>1, Zenon DEF Completed, tempVars, TempTypeOK
<1>14. CASE fpi_device_remove
  <2>1. dev' \in Devices
    BY <1>14, Zenon DEF fpi_device_remove, Devices
  <2>2. task' \in Tasks
    BY <1>14 DEF fpi_device_remove, Tasks, Handlers
  <2> QED
    BY <1>14, <2>1, <2>2 DEF fpi_device_remove, tempVars, TempTypeOK
<1>15. CASE UNCHANGED devVars
  BY <1>15 DEF devVars, tempVars, TempTypeOK
<1> QED
  BY <1>1, <1>2, <1>3, <1>4, <1>5, <1>6, <1>7, <1>8, <1>9, <1>10, <1>11, <1>12, <1>13,
     <1>14, <1>15 DEF Next, UserStep, DriverStep, LoopStep

---------------------------------------------------------------------------
\* Safety.

\* What cancelling a task for a reason does to it.
LEMMA CancelledFields ==
  ASSUME NEW t \in Tasks, NEW why \in {"BUSY", "TOO_HOT"}
  PROVE  LET u == CancelledFor(t, why)
         IN  /\ u.action = t.action /\ u.connected = t.connected
             /\ u.idle_return = t.idle_return /\ u.result = t.result
             /\ u.handlers = t.handlers /\ u.reason # "none"
             /\ t.cancellable = "none" => u.cancellable = "none"
             /\ t.cancellable # "none" => u.cancellable = "cancelled"
             /\ u.idle_cancel => t.idle_cancel \/ (t.connected /\ t.cancellable = "live")
BY DEF CancelledFor, Cancelled, Tasks

\* The step leaves the critical section and the driver's work alone.
Beside ==
  /\ crit'.depth = crit.depth /\ crit'.flush = crit.flush /\ crit'.cancel = crit.cancel
  /\ drv'.busy = drv.busy
  /\ UNCHANGED <<tempVars, unwinding, notify, outcome, has_suspend>>

\* The end of suspend, at once or when the cancelled action is over.
LEMMA SuspendCompleteKeeps ==
  ASSUME TypeOK, Safe, NEW error \in BOOLEAN, SuspendComplete(error), Beside,
         drv'.asked = "none", ~crit'.suspend, ~crit'.resume,
         ~Pending("suspended"), ~Pending("short"),
         task.action \in Long /\ ~error => drv'.agreed
  PROVE  Safe'
<1>1. CASE error /\ task.action # "NONE"
  <2> DEFINE u == CancelledFor(task, "BUSY")
  <2>1. /\ task' = [u EXCEPT !.handlers = @ \cup {"suspended"}]
        /\ dev' = [dev EXCEPT !.suspended = TRUE]
        /\ pm'.task = "suspend"
    BY <1>1 DEF SuspendComplete
  <2>2. u \in Tasks
    BY CancelledTyped DEF TypeOK
  <2>3. /\ task'.action = task.action /\ task'.connected = task.connected
        /\ task'.idle_return = task.idle_return /\ task'.result = task.result
        /\ task'.handlers = task.handlers \cup {"suspended"} /\ task'.reason # "none"
        /\ task.cancellable # "none" => task'.cancellable = "cancelled"
        /\ task'.idle_cancel => task.idle_cancel \/ (task.connected /\ task.cancellable = "live")
    <3> HIDE DEF u
    <3>1. /\ task'.action = u.action /\ task'.connected = u.connected
          /\ task'.idle_return = u.idle_return /\ task'.result = u.result
          /\ task'.handlers = u.handlers \cup {"suspended"} /\ task'.reason = u.reason
          /\ task'.cancellable = u.cancellable /\ task'.idle_cancel = u.idle_cancel
      BY <2>1, <2>2 DEF Tasks
    <3> QED
      BY <3>1, CancelledFields DEF u, TypeOK
  <2>4. Working'
    BY <1>1, <2>3 DEF Safe, Working, QueuedIsFlushed, Beside
  <2>5. Answering'
    BY <2>1, <2>3 DEF Pending, Answering, Beside
  <2>6. Suspending'
    BY <2>1, <2>3 DEF Safe, Suspending, Pending, Beside, TypeOK, Devices
  <2>7. Overheating'
    BY <1>1, <2>3 DEF Safe, Working, Overheating, Beside, tempVars
  <2>8. MarkedAgreed' /\ ReportedSuccess' /\ RemovalKept'
    BY <2>1, <2>3 DEF Safe, MarkedAgreed, ReportedSuccess, RemovalKept, Beside,
                      TypeOK, Devices
  <2> QED
    BY <2>4, <2>5, <2>6, <2>7, <2>8 DEF Safe
<1>2. CASE ~(error /\ task.action # "NONE")
  <2>1. /\ task' = task
        /\ dev' = [dev EXCEPT !.suspended = TRUE, !.wakeup = @ \/ task.action # "NONE"]
        /\ pm'.task = "none"
    BY <1>2 DEF SuspendComplete
  <2>2. Working'
    BY <2>1 DEF Safe, Working, QueuedIsFlushed, Beside
  <2>3. Answering' /\ Suspending'
    BY <2>1 DEF Safe, Suspending, Pending, Answering, Beside, TypeOK, Devices
  <2>4. Overheating' /\ ReportedSuccess'
    BY <2>1 DEF Safe, Overheating, ReportedSuccess, Beside, tempVars
  <2>5. MarkedAgreed' /\ RemovalKept'
    BY <1>2, <2>1, ActionsAssumption DEF Safe, MarkedAgreed, RemovalKept, Beside,
                                         TypeOK, Devices
  <2> QED
    BY <2>2, <2>3, <2>4, <2>5 DEF Safe
<1> QED
  BY <1>1, <1>2

\* The end of resume.
LEMMA ResumeCompleteKeeps ==
  ASSUME TypeOK, Safe, ResumeComplete, Beside,
         drv'.asked = "none", ~crit'.suspend, ~crit'.resume,
         ~Pending("suspended"), ~Pending("short")
  PROVE  Safe'
<1>1. /\ task' = task
      /\ dev' = [dev EXCEPT !.suspended = FALSE, !.wakeup = FALSE]
      /\ pm'.task = "none"
  BY DEF ResumeComplete, TypeOK
<1>2. Working'
  BY <1>1 DEF Safe, Working, QueuedIsFlushed, Beside
<1>3. Answering' /\ Suspending'
  BY <1>1 DEF Safe, Suspending, Pending, Answering, Beside, TypeOK, Devices
<1>4. Overheating' /\ ReportedSuccess'
  BY <1>1 DEF Safe, Overheating, ReportedSuccess, Beside, tempVars
<1>5. MarkedAgreed' /\ RemovalKept'
  BY <1>1 DEF Safe, MarkedAgreed, RemovalKept, Beside, TypeOK, Devices
<1> QED
  BY <1>2, <1>3, <1>4, <1>5 DEF Safe

\* The request is passed to the driver, or queued for the end of its critical
\* section: it is the only one under way.
LEMMA RequestKeeps ==
  ASSUME TypeOK, Safe, NEW what \in {"suspend", "resume"}, Beside,
         pm' = [pm EXCEPT !.task = what], UNCHANGED <<dev, task>>,
         drv'.agreed = drv.agreed,
         what = "suspend" => ~dev.suspended,
         what = "resume" => pm.task # "suspend",
         ~Pending("suspended"), ~Pending("short"),
         \/ drv'.asked = what /\ ~crit'.suspend /\ ~crit'.resume
         \/ drv'.asked = "none" /\ crit.depth > 0 /\ crit'.suspend = (what = "suspend")
                                /\ crit'.resume = (what = "resume")
  PROVE  Safe'
<1>1. pm'.task = what
  BY DEF TypeOK
<1>2. Working'
  BY DEF Safe, Working, QueuedIsFlushed, Beside
<1>3. Answering' /\ Suspending'
  BY <1>1, Zenon DEF Safe, Suspending, Pending, Answering, Beside
<1>4. Overheating' /\ ReportedSuccess' /\ RemovalKept'
  BY DEF Safe, Overheating, ReportedSuccess, RemovalKept, Beside, tempVars
<1>5. MarkedAgreed'
  BY <1>1 DEF Safe, MarkedAgreed
<1> QED
  BY <1>2, <1>3, <1>4, <1>5 DEF Safe

\* fpi_device_suspend, called by the user or from the queue: nobody else will
\* answer the call, and the requests that stay queued are those of the section.
LEMMA SuspendKeeps ==
  ASSUME TypeOK, Safe, NEW c \in Criticals, Suspend(c),
         c.depth = crit.depth, c.flush = crit.flush, c.cancel = crit.cancel,
         ~c.suspend, ~c.resume,
         drv.asked = "none", ~dev.suspended, ~Pending("suspended"), ~Pending("short"),
         UNCHANGED <<tempVars, unwinding, notify, outcome, has_suspend>>
  PROVE  Safe'
<1>1. CASE task.action = "NONE" /\ SuspendComplete(FALSE) /\ crit' = c /\ UNCHANGED <<drv, aborted>>
  BY <1>1, SuspendCompleteKeeps, ActionsAssumption, Zenon DEF Beside
<1>2. CASE /\ c.depth > 0
           /\ pm' = [pm EXCEPT !.task = "suspend"]
           /\ crit' = [c EXCEPT !.suspend = TRUE]
           /\ UNCHANGED <<dev, task, drv, aborted>>
  <2>1. /\ crit'.depth = c.depth /\ crit'.flush = c.flush /\ crit'.cancel = c.cancel
        /\ crit'.suspend = TRUE /\ crit'.resume = FALSE
    BY <1>2 DEF Criticals
  <2>2. Beside
    BY <1>2, <2>1 DEF Beside
  <2> QED
    BY <1>2, <2>1, <2>2, RequestKeeps, Zenon
<1>3. CASE AskDriver("suspend") /\ crit' = c
  <2>1. drv'.busy = drv.busy /\ drv'.asked = "suspend" /\ drv'.agreed = drv.agreed
    BY <1>3 DEF AskDriver, TypeOK, Drivers
  <2> QED
    BY <1>3, <2>1, RequestKeeps DEF AskDriver, Beside
<1>4. CASE SuspendComplete(TRUE) /\ crit' = c /\ UNCHANGED <<drv, aborted>>
  BY <1>4, SuspendCompleteKeeps, Zenon DEF Beside
<1>5. CASE /\ task.action \in Short
           /\ pm' = [pm EXCEPT !.task = "suspend"]
           /\ task' = [task EXCEPT !.handlers = @ \cup {"short"}]
           /\ crit' = c
           /\ UNCHANGED <<dev, drv, aborted>>
  <2>1. /\ pm'.task = "suspend"
        /\ task'.action = task.action /\ task'.connected = task.connected
        /\ task'.cancellable = task.cancellable /\ task'.idle_cancel = task.idle_cancel
        /\ task'.idle_return = task.idle_return /\ task'.result = task.result
        /\ task'.handlers = task.handlers \cup {"short"} /\ task'.reason = task.reason
    BY <1>5 DEF TypeOK, Tasks
  <2>2. task.action # "NONE" /\ task.action \notin Long
    BY <1>5, ActionsAssumption
  <2>3. Working'
    BY <1>5, <2>1, <2>2 DEF Safe, Working, QueuedIsFlushed
  <2>4. Answering' /\ Suspending'
    BY <1>5, <2>1 DEF Safe, Suspending, Pending, Answering
  <2>5. Overheating' /\ MarkedAgreed'
    BY <2>1, <2>2 DEF Safe, Overheating, MarkedAgreed, tempVars
  <2>6. ReportedSuccess' /\ RemovalKept'
    BY <1>5, <2>1 DEF Safe, ReportedSuccess, RemovalKept
  <2> QED
    BY <2>3, <2>4, <2>5, <2>6 DEF Safe
<1> QED
  BY <1>1, <1>2, <1>3, <1>4, <1>5, Zenon DEF Suspend

\* fpi_device_resume, likewise.
LEMMA ResumeKeeps ==
  ASSUME TypeOK, Safe, NEW c \in Criticals, Resume(c),
         c.depth = crit.depth, c.flush = crit.flush, c.cancel = crit.cancel,
         ~c.suspend, ~c.resume,
         pm.task # "suspend", drv.asked = "none", ~Pending("suspended"), ~Pending("short"),
         UNCHANGED <<tempVars, unwinding, notify, outcome, has_suspend>>
  PROVE  Safe'
<1>1. CASE ResumeComplete /\ crit' = c /\ UNCHANGED <<drv, aborted>>
  BY <1>1, ResumeCompleteKeeps DEF Beside
<1>2. CASE /\ c.depth > 0
           /\ pm' = [pm EXCEPT !.task = "resume"]
           /\ crit' = [c EXCEPT !.resume = TRUE]
           /\ UNCHANGED <<dev, task, drv, aborted>>
  <2>1. /\ crit'.depth = c.depth /\ crit'.flush = c.flush /\ crit'.cancel = c.cancel
        /\ crit'.suspend = FALSE /\ crit'.resume = TRUE
    BY <1>2 DEF Criticals
  <2>2. Beside
    BY <1>2, <2>1 DEF Beside
  <2> QED
    BY <1>2, <2>1, <2>2, RequestKeeps, Zenon
<1>3. CASE AskDriver("resume") /\ crit' = c
  <2>1. drv'.busy = drv.busy /\ drv'.asked = "resume" /\ drv'.agreed = drv.agreed
    BY <1>3 DEF AskDriver, TypeOK, Drivers
  <2> QED
    BY <1>3, <2>1, RequestKeeps DEF AskDriver, Beside
<1>4. CASE /\ task.action \in Short
           /\ pm' = [pm EXCEPT !.task = "resume"]
           /\ crit' = c
           /\ UNCHANGED <<dev, task, drv>>
  <2>1. pm'.task = "resume"
    BY <1>4 DEF TypeOK
  <2>2. Working' /\ Answering' /\ Suspending'
    BY <1>4, <2>1 DEF Safe, Working, QueuedIsFlushed, Suspending, Pending, Answering
  <2>3. Overheating' /\ MarkedAgreed' /\ ReportedSuccess' /\ RemovalKept'
    BY <1>4, <2>1 DEF Safe, Overheating, MarkedAgreed, ReportedSuccess, RemovalKept,
                      tempVars
  <2> QED
    BY <2>2, <2>3 DEF Safe
<1> QED
  BY <1>1, <1>2, <1>3, <1>4 DEF Resume

\* The driver's answer: whoever waits for it waits for nothing else.
LEMMA AnswerKeeps ==
  ASSUME TypeOK, Safe, NEW error \in BOOLEAN, DriverAnswers(error)
  PROVE  Safe'
<1>1. ~crit.suspend /\ ~crit.resume /\ ~Pending("suspended") /\ ~Pending("short")
  BY DEF DriverAnswers, Safe, Answering
<1>2. /\ drv'.busy = drv.busy /\ drv'.asked = "none"
      /\ drv.asked = "suspend" => drv'.agreed = (~error /\ task.action # "NONE")
  BY DEF DriverAnswers, TypeOK, Drivers
<1>3. Beside /\ crit' = crit
  BY <1>2 DEF DriverAnswers, Beside
<1>4. CASE drv.asked = "suspend" /\ SuspendComplete(error)
  <2>1. task.action \in Long => task.action # "NONE"
    BY ActionsAssumption
  <2> QED
    BY <1>1, <1>2, <1>3, <1>4, <2>1, SuspendCompleteKeeps, Zenon
<1>5. CASE ResumeComplete
  BY <1>1, <1>2, <1>3, <1>5, ResumeCompleteKeeps
<1> QED
  BY <1>4, <1>5 DEF DriverAnswers

\* An interactive action starts on a device that is not hot, and is watched.
LEMMA StartLongKeeps ==
  ASSUME TypeOK, Safe, NEW a \in Long, StartLong(a)
  PROVE  Safe'
<1>1. task.action = "NONE" /\ ~dev.suspended /\ a # "NONE"
  BY ActionsAssumption DEF StartLong, MayStart
<1>2. PICK ratio \in Drift :
        \/ Temperature(ratio) # "HOT" /\ UpdateTemp(ratio, TRUE) /\ Begin(a)
        \/ Temperature(ratio) = "HOT" /\ UpdateTemp(ratio, FALSE) /\ UNCHANGED <<task, drv>>
  BY Zenon DEF StartLong
<1>3. CASE Temperature(ratio) # "HOT" /\ UpdateTemp(ratio, TRUE) /\ Begin(a)
  <2>1. ratio \in Bands
    BY DriftTyped DEF TypeOK
  <2>2. has_temp' => temp_current' # "HOT" /\ temp_last_active' /\ temp_timeout'
    <3>1. ratio < 3
      BY <1>3, <2>1 DEF Temperature, Bands
    <3>2. NextThreshold(ratio, TRUE)
      BY <3>1 DEF NextThreshold
    <3> QED
      <4>1. UpdateTemp(ratio, TRUE) /\ Temperature(ratio) # "HOT"
        BY <1>3
      <4>2. /\ has_temp' = has_temp
            /\ has_temp => /\ temp_current' = Temperature(ratio) /\ temp_last_active' = TRUE
                           /\ temp_timeout' = NextThreshold(ratio, TRUE)
        BY <4>1 DEF UpdateTemp, tempVars
      <4> QED
        BY <3>2, <4>1, <4>2, Zenon
  <2>3. /\ task' = NewTask(a)
        /\ drv'.busy /\ drv'.asked = drv.asked
    BY <1>3 DEF Begin, TypeOK, Drivers
  <2>4. Working'
    BY <1>1, <2>3 DEF Safe, Working, QueuedIsFlushed, StartLong, NewTask, NoTask
  <2>5. Answering' /\ Suspending'
    BY <1>1, <2>3 DEF Safe, Answering, Suspending, Pending, StartLong, NewTask, NoTask
  <2>6. Overheating' /\ MarkedAgreed'
    BY <1>1, <2>2, <2>3 DEF Overheating, MarkedAgreed, StartLong, NewTask, NoTask
  <2>7. ReportedSuccess' /\ RemovalKept'
    BY <1>1, <2>3 DEF Safe, Working, ReportedSuccess, RemovalKept, StartLong, NewTask, NoTask
  <2> QED
    BY <2>4, <2>5, <2>6, <2>7 DEF Safe
<1>4. CASE UpdateTemp(ratio, FALSE) /\ UNCHANGED <<task, drv>>
  <2>1. Overheating' /\ MarkedAgreed'
    <3>1. has_temp' => ~temp_last_active'
      BY <1>4, Updated, Zenon
    <3> QED
      BY <1>1, <1>4, <3>1, ActionsAssumption, Zenon DEF Overheating, MarkedAgreed
  <2> QED
    BY <1>4, <2>1 DEF Safe, Working, QueuedIsFlushed, Answering, Suspending, Pending,
                      ReportedSuccess, RemovalKept, StartLong
<1> QED
  BY <1>2, <1>3, <1>4, Zenon

\* A task returns with an empty queue, and hands its handlers on.
LEMMA ReturnKeeps ==
  ASSUME TypeOK, Safe, TaskReturn
  PROVE  Safe'
<1>1. ~drv.busy /\ ~(crit.depth > 0) /\ ~crit.flush
  BY DEF TaskReturn, Safe, Working
<1>2. ~crit.cancel /\ ~crit.suspend /\ ~crit.resume
  BY <1>1 DEF Safe, Working, QueuedIsFlushed
<1>3. /\ task'.action = "NONE" /\ task'.cancellable = "none" /\ ~task'.connected
      /\ ~task'.idle_cancel /\ task'.idle_return = "none" /\ task'.handlers = {}
  BY DEF TaskReturn, NoTask
<1>4. notify = {} /\ notify' = task.handlers
  BY DEF TaskReturn, Safe, Suspending
<1>5. /\ dev'.suspended = dev.suspended /\ dev'.removed = dev.removed
      /\ dev'.emitted = dev.emitted /\ drv'.busy = drv.busy /\ drv'.asked = drv.asked
  BY DEF TaskReturn, TypeOK, Devices, Drivers
<1>6. Working'
  BY <1>1, <1>2, <1>3, <1>5 DEF Working, QueuedIsFlushed, TaskReturn
<1>7. Answering'
  BY <1>2, <1>3, <1>4, <1>5 DEF Safe, Answering, Pending, TaskReturn
<1>8. Suspending'
  <2>1. "suspended" \in task.handlers => Outcome # "error"
    BY DEF Outcome, Safe, Suspending, TypeOK, Tasks
  <2> QED
    BY <1>3, <1>4, <1>5, <2>1, ActionsAssumption DEF Safe, Suspending, Pending, TaskReturn
<1>9. Overheating' /\ MarkedAgreed'
  <2>1. has_temp' => ~temp_last_active'
    BY Updated, Zenon DEF TaskReturn
  <2> QED
    BY <1>3, <2>1, ActionsAssumption, Zenon DEF Overheating, MarkedAgreed
<1>10. ReportedSuccess' /\ RemovalKept'
  BY <1>3, <1>4, <1>5 DEF Safe, ReportedSuccess, RemovalKept
<1> QED
  BY <1>6, <1>7, <1>8, <1>9, <1>10 DEF Safe

\* The source that looks at the queue finds requests of the current task.
LEMMA FlushKeeps ==
  ASSUME TypeOK, Safe, FlushCritical
  PROVE  Safe'
<1>1. CASE crit.cancel /\ crit' = [crit EXCEPT !.cancel = FALSE]
           /\ drv' = [drv EXCEPT !.told = @ \/ CancelDue] /\ UNCHANGED <<dev, task, pm, aborted>>
  <2>1. /\ crit'.depth = crit.depth /\ crit'.flush = crit.flush /\ ~crit'.cancel
        /\ crit'.suspend = crit.suspend /\ crit'.resume = crit.resume
        /\ drv'.busy = drv.busy /\ drv'.asked = drv.asked /\ drv'.agreed = drv.agreed
    BY <1>1 DEF TypeOK, Criticals, Drivers
  <2> QED
    BY <1>1, <2>1 DEF FlushCritical, Safe, Working, QueuedIsFlushed, Answering, Suspending,
                      Pending, Overheating, MarkedAgreed, ReportedSuccess, RemovalKept,
                      tempVars
<1>2. CASE crit.suspend /\ Suspend([crit EXCEPT !.suspend = FALSE])
  <2> DEFINE c == [crit EXCEPT !.suspend = FALSE]
  <2>1. pm.task = "suspend" /\ ~crit.resume /\ ~Pending("suspended") /\ ~Pending("short")
        /\ drv.asked = "none"
    BY <1>2 DEF Safe, Answering, TypeOK, Drivers
  <2>2. ~dev.suspended
    BY <2>1 DEF Safe, Suspending
  <2>3. /\ c \in Criticals
        /\ c.depth = crit.depth /\ c.flush = crit.flush /\ c.cancel = crit.cancel
        /\ ~c.suspend /\ c.resume = crit.resume
    BY Zenon DEF TypeOK, Criticals
  <2> HIDE DEF c
  <2> QED
    BY <1>2, <2>1, <2>2, <2>3, SuspendKeeps, Zenon DEF FlushCritical, c
<1>3. CASE ~crit.suspend /\ crit.resume /\ Resume([crit EXCEPT !.resume = FALSE])
  <2> DEFINE c == [crit EXCEPT !.resume = FALSE]
  <2>1. pm.task = "resume" /\ ~Pending("suspended") /\ ~Pending("short") /\ drv.asked = "none"
    BY <1>3 DEF Safe, Answering, TypeOK, Drivers
  <2>2. /\ c \in Criticals
        /\ c.depth = crit.depth /\ c.flush = crit.flush /\ c.cancel = crit.cancel
        /\ c.suspend = crit.suspend /\ ~c.resume
    BY Zenon DEF TypeOK, Criticals
  <2> HIDE DEF c
  <2> QED
    BY <1>3, <2>1, <2>2, ResumeKeeps, Zenon DEF FlushCritical, c
<1>4. CASE ~crit.cancel /\ ~crit.suspend /\ ~crit.resume
           /\ crit' = [crit EXCEPT !.flush = FALSE] /\ UNCHANGED <<dev, task, pm, drv, aborted>>
  <2>1. /\ crit'.depth = crit.depth /\ crit'.flush = FALSE
        /\ ~crit'.cancel /\ ~crit'.suspend /\ ~crit'.resume
    BY <1>4 DEF TypeOK, Criticals
  <2> QED
    BY <1>4, <2>1 DEF FlushCritical, Safe, Working, QueuedIsFlushed, Answering, Suspending,
                      Pending, Overheating, MarkedAgreed, ReportedSuccess, RemovalKept,
                      tempVars
<1> QED
  BY <1>1, <1>2, <1>3, <1>4 DEF FlushCritical

\* A completed action keeps only the return of its result.
LEMMA CompletesKeeps ==
  ASSUME TypeOK, Safe, NEW given \in BOOLEAN, NEW error \in BOOLEAN, DriverCompletes(given, error)
  PROVE  Safe'
<1>1. /\ task'.action = task.action /\ task'.cancellable = task.cancellable
      /\ task'.reason = task.reason /\ task'.result = task.result
      /\ task'.handlers = task.handlers /\ ~task'.connected /\ ~task'.idle_cancel
      /\ task'.idle_return = Returned(task.action, given, error)
  BY DEF DriverCompletes, clear_device_cancel_action, TypeOK, Tasks
<1>2. /\ Returned(task.action, given, error) # "none"
      /\ Returned(task.action, given, error) = "ok" /\ task.action \in Match
           => task.result = "given"
  BY DEF Returned, Match
<1>3. ~drv'.busy /\ drv'.asked = drv.asked /\ drv'.agreed = drv.agreed
  BY DEF DriverCompletes, TypeOK, Drivers
<1>4. /\ ~(crit'.depth > 0) /\ (crit.depth > 0 \/ crit.flush => crit'.flush)
      /\ crit'.flush => crit'.depth = 0
      /\ crit'.cancel = crit.cancel /\ crit'.suspend = crit.suspend /\ crit'.resume = crit.resume
  <2>1. crit \in Criticals /\ crit.depth \in 0..MaxCritical /\ crit.depth < 2
    BY DEF DriverCompletes, TypeOK, Criticals
  <2>2. CASE crit.depth = 1
    <3>1. /\ crit'.depth = 1 - 1 /\ crit'.flush = TRUE
          /\ crit'.cancel = crit.cancel /\ crit'.suspend = crit.suspend /\ crit'.resume = crit.resume
      BY <2>1, <2>2, Zenon DEF DriverCompletes, Left, Criticals
    <3> QED
      BY <3>1
  <2>3. CASE crit.depth # 1
    <3>1. crit.depth = 0
      BY <2>1, <2>3, ActionsAssumption
    <3> QED
      BY <2>3, <3>1 DEF DriverCompletes
  <2> QED
    BY <2>2, <2>3
<1>5. Working'
  BY <1>1, <1>2, <1>3, <1>4 DEF DriverCompletes, Safe, Working, QueuedIsFlushed
<1>6. Answering' /\ Suspending'
  BY <1>1, <1>3, <1>4 DEF DriverCompletes, Safe, Answering, Suspending, Pending
<1>7. Overheating' /\ MarkedAgreed' /\ ReportedSuccess' /\ RemovalKept'
  BY <1>1, <1>2, <1>3 DEF DriverCompletes, Safe, Overheating, MarkedAgreed,
                          ReportedSuccess, RemovalKept, tempVars
<1> QED
  BY <1>5, <1>6, <1>7 DEF Safe

\* A device that gets hot cancels the interactive action that heats it.
LEMMA TimeoutKeeps ==
  ASSUME TypeOK, Safe, TempTimeout
  PROVE  Safe'
<1>1. PICK ratio \in Crossed :
        /\ UpdateTemp(ratio, temp_last_active)
        /\ task' = IF Temperature(ratio) = "HOT" /\ task.action \in Long
                     THEN CancelledFor(task, "TOO_HOT") ELSE task
  BY DEF TempTimeout
<1>2. /\ task'.action = task.action /\ task'.connected = task.connected
      /\ task'.idle_return = task.idle_return /\ task'.result = task.result
      /\ task'.handlers = task.handlers
      /\ task.reason # "none" => task'.reason # "none"
      /\ task.cancellable = "none" => task'.cancellable = "none"
      /\ task.cancellable # "none" => task'.cancellable # "none"
      /\ task.cancellable = "cancelled" => task'.cancellable = "cancelled"
      /\ task'.idle_cancel => \/ task.idle_cancel
                              \/ task.connected /\ task'.cancellable = "cancelled"
  BY <1>1, CancelledFields DEF TypeOK
<1>3. has_temp /\ task.action \in Long =>
        IF temp_current' = "HOT" THEN task'.cancellable = "cancelled" ELSE temp_timeout'
  <2> SUFFICES ASSUME has_temp, task.action \in Long
               PROVE  IF temp_current' = "HOT" THEN task'.cancellable = "cancelled"
                                               ELSE temp_timeout'
    OBVIOUS
  <2>1. CASE Temperature(ratio) = "HOT"
    <3>1. task.cancellable # "none"
      BY ActionsAssumption DEF Safe, Working
    <3> QED
      <4>1. temp_current' = "HOT"
        BY <1>1, <2>1, Updated, Zenon
      <4> QED
        BY <1>1, <2>1, <3>1, <4>1, CancelledFields DEF TypeOK
  <2>2. CASE Temperature(ratio) # "HOT"
    <3>1. temp_last_active
      BY Zenon DEF Safe, Overheating
    <3>2. ratio < 3
      BY <2>2, DriftTyped DEF Temperature, TypeOK, Bands
    <3> QED
      <4>1. temp_current' # "HOT" /\ temp_timeout' = NextThreshold(ratio, temp_last_active)
        BY <1>1, <2>2, Updated, Zenon
      <4> QED
        BY <3>1, <3>2, <4>1, Zenon DEF NextThreshold
  <2> QED
    BY <2>1, <2>2
<1>4. Working'
  BY <1>2 DEF TempTimeout, Safe, Working, QueuedIsFlushed
<1>5. Answering' /\ Suspending'
  BY <1>2 DEF TempTimeout, Safe, Answering, Suspending, Pending
<1>6. Overheating' /\ MarkedAgreed'
  <2>1. has_temp' = has_temp /\ (has_temp => temp_last_active' = temp_last_active)
    BY <1>1, Updated, Zenon
  <2>2. Overheating'
    BY <1>2, <1>3, <2>1, Zenon DEF Safe, Overheating
  <2>3. MarkedAgreed'
    BY <1>2 DEF TempTimeout, Safe, MarkedAgreed
  <2> QED
    BY <2>2, <2>3
<1>7. ReportedSuccess' /\ RemovalKept'
  BY <1>2, SMTT(30) DEF TempTimeout, Safe, ReportedSuccess, RemovalKept
<1> QED
  BY <1>4, <1>5, <1>6, <1>7 DEF Safe

\* Every step keeps the invariant.
LEMMA SafeStep ==
  ASSUME TypeOK, Safe, [Next]_devVars
  PROVE  Safe'
<1> USE DEF Safe, Working, QueuedIsFlushed, Pending, Answering, Suspending, Overheating,
            MarkedAgreed, ReportedSuccess, RemovalKept
<1>1. ASSUME NEW a \in Long, StartLong(a)
      PROVE  Safe'
  BY <1>1, StartLongKeeps
<1>2. ASSUME NEW a \in Short, StartShort(a)
      PROVE  Safe'
  BY <1>2, ActionsAssumption DEF StartShort, MayStart, Begin, NewTask, NoTask, tempVars,
                                 TypeOK, Drivers
<1>3. CASE Cancel
  BY <1>3 DEF Cancel, Cancelled, tempVars, TypeOK, Tasks
<1>4. CASE fp_device_cancel_in_idle_cb
  BY <1>4, SMTT(30) DEF fp_device_cancel_in_idle_cb, tempVars, TypeOK, Tasks, Criticals, Drivers
<1>5. CASE fp_device_suspend
  <2>1. drv.asked = "none" /\ ~crit.suspend /\ ~crit.resume
        /\ ~Pending("suspended") /\ ~Pending("short")
    BY <1>5, SMTT(30) DEF fp_device_suspend, TypeOK, Drivers
  <2> QED
    BY <1>5, <2>1, SuspendKeeps, Zenon DEF fp_device_suspend, TypeOK
<1>6. CASE fp_device_resume
  <2>1. drv.asked = "none" /\ ~crit.suspend /\ ~crit.resume
        /\ ~Pending("suspended") /\ ~Pending("short")
    BY <1>6 DEF fp_device_resume, TypeOK, Drivers
  <2> QED
    BY <1>6, <2>1, ResumeKeeps DEF fp_device_resume, TypeOK
<1>7. CASE fpi_device_critical_enter
  BY <1>7 DEF fpi_device_critical_enter, tempVars, TypeOK, Criticals
<1>8. CASE fpi_device_critical_leave
  BY <1>8 DEF fpi_device_critical_leave, Left, tempVars, TypeOK, Criticals
<1>9. ASSUME NEW r \in {"given", "error"}, Report(r)
      PROVE  Safe'
  BY <1>9, SMTT(30) DEF Report, tempVars, TypeOK, Tasks
<1>10. ASSUME NEW given \in BOOLEAN, NEW error \in BOOLEAN, DriverCompletes(given, error)
       PROVE  Safe'
  BY <1>10, CompletesKeeps, SMTT(30)
<1>11. ASSUME NEW error \in BOOLEAN, DriverAnswers(error)
       PROVE  Safe'
  BY <1>11, AnswerKeeps, SMTT(30)
<1>12. CASE FlushCritical
  BY <1>12, FlushKeeps, SMTT(30)
<1>13. CASE TempTimeout
  BY <1>13, TimeoutKeeps
<1>14. CASE TaskReturn
  BY <1>14, ReturnKeeps, Zenon
<1>15. CASE Completed
  BY <1>15 DEF Completed, tempVars, TypeOK, Devices
<1>16. CASE fpi_device_remove
  <2>1. /\ task'.action = task.action /\ task'.connected = task.connected
        /\ task'.cancellable = task.cancellable /\ task'.idle_cancel = task.idle_cancel
        /\ task'.idle_return = task.idle_return /\ task'.result = task.result
        /\ task'.reason = task.reason
        /\ task'.handlers = task.handlers \cup (IF task.action = "NONE" THEN {} ELSE {"removed"})
    BY <1>16 DEF fpi_device_remove, TypeOK, Tasks
  <2>2. dev'.suspended = dev.suspended /\ (dev'.emitted \/ task.action # "NONE")
    BY <1>16, Zenon DEF fpi_device_remove, TypeOK, Devices
  <2>3. UNCHANGED <<tempVars, crit, pm, drv, unwinding, notify, outcome>>
    BY <1>16 DEF fpi_device_remove
  <2> QED
    BY <2>1, <2>2, <2>3 DEF tempVars
<1>17. CASE UNCHANGED devVars
  BY <1>17 DEF devVars, tempVars
<1> QED
  BY <1>1, <1>2, <1>3, <1>4, <1>5, <1>6, <1>7, <1>8, <1>9, <1>10, <1>11, <1>12, <1>13,
     <1>14, <1>15, <1>16, <1>17, ZenonT(30) DEF Next, UserStep, DriverStep, LoopStep

\* The invariant holds when the device starts to probe.
LEMMA InitSafe ==
  ASSUME Init
  PROVE  IInv
<1>1. TypeOK
  <2>1. TempTypeOK
    <3>1. 1 \in Bands
      BY DEF Bands
    <3> QED
      BY <3>1, Zenon DEF Init, TempInit, TempTypeOK
  <2>2. task \in Tasks
    BY ActionsAssumption, Zenon DEF Init, NewTask, NoTask, Tasks, Actions, Handlers
  <2>3. crit \in Criticals
    <3>1. 0 \in 0..MaxCritical
      BY ActionsAssumption
    <3> QED
      BY <3>1 DEF Init, Criticals
  <2>4. dev \in Devices /\ drv \in Drivers
    BY DEF Init, Devices, Drivers
  <2> QED
    BY <2>1, <2>2, <2>3, <2>4, Zenon DEF Init, TypeOK
<1>2. Safe
  BY ActionsAssumption DEF Init, TempInit, NewTask, NoTask, Safe, Working, QueuedIsFlushed,
       Pending, Answering, Suspending, Overheating, MarkedAgreed, ReportedSuccess,
       RemovalKept
<1> QED
  BY <1>1, <1>2 DEF IInv

\* The invariant holds in every state of a device.
THEOREM Invariance == Spec => []IInv
<1>1. Init => IInv
  BY InitSafe
<1>2. IInv /\ [Next]_devVars => IInv'
  BY TypeStep, SafeStep DEF IInv
<1> QED
  BY <1>1, <1>2, PTL DEF Spec

\* A request queued in a critical section always has someone who will look at it
\* (fpi_device_critical_leave, fpi_device_critical_section_flush_idle_cb).
THEOREM QueuedIsFlushedHolds == Spec => []QueuedIsFlushed
<1>1. IInv => QueuedIsFlushed
  BY DEF IInv, Safe, Working
<1> QED
  BY <1>1, Invariance, PTL

\* An interactive action is watched for its heat or already cancelled for it
\* (fpi_device_update_temp).
THEOREM OverheatingHolds == Spec => []Overheating
<1>1. IInv => Overheating
  BY DEF IInv, Safe
<1> QED
  BY <1>1, Invariance, PTL

\* The action that a call of suspend found, until it returns.
Caught ==
  /\ caught => task.action # "NONE"
  /\ caught => notify \cap {"suspended", "short"} = {}
  /\ caught /\ pm.task # "suspend" => drv.agreed

\* The completion of suspend leaves the action.
LEMMA CompleteAction ==
  ASSUME task \in Tasks, NEW error \in BOOLEAN, SuspendComplete(error)
  PROVE  task'.action = task.action
<1>1. CancelledFor(task, "BUSY") \in Tasks /\ CancelledFor(task, "BUSY").action = task.action
  BY CancelledTyped, CancelledFields
<1>2. \A t \in Tasks : [t EXCEPT !.handlers = @ \cup {"suspended"}].action = t.action
  BY DEF Tasks
<1> QED
  BY <1>1, <1>2, Zenon DEF SuspendComplete

\* The driver's answer ends the call only for an action it agreed to carry over.
LEMMA AnswerCaught ==
  ASSUME IInv, Caught, NEW error \in BOOLEAN, DriverAnswers(error)
  PROVE  Caught'
<1>1. task'.action = task.action
  BY CompleteAction, Zenon DEF DriverAnswers, ResumeComplete, IInv, TypeOK
<1>2. UNCHANGED <<caught, notify>>
  BY DEF DriverAnswers
<1>3. CASE drv.asked = "suspend"
  <2>1. drv'.agreed = (~error /\ task.action # "NONE")
    BY <1>3 DEF DriverAnswers, IInv, TypeOK, Drivers
  <2>2. error /\ task.action # "NONE" => pm'.task = "suspend"
    BY <1>3 DEF DriverAnswers, SuspendComplete
  <2> QED
    BY <1>1, <1>2, <2>1, <2>2, Zenon DEF Caught
<1>4. CASE drv.asked = "resume"
  <2>1. drv'.agreed = drv.agreed /\ pm.task = "resume"
    BY <1>4 DEF DriverAnswers, IInv, TypeOK, Drivers, Safe, Answering
  <2> QED
    BY <1>1, <1>2, <2>1 DEF Caught
<1> QED
  BY <1>3, <1>4 DEF DriverAnswers, IInv, TypeOK, Drivers

\* fpi_device_suspend, called or from the queue, ends the call only when there is
\* no action.
LEMMA SuspendCaught ==
  ASSUME IInv, NEW c, Suspend(c)
  PROVE  /\ task'.action = task.action
         /\ task.action # "NONE" => pm'.task = "suspend"
<1>1. task \in Tasks
  BY DEF IInv, TypeOK
<1>2. CASE task.action = "NONE" /\ SuspendComplete(FALSE)
  BY <1>2 DEF SuspendComplete
<1>3. CASE pm' = [pm EXCEPT !.task = "suspend"] /\ UNCHANGED task
  BY <1>3 DEF IInv, TypeOK
<1>4. CASE SuspendComplete(TRUE)
  <2>1. task'.action = task.action
    BY <1>1, <1>4, CompleteAction
  <2> QED
    BY <1>4, <2>1 DEF SuspendComplete
<1>5. CASE /\ pm' = [pm EXCEPT !.task = "suspend"]
           /\ task' = [task EXCEPT !.handlers = @ \cup {"short"}]
  BY <1>1, <1>5 DEF Tasks, IInv, TypeOK
<1> QED
  BY <1>2, <1>3, <1>4, <1>5 DEF Suspend, AskDriver

\* Resume meets a call of resume or none.
LEMMA ResumeCaught ==
  ASSUME IInv, Caught, NEW c, Resume(c), pm.task # "suspend", UNCHANGED <<caught, notify>>
  PROVE  Caught'
<1>1. drv'.agreed = drv.agreed /\ UNCHANGED task
  BY DEF Resume, ResumeComplete, AskDriver, IInv, TypeOK, Drivers
<1> QED
  BY <1>1 DEF Caught

\* Every step keeps track of the action that suspend found.
LEMMA CaughtStep ==
  ASSUME IInv, Caught, [Next]_devVars
  PROVE  Caught'
<1>1. ASSUME NEW error \in BOOLEAN, DriverAnswers(error)
      PROVE  Caught'
  BY <1>1, AnswerCaught
<1>2. CASE fp_device_suspend
  <2>1. notify \cap {"suspended", "short"} = {}
    BY <1>2 DEF fp_device_suspend, IInv, Safe, Answering, Pending
  <2>2. caught' = (task.action # "NONE") /\ UNCHANGED notify
    BY <1>2 DEF fp_device_suspend
  <2> QED
    BY <1>2, <2>1, <2>2, SuspendCaught DEF fp_device_suspend, Caught
<1>3. CASE fp_device_resume
  BY <1>3, ResumeCaught DEF fp_device_resume
<1>4. CASE FlushCritical
  <2>1. UNCHANGED <<caught, notify>>
    BY <1>4 DEF FlushCritical
  <2>2. ASSUME Suspend([crit EXCEPT !.suspend = FALSE])
        PROVE  Caught'
    BY <2>1, <2>2, SuspendCaught DEF Caught
  <2>3. ASSUME crit.resume, Resume([crit EXCEPT !.resume = FALSE])
        PROVE  Caught'
    BY <2>1, <2>3, ResumeCaught DEF IInv, Safe, Answering
  <2>4. CASE UNCHANGED <<task, pm>> /\ drv'.agreed = drv.agreed
    BY <2>1, <2>4 DEF Caught
  <2> QED
    BY <1>4, <2>2, <2>3, <2>4 DEF FlushCritical, IInv, TypeOK, Drivers
<1>5. CASE TaskReturn
  BY <1>5 DEF TaskReturn, Caught
<1>6. CASE Completed
  BY <1>6 DEF Completed, Caught
<1>7. CASE /\ UNCHANGED <<caught, notify, pm>> /\ drv'.agreed = drv.agreed
           /\ task.action # "NONE" => task'.action # "NONE"
  BY <1>7 DEF Caught
<1>8. ASSUME NEW a \in Actions, MayStart(a), Begin(a), UNCHANGED <<caught, notify, pm>>
      PROVE  Caught'
  BY <1>8 DEF MayStart, Caught
<1> QED
  <2>1. task \in Tasks /\ drv \in Drivers
    BY DEF IInv, TypeOK
  <2>2. ASSUME NEW a \in Long, StartLong(a)
        PROVE  Caught'
    BY <1>7, <1>8, <2>2 DEF StartLong, Actions
  <2>3. ASSUME NEW a \in Short, StartShort(a)
        PROVE  Caught'
    BY <1>8, <2>3 DEF StartShort, Actions
  <2>4. CASE Cancel \/ TempTimeout \/ fpi_device_remove
    <3>1. task'.action = task.action
      <4>1. CASE Cancel
        BY <2>1, <4>1 DEF Cancel, Cancelled, Tasks
      <4>2. CASE TempTimeout
        BY <2>1, <4>2, CancelledFields DEF TempTimeout
      <4>3. CASE fpi_device_remove
        BY <2>1, <4>3 DEF fpi_device_remove, Tasks
      <4> QED
        BY <2>4, <4>1, <4>2, <4>3
    <3> QED
      BY <1>7, <2>4, <3>1 DEF Cancel, TempTimeout, fpi_device_remove
  <2>5. CASE fp_device_cancel_in_idle_cb \/ fpi_device_critical_enter \/ fpi_device_critical_leave
    BY <1>7, <2>1, <2>5 DEF fp_device_cancel_in_idle_cb, fpi_device_critical_enter,
       fpi_device_critical_leave, Tasks, Drivers
  <2>6. ASSUME NEW r \in {"given", "error"}, Report(r)
        PROVE  Caught'
    BY <1>7, <2>1, <2>6 DEF Report, Tasks
  <2>7. ASSUME NEW given \in BOOLEAN, NEW error \in BOOLEAN, DriverCompletes(given, error)
        PROVE  Caught'
    BY <1>7, <2>1, <2>7 DEF DriverCompletes, clear_device_cancel_action, Tasks, Drivers
  <2>8. CASE UNCHANGED devVars
    BY <1>7, <2>8 DEF devVars
  <2> QED
    BY <1>1, <1>2, <1>3, <1>4, <1>5, <1>6, <2>2, <2>3, <2>4, <2>5, <2>6, <2>7, <2>8
    DEF Next, UserStep, DriverStep, LoopStep

\* When the call of suspend returns, the action it found has returned or its
\* driver agreed to carry it over, and a device marked suspended runs no other
\* interactive action (fp_device_suspend, fpi_device_suspend,
\* fpi_device_suspend_complete).
THEOREM SuspendedActionAgreedHolds == Spec => []SuspendedActionAgreed
<1>1. Init => Caught
  BY DEF Init, Caught
<1>2. IInv /\ Caught /\ [Next]_devVars => Caught'
  BY CaughtStep
<1>3. IInv /\ Caught => SuspendedActionAgreed
  BY Zenon DEF IInv, Safe, Caught, SuspendedActionAgreed
<1> QED
  BY <1>1, <1>2, <1>3, Invariance, PTL DEF Spec

\* An action that suspend cancels does not return the driver's own error, and
\* returns before suspend does (fpi_device_suspend_complete,
\* fp_device_task_return_in_idle_cb).
THEOREM SuspendTellsBusyHolds == Spec => []SuspendTellsBusy
<1>1. IInv => SuspendTellsBusy
  BY DEF IInv, Safe, Answering, Suspending, Pending, SuspendTellsBusy
<1> QED
  BY <1>1, Invariance, PTL

\* A match that returns without an error was reported by the driver
\* (fpi_device_verify_complete, fpi_device_identify_complete).
THEOREM ReportedSuccessHolds == Spec => []ReportedSuccess
<1>1. IInv => ReportedSuccess
  BY DEF IInv, Safe
<1> QED
  BY <1>1, Invariance, PTL

\* No removal is forgotten, even one that comes while a task is returning or
\* before the next one starts (fpi_device_remove).
THEOREM RemovalKeptHolds == Spec => []RemovalKept
<1>1. IInv => RemovalKept
  BY DEF IInv, Safe
<1> QED
  BY <1>1, Invariance, PTL

\* The class's cancel function is called only for a cancelled action that the
\* driver is busy with, and outside its critical section
\* (fp_device_cancel_in_idle_cb, fpi_device_critical_section_flush_idle_cb).
THEOREM CancelOnlyBusyHolds == Spec => CancelOnlyBusy
<1> DEFINE Told == drv'.told /\ ~drv.told
                     => drv.busy /\ task.cancellable = "cancelled" /\ crit.depth = 0
<1>1. ASSUME IInv, Next, drv'.told, ~drv.told
      PROVE  drv.busy /\ task.cancellable = "cancelled" /\ crit.depth = 0
  <2>1. CASE fp_device_cancel_in_idle_cb
    <3>1. crit.depth \in Nat
      BY <1>1, ActionsAssumption DEF IInv, TypeOK, Criticals
    <3>2. ~(crit.depth > 0)
      BY <1>1, <2>1 DEF fp_device_cancel_in_idle_cb
    <3>3. crit.depth = 0
      BY <3>1, <3>2
    <3> QED
      BY <2>1, <3>3, <1>1 DEF fp_device_cancel_in_idle_cb, IInv, Safe, Working
  <2>2. CASE FlushCritical
    <3>1. crit.cancel /\ CancelDue
      BY <1>1, <2>2, Zenon DEF FlushCritical, Suspend, Resume, AskDriver, IInv, TypeOK, Drivers
    <3> QED
      BY <1>1, <2>2, <3>1 DEF FlushCritical, CancelDue, IInv, Safe, Working
  <2>3. CASE UserStep
    BY <1>1, <2>3, ZenonT(30) DEF UserStep, StartLong, StartShort, Begin, Cancel, fp_device_suspend,
                      fp_device_resume, Suspend, Resume, AskDriver, IInv, TypeOK, Drivers
  <2>4. CASE DriverStep
    BY <1>1, <2>4, Zenon DEF DriverStep, fpi_device_critical_enter, fpi_device_critical_leave, Report,
                      DriverCompletes, DriverAnswers, IInv, TypeOK, Drivers
  <2>5. CASE TempTimeout \/ TaskReturn \/ Completed \/ fpi_device_remove
    BY <1>1, <2>5, Zenon DEF TempTimeout, TaskReturn, Completed, fpi_device_remove, IInv, TypeOK, Drivers
  <2> QED
    BY <1>1, <2>1, <2>2, <2>3, <2>4, <2>5 DEF Next, LoopStep
<1>2. IInv /\ [Next]_devVars => [Told]_devVars
  BY <1>1
<1> QED
  BY <1>2, Invariance, PTL DEF Spec, CancelOnlyBusy

=============================================================================
