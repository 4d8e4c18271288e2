-------------------------- MODULE FpContext_proofs --------------------------
(***************************************************************************)
(* Proof that a device in a context behaves as a device, and that the      *)
(* context removes it from its list once, after it was closed, for any set *)
(* of actions and any nesting of critical sections.                        *)
(***************************************************************************)
EXTENDS FpContext, FpDevice_proofs

\* Every step of the context is a step of the device, or none.
LEMMA ContextStep ==
  ASSUME [CtxNext]_vars
  PROVE  [Next]_devVars
<1>1. CASE ~aborted /\ (UserCall \/ Driver \/ Source)
  BY <1>1 DEF UserCall, Driver, Source, Next, LoopStep
<1>2. CASE ~aborted /\ (ProbeReturns \/ ActionReturns \/ HandlersRun)
  BY <1>2 DEF ProbeReturns, ActionReturns, HandlersRun, Next, LoopStep
<1>3. CASE ~aborted /\ usb_device_removed_cb
  BY <1>3 DEF usb_device_removed_cb, Next
<1>4. CASE remove_device_idle_cb
  BY <1>4 DEF remove_device_idle_cb
<1>5. CASE ~aborted /\ fp_context_finalize
  <2>1. CASE task.connected /\ task.cancellable = "live" /\ task' = Cancelled(task)
    BY <1>5, <2>1 DEF fp_context_finalize, Cancel, Next, UserStep
  <2>2. CASE task' = task
    BY <1>5, <2>2 DEF fp_context_finalize, devVars
  <2> QED
    BY <1>5, <2>1, <2>2 DEF fp_context_finalize, Cancelled
<1>6. CASE UNCHANGED vars
  BY <1>6 DEF vars
<1> QED
  BY <1>1, <1>2, <1>3, <1>4, <1>5, <1>6 DEF CtxNext

\* A context adds nothing to what a device may do: whatever is proved of a device
\* on its own holds of one that is listed, unplugged and dropped (fp-context.c).
THEOREM ContextImplementsDevice == CtxSpec => Spec
<1>1. CtxInit => Init
  BY DEF CtxInit
<1>2. [CtxNext]_vars => [Next]_devVars
  BY ContextStep
<1> QED
  BY <1>1, <1>2, PTL DEF CtxSpec, Spec

---------------------------------------------------------------------------
\* What the context knows of the device, and who will remove it.
Listed ==
  /\ removals \in Nat
  /\ task.action = "PROBE" => listing = "pending" /\ ~dev.removed
  /\ task.action \notin {"NONE", "PROBE", "OPEN"} => dev.open
  /\ dev.removed => ~plugged
  /\ dev.emitted => dev.removed /\ task.action # "OPEN"
  /\ Pending("removed") => dev.removed /\ ~dev.emitted
  /\ "removed" \in notify => task.action # "OPEN" /\ "removed" \notin task.handlers
  /\ on_open => dev.emitted
  /\ on_open /\ (dev.open \/ task.action # "NONE") => listing = "listed"
  /\ removals > 0 => dev.emitted
  /\ RemovedClosed
  /\ FinalizedUntouched

CtxInv == IInv /\ Listed

\* A step that leaves alone what the context looks at.
Calm ==
  /\ dev'.open = dev.open /\ dev'.removed = dev.removed /\ dev'.emitted = dev.emitted
  /\ task'.action = task.action
  /\ "removed" \in task'.handlers => "removed" \in task.handlers
  /\ notify' = notify

\* A step that starts an action, which takes a closed device or an open one.
Starts ==
  /\ UNCHANGED <<dev, notify>>
  /\ task.action = "NONE" /\ task'.action # "PROBE" /\ task'.handlers = {}
  /\ task'.action # "OPEN" => dev.open

\* The calls of suspend and resume, and the driver's answers to them, are calm.
LEMMA SuspendCalm ==
  ASSUME TypeOK, NEW c, NEW error \in BOOLEAN, notify' = notify,
         Suspend(c) \/ Resume(c) \/ SuspendComplete(error) \/ ResumeComplete
  PROVE  Calm
<1>1. CASE SuspendComplete(TRUE) \/ SuspendComplete(FALSE) \/ ResumeComplete
  <2>1. dev'.open = dev.open /\ dev'.removed = dev.removed /\ dev'.emitted = dev.emitted
    BY <1>1, Zenon DEF SuspendComplete, ResumeComplete, TypeOK, Devices
  <2>2. CASE task' = [CancelledFor(task, "BUSY") EXCEPT !.handlers = @ \cup {"suspended"}]
    <3> DEFINE u == CancelledFor(task, "BUSY")
    <3>1. u \in Tasks /\ u.action = task.action /\ u.handlers = task.handlers
      BY CancelledTyped, CancelledFields DEF TypeOK
    <3> HIDE DEF u
    <3>2. task'.action = u.action /\ task'.handlers = u.handlers \cup {"suspended"}
      BY <2>2, <3>1 DEF u, Tasks
    <3> QED
      BY <2>1, <3>1, <3>2 DEF Calm
  <2>3. CASE task' = task
    BY <2>1, <2>3 DEF Calm
  <2> QED
    BY <1>1, <2>2, <2>3 DEF SuspendComplete, ResumeComplete
<1>2. CASE dev' = dev /\ task' \in {task, [task EXCEPT !.handlers = @ \cup {"short"}]}
  BY <1>2 DEF Calm, TypeOK, Tasks
<1> QED
  BY <1>1, <1>2, Zenon DEF Suspend, Resume, AskDriver

\* A callback of the driver, and a source that returns no task.
LEMMA StepCalm ==
  ASSUME TypeOK, DriverStep \/ fp_device_cancel_in_idle_cb \/ FlushCritical \/ TempTimeout
  PROVE  Calm
<1>1. CASE fpi_device_critical_enter \/ fpi_device_critical_leave
  BY <1>1 DEF fpi_device_critical_enter, fpi_device_critical_leave, Calm
<1>2. ASSUME NEW r, Report(r)
      PROVE  Calm
  BY <1>2 DEF Report, Calm, TypeOK, Tasks
<1>3. ASSUME NEW given \in BOOLEAN, NEW error \in BOOLEAN, DriverCompletes(given, error)
      PROVE  Calm
  <2>1. task'.action = task.action /\ task'.handlers = task.handlers
    BY <1>3 DEF DriverCompletes, clear_device_cancel_action, TypeOK, Tasks
  <2> QED
    BY <1>3, <2>1 DEF DriverCompletes, Calm
<1>4. ASSUME NEW error \in BOOLEAN, DriverAnswers(error)
      PROVE  Calm
  BY <1>4, SuspendCalm DEF DriverAnswers
<1>5. CASE fp_device_cancel_in_idle_cb
  BY <1>5 DEF fp_device_cancel_in_idle_cb, Calm, TypeOK, Tasks
<1>6. CASE FlushCritical
  <2>1. CASE UNCHANGED <<dev, task>>
    BY <1>6, <2>1 DEF FlushCritical, Calm
  <2>2. CASE \/ Suspend([crit EXCEPT !.suspend = FALSE])
             \/ Resume([crit EXCEPT !.resume = FALSE])
    <3>1. TRUE \in BOOLEAN /\ notify' = notify
      BY <1>6 DEF FlushCritical
    <3> QED
      BY <2>2, <3>1, SuspendCalm, Zenon
  <2> QED
    BY <1>6, <2>1, <2>2 DEF FlushCritical
<1>7. CASE TempTimeout
  <2>1. task'.action = task.action /\ task'.handlers = task.handlers
    BY <1>7, CancelledFields DEF TempTimeout, TypeOK
  <2> QED
    BY <1>7, <2>1 DEF TempTimeout, Calm
<1> QED
  BY <1>1, <1>2, <1>3, <1>4, <1>5, <1>6, <1>7 DEF DriverStep

\* A call of the user is calm or starts an action.
LEMMA UserStepStarts ==
  ASSUME TypeOK, UserStep
  PROVE  Calm \/ Starts
<1>1. ASSUME NEW a \in Actions, StartLong(a) \/ StartShort(a), a # "PROBE"
      PROVE  Calm \/ Starts
  <2>1. UNCHANGED <<dev, notify>> /\ task.action = "NONE" /\ (a # "OPEN" => dev.open)
    BY <1>1, Zenon DEF StartLong, StartShort, MayStart
  <2>2. CASE task' = NewTask(a)
    <3>1. task'.action = a /\ task'.handlers = {}
      BY <2>2 DEF NewTask, NoTask
    <3> QED
      BY <1>1, <2>1, <3>1 DEF Starts
  <2>3. CASE task' = task
    BY <2>1, <2>3 DEF Calm
  <2> QED
    BY <1>1, <2>2, <2>3, Zenon DEF StartLong, StartShort, Begin
<1>2. CASE Cancel
  <2>1. task'.action = task.action /\ task'.handlers = task.handlers
    BY <1>2 DEF Cancel, Cancelled, TypeOK, Tasks
  <2> QED
    BY <1>2, <2>1 DEF Cancel, Calm
<1>3. CASE fp_device_suspend \/ fp_device_resume
  <2>1. (Suspend(crit) \/ Resume(crit)) /\ notify' = notify /\ TRUE \in BOOLEAN
    BY <1>3 DEF fp_device_suspend, fp_device_resume
  <2> QED
    BY <2>1, SuspendCalm, Zenon
<1>4. \A a \in Long : a # "PROBE" /\ a \in Actions
  BY ActionsAssumption DEF Actions
<1>5. \A a \in Short \ {"PROBE"} : a # "PROBE" /\ a \in Actions
  BY DEF Actions
<1> QED
  BY <1>1, <1>2, <1>3, <1>4, <1>5 DEF UserStep

\* Both keep what the context knows, because an unplugged device is not opened.
LEMMA CalmKeeps ==
  ASSUME Listed, UNCHANGED ctxVars,
         Calm \/ (Starts /\ (task'.action = "OPEN" => plugged))
  PROVE  Listed'
<1>1. CASE Calm
  BY <1>1 DEF Listed, Calm, ctxVars, Pending, RemovedClosed, FinalizedUntouched
<1>2. CASE Starts /\ (task'.action = "OPEN" => plugged)
  BY <1>2 DEF Listed, Starts, ctxVars, Pending, RemovedClosed, FinalizedUntouched
<1> QED
  BY <1>1, <1>2

\* The return of a task closes a device or leaves it, unless it opens one that
\* was not removed yet.
LEMMA ReturnListed ==
  ASSUME IInv, Listed, ~aborted, ProbeReturns \/ ActionReturns
  PROVE  Listed'
<1>1. /\ task.action # "NONE"
      /\ task'.action = "NONE" /\ task'.handlers = {} /\ notify' = task.handlers
  <2>1. TaskReturn
    BY DEF ProbeReturns, ActionReturns
  <2>2. task.action # "NONE"
    BY <2>1 DEF TaskReturn, IInv, Safe, Working
  <2> QED
    BY <2>1, <2>2 DEF TaskReturn, NoTask
<1>2. /\ dev'.removed = dev.removed /\ dev'.emitted = dev.emitted
      /\ dev'.open = \/ task.action = "OPEN" /\ task.idle_return = "ok"
                     \/ dev.open /\ task.action # "CLOSE"
  BY Zenon DEF ProbeReturns, ActionReturns, TaskReturn, IInv, TypeOK, Devices
<1>3. removals = 0
  BY <1>1 DEF Listed, RemovedClosed
<1>4. CASE ProbeReturns
  BY <1>1, <1>2, <1>3, <1>4 DEF ProbeReturns, Listed, Pending, RemovedClosed, FinalizedUntouched
<1>5. CASE ActionReturns
  BY <1>1, <1>2, <1>3, <1>5 DEF ActionReturns, Listed, Pending, RemovedClosed, FinalizedUntouched
<1> QED
  BY <1>4, <1>5

\* The signal "removed" finds the device closed and idle, or open.
LEMMA EmissionListed ==
  ASSUME IInv, Listed,
         HandlersRun \/ (fpi_device_remove /\ Removed /\ listing = "listed" /\ context = "alive"
                           /\ plugged' = FALSE /\ UNCHANGED <<context, listing>>)
  PROVE  Listed'
<1>1. CASE HandlersRun
  <2>1. /\ dev'.open = dev.open /\ dev'.removed = dev.removed
        /\ dev'.emitted = (dev.emitted \/ "removed" \in notify)
        /\ task' = task /\ notify' = {}
    BY <1>1 DEF HandlersRun, Completed, IInv, TypeOK, Devices
  <2>2. CASE dev'.emitted /\ ~dev.emitted /\ listing = "listed" /\ context = "alive"
    <3>1. ~(removals > 0) /\ dev.removed /\ task.action \notin {"OPEN", "PROBE"}
      BY <2>1, <2>2, Zenon DEF Listed, Pending
    <3>2. removals = 0
      BY <3>1 DEF Listed
    <3>3. "removed" \notin task'.handlers \cup notify'
      BY <2>1, <2>2, Zenon DEF Listed
    <3>4. device_removed_cb /\ UNCHANGED <<context, listing, plugged>>
      BY <1>1, <2>2 DEF HandlersRun, Removed
    <3>5. CASE dev.open
      <4>1. on_open' = TRUE /\ removals' = 0
        BY <2>1, <3>2, <3>4, <3>5 DEF device_removed_cb
      <4> QED
        BY <2>1, <2>2, <3>1, <3>3, <3>4, <3>5, <4>1
           DEF Listed, Pending, RemovedClosed, FinalizedUntouched
    <3>6. CASE ~dev.open
      <4>1. on_open' = on_open /\ removals' = 1 /\ ~on_open
        BY <2>1, <2>2, <3>2, <3>4, <3>6 DEF device_removed_cb, Listed
      <4>2. task.action = "NONE"
        BY <3>1, <3>6 DEF Listed
      <4> QED
        BY <2>1, <2>2, <3>1, <3>3, <3>4, <3>6, <4>1, <4>2
           DEF Listed, Pending, RemovedClosed, FinalizedUntouched
    <3> QED
      BY <3>5, <3>6
  <2>3. CASE ~(dev'.emitted /\ ~dev.emitted /\ listing = "listed" /\ context = "alive")
    BY <1>1, <2>1, <2>3, Zenon DEF HandlersRun, Removed, Listed, Pending, RemovedClosed,
                            FinalizedUntouched
  <2> QED
    BY <2>2, <2>3
<1>2. CASE fpi_device_remove /\ Removed /\ listing = "listed" /\ context = "alive"
             /\ plugged' = FALSE /\ UNCHANGED <<context, listing>>
  <2>1. /\ dev'.open = dev.open /\ dev'.removed = TRUE /\ ~dev.removed
        /\ dev'.emitted = (task.action = "NONE") /\ notify' = notify
    BY <1>2 DEF fpi_device_remove, IInv, TypeOK, Devices
  <2>2. /\ task'.action = task.action
        /\ task.action = "NONE" => task'.handlers = task.handlers
    BY <1>2 DEF fpi_device_remove, IInv, TypeOK, Tasks
  <2>3. ~(removals > 0) /\ ~dev.emitted /\ ~Pending("removed") /\ ~on_open
        /\ task.action # "PROBE"
    BY <1>2, <2>1 DEF Listed
  <2>4. CASE task.action = "NONE"
    BY <1>2, <2>1, <2>2, <2>3, <2>4 DEF Removed, device_removed_cb, Listed, Pending,
                                        RemovedClosed, FinalizedUntouched
  <2>5. CASE task.action # "NONE"
    BY <1>2, <2>1, <2>2, <2>3, <2>5, Zenon DEF Removed, Listed, Pending, RemovedClosed,
                                        FinalizedUntouched, fpi_device_remove, IInv, Safe, Suspending
  <2> QED
    BY <2>4, <2>5
<1> QED
  BY <1>1, <1>2, Zenon

\* Every step keeps what the context knows.
LEMMA ListedStep ==
  ASSUME IInv, Listed, [CtxNext]_vars
  PROVE  Listed'
<1>1. CASE UserCall
  <2>1. Calm \/ Starts
    BY <1>1, UserStepStarts DEF UserCall, IInv
  <2>2. Starts => (task'.action = "OPEN" => plugged)
    BY <1>1 DEF UserCall, Starts
  <2> QED
    BY <1>1, <2>1, <2>2, CalmKeeps DEF UserCall
<1>2. CASE Driver \/ Source
  BY <1>2, StepCalm, CalmKeeps DEF Driver, Source, IInv
<1>3. CASE ~aborted /\ (ProbeReturns \/ ActionReturns)
  BY <1>3, ReturnListed
<1>4. CASE HandlersRun
  BY <1>4, EmissionListed
<1>5. CASE usb_device_removed_cb
  <2>1. CASE listing = "listed" /\ context = "alive"
    BY <1>5, <2>1, EmissionListed, Zenon DEF usb_device_removed_cb
  <2>2. CASE ~(listing = "listed" /\ context = "alive")
    BY <1>5, <2>2 DEF usb_device_removed_cb, devVars, Listed, Pending, RemovedClosed,
                      FinalizedUntouched
  <2> QED
    BY <2>1, <2>2
<1>6. CASE remove_device_idle_cb
  BY <1>6 DEF remove_device_idle_cb, devVars, Listed, Pending, RemovedClosed, FinalizedUntouched
<1>7. CASE fp_context_finalize
  <2>1. task'.action = task.action /\ task'.handlers = task.handlers
    BY <1>7 DEF fp_context_finalize, Cancelled, IInv, TypeOK, Tasks
  <2> QED
    BY <1>7, <2>1 DEF fp_context_finalize, Listed, Pending, RemovedClosed, FinalizedUntouched
<1>8. CASE UNCHANGED vars
  BY <1>8 DEF vars, devVars, ctxVars, Listed, Pending, RemovedClosed, FinalizedUntouched
<1> QED
  BY <1>1, <1>2, <1>3, <1>4, <1>5, <1>6, <1>7, <1>8 DEF CtxNext

\* The invariant holds in every state of a context.
THEOREM ContextInvariance == CtxSpec => []CtxInv
<1>1. CtxInit => Listed
  BY DEF CtxInit, Init, NewTask, NoTask, Listed, Pending, RemovedClosed, FinalizedUntouched
<1>2. IInv /\ Listed /\ [CtxNext]_vars => Listed'
  BY ListedStep
<1>3. CtxSpec => []IInv
  BY ContextImplementsDevice, Invariance, PTL
<1> QED
  BY <1>1, <1>2, <1>3, PTL DEF CtxSpec, CtxInv

\* The source that emits device-removed is queued once, for a device that is
\* closed, idle and not used again (remove_device, device_removed_cb,
\* device_remove_on_notify_open_cb).
THEOREM RemovedClosedHolds == CtxSpec => []RemovedClosed
<1>1. CtxInv => RemovedClosed
  BY DEF CtxInv, Listed
<1> QED
  BY <1>1, ContextInvariance, PTL

\* A finalized context is not touched again (fp_context_finalize,
\* async_device_init_done_cb).
THEOREM FinalizedUntouchedHolds == CtxSpec => []FinalizedUntouched
<1>1. CtxInv => FinalizedUntouched
  BY DEF CtxInv, Listed
<1> QED
  BY <1>1, ContextInvariance, PTL

\* What the context's own variables may hold.
Own ==
  /\ context \in {"alive", "finalized"}
  /\ listing \in {"pending", "listed", "ignored", "dropped"}
  /\ plugged \in BOOLEAN
  /\ on_open \in BOOLEAN

\* Every step keeps them there.
LEMMA OwnStep ==
  ASSUME Own, [CtxNext]_vars
  PROVE  Own'
<1>1. Removed => on_open' \in BOOLEAN
  BY Zenon DEF Removed, device_removed_cb, Own
<1>2. CASE UserCall \/ Driver \/ Source
  BY <1>2 DEF UserCall, Driver, Source, ctxVars, Own
<1>3. CASE ProbeReturns \/ ActionReturns
  BY <1>3 DEF ProbeReturns, ActionReturns, Own
<1>4. CASE HandlersRun \/ usb_device_removed_cb
  BY <1>1, <1>4, Zenon DEF HandlersRun, usb_device_removed_cb, Own
<1>5. CASE remove_device_idle_cb \/ fp_context_finalize
  BY <1>5, Zenon DEF remove_device_idle_cb, fp_context_finalize, Own
<1>6. CASE UNCHANGED vars
  BY <1>6 DEF vars, ctxVars, Own
<1> QED
  BY <1>2, <1>3, <1>4, <1>5, <1>6 DEF CtxNext

\* The context and its device stay within their types; at most one source that
\* removes the device is ever queued (remove_device).
THEOREM ContextTyped == CtxSpec => []CtxTypeOK
<1>1. CtxInit => Own
  BY Zenon DEF CtxInit, Own
<1>2. Own /\ [CtxNext]_vars => Own'
  BY OwnStep
<1>3. Own /\ CtxInv => CtxTypeOK
  BY DEF Own, CtxInv, IInv, Listed, RemovedClosed, CtxTypeOK
<1> QED
  BY <1>1, <1>2, <1>3, ContextInvariance, PTL DEF CtxSpec

=============================================================================
