------------------------------ MODULE Session ------------------------------
(***************************************************************************)
(* The unlocked application: Session, its lock triggers, the teardown of   *)
(* the window, and the workers that type into other windows.               *)
(*                                                                         *)
(* One main thread runs user events, timers and, in their order, the       *)
(* callbacks of GLib.idle_add (idle).  Session.lock is several steps of    *)
(* it (main), between which worker threads and the control thread go on.   *)
(* Two jobs may type at a time: Auto-Type has one busy flag for the        *)
(* application, a strategy test one per editor, and the launcher's "focus" *)
(* brings the hidden window back while a job runs.                         *)
(***************************************************************************)
EXTENDS Naturals, Sequences, FiniteSets

CONSTANTS
  Settings,   \* the settings a user may have: the triggers that are switched on,
              \* and "keep_unlocked", the other usb_removal_action
  SessionId,  \* XDG_SESSION_ID is set
  Window,     \* windows of other programs
  Steps,      \* bound: inputs of a strategy
  MaxIdle,    \* bound: commands and signals waiting in idle at a time
  MaxJobs     \* bound: jobs ever asked for

Trigger == {"idle", "usb", "sleep", "screen"}

ASSUME ConstantsAssumption ==
  /\ Settings \subseteq SUBSET (Trigger \cup {"keep_unlocked"})
  /\ SessionId \in BOOLEAN
  /\ Steps \in Nat /\ MaxIdle \in Nat /\ MaxJobs \in Nat
  /\ Window \cap {"ash", "unknown"} = {}

VARIABLES
  state,     \* Session.state
  main,      \* what is left of the lock() on the main thread
  idle,      \* callbacks of idle_add
  window,    \* the window: the manager's, or the one that only says "locked"
  app,       \* the process: running or gone
  on,        \* settings that are switched on
  watch,     \* sources of locks: logind signals subscribed to, and the tick
  trouble,   \* what a tick should find: the timeout is over, the USB is gone
  focus,     \* the window that has the keyboard: another program's, or "ash"
  context,   \* detected_context
  busy,      \* AccountAutoType.busy
  clip,      \* a secret of ours is on the clipboard, or stuck there: clear_now
             \* could not clear it
  job,       \* the two workers
  jobs,      \* how many were asked for
  locks      \* history: how often on_lock was called

vars == <<state, main, idle, window, app, on, watch, trouble,
          focus, context, busy, clip, job, jobs, locks>>

Job == 1 .. 2
Windows == Window \cup {"ash"}
Contexts == Windows \cup {"unknown"}
JobPc == {"none", "asking", "delay", "work", "check", "act", "finish"}

\* moved: the focus changed since it looked; late, astray: what it sent (history).
NoJob == [kind |-> "none", pc |-> "none", step |-> 1, target |-> "unknown",
          ok |-> FALSE, moved |-> FALSE, late |-> 0, astray |-> FALSE]

Callback == {<<"lock">>, <<"present">>, <<"teardown">>}
            \cup {<<"retarget", w>> : w \in Contexts} \cup {<<"finish", j>> : j \in Job}

TypeOK ==
  /\ state \in {"locked", "unlocked"}
  /\ main \in {"free", "clear"}
  /\ idle \in Seq(Callback) /\ Len(idle) <= MaxIdle + 3
  /\ window \in {"shown", "hidden", "locked", "gone"}
  /\ app \in {"running", "gone"}
  /\ on \in Settings /\ watch \subseteq {"sleep", "screen", "tick"}
  /\ trouble \subseteq {"idle", "usb"}
  /\ focus \in Windows /\ context \in Contexts
  /\ busy \in BOOLEAN /\ clip \in {"none", "secret", "stuck"}
  /\ \A j \in Job :
       /\ job[j].kind \in {"none", "auto", "test"} /\ job[j].pc \in JobPc
       /\ job[j].step \in 1 .. Steps + 1 /\ job[j].target \in Contexts
       /\ job[j].late \in Nat
  /\ jobs \in 0 .. MaxJobs /\ locks \in Nat

\* The watcher is started only if a setting is on; the bus may be unreachable,
\* and without XDG_SESSION_ID the screen lock is not subscribed to.
StartLogindWatcher(settings) ==
  IF settings \cap {"sleep", "screen"} = {} THEN {{}}
  ELSE {{}, IF SessionId THEN {"sleep", "screen"} ELSE {"sleep"}}

\* do_startup and do_activate, with the handle of the sign-in window or of the
\* old flow, whose open may fail.
Init ==
  /\ \/ state = "unlocked" /\ window = "shown"
     \/ state = "locked" /\ window = "locked"
  /\ main = "free" /\ idle = <<>> /\ app = "running"
  /\ on \in Settings
  /\ \E signals \in StartLogindWatcher(on) : watch = signals \cup {"tick"}
  /\ trouble = {}
  /\ focus = "ash" /\ context = "unknown"
  /\ busy = FALSE /\ clip = "none"
  /\ job = [j \in Job |-> NoJob] /\ jobs = 0 /\ locks = 0

Running == app = "running"
Free == Running /\ main = "free"   \* the main thread takes the next event
Unlocked == state = "unlocked"

machine == <<state, main, app, on, watch, clip, locks>>
typing == <<busy, job, jobs>>
world == <<trouble, focus, context>>

\* The focus goes to w; a job that has looked does not see it.
Noticed(j, w) ==
  [job[j] EXCEPT !.moved = @ \/ (job[j].pc = "act" /\ w # focus)]
FocusOn(w) ==
  /\ focus' = w
  /\ job' = [j \in Job |-> Noticed(j, w)]

-----------------------------------------------------------------------------
(* Session.lock and the teardown.                                          *)

\* Mutant: the state is not asked for.
MLock ==
  /\ state' = "locked"
  /\ main' = "clear"
  /\ UNCHANGED locks

\* A second lock does nothing.
Lock ==
  IF state = "locked" THEN UNCHANGED <<state, main, locks>>
  ELSE /\ state' = "locked"
       /\ main' = "clear"
       /\ UNCHANGED locks

\* Mutant: an error of clear_now is not caught.
MLockStep ==
  /\ Running /\ main = "clear"
  /\ main' = "free"
  /\ \/ clip' = "none" /\ locks' = locks + 1 /\ idle' = Append(idle, <<"teardown">>)
     \/ clip # "none" /\ clip' = "stuck" /\ UNCHANGED <<locks, idle>>
  /\ UNCHANGED <<state, window, app, on, watch, world, typing>>

\* Mutant: the clipboard is not cleared.
MClear ==
  /\ Running /\ main = "clear"
  /\ main' = "free"
  /\ locks' = locks + 1
  /\ idle' = Append(idle, <<"teardown">>)
  /\ UNCHANGED <<state, clip, window, app, on, watch, world, typing>>

\* vault.close and clipboard.clear_now, whose tool may fail; then on_lock.
LockStep ==
  /\ Running /\ main = "clear"
  /\ main' = "free"
  /\ clip' \in {"none", IF clip = "none" THEN "none" ELSE "stuck"}
  /\ locks' = locks + 1
  /\ idle' = Append(idle, <<"teardown">>)
  /\ UNCHANGED <<state, window, app, on, watch, world, typing>>

\* destroy_sensitive_state.
NoWindow == window' = "gone"

\* The main loop is left and the process ends, its worker and timer threads
\* with it; what they do until then they could do before this step.
End ==
  /\ app' = "gone" /\ NoWindow
  /\ watch' = {} /\ idle' = <<>>
  /\ job' = [j \in Job |-> NoJob] /\ busy' = FALSE
  /\ trouble' = {} /\ focus' = "ash"
  /\ UNCHANGED <<state, main, on, clip, locks, context, jobs>>

\* _teardown_after_lock.
Teardown ==
  /\ Free /\ idle # <<>> /\ Head(idle) = <<"teardown">>
  /\ End

\* Nothing handles the close request of the window (Escape in the picker, too):
\* the application ends without a lock.
CloseWindow ==
  /\ Free /\ window \in {"shown", "locked"}
  /\ End

-----------------------------------------------------------------------------
(* What waits in idle: locks asked for by the control thread and logind,   *)
(* windows to present, and the results of the jobs.                        *)

\* _present_window; the window that says "locked" is not known to it.
Present ==
  /\ IF window \in {"shown", "hidden"} THEN window' = "shown" /\ FocusOn("ash")
                                       ELSE UNCHANGED <<window, focus, job>>
  /\ UNCHANGED <<machine, trouble, busy, jobs>>

\* update_and_present: a window of ours leaves the last target, as Present.
Retarget(w) == context' = w /\ Present

\* The callbacks of a job: a successful Auto-Type leaves the window hidden.
Finish(j) ==
  /\ busy' = (busy /\ job[j].kind = "test")
  /\ IF Unlocked /\ ~(job[j].kind = "auto" /\ job[j].ok)
       THEN /\ window' = "shown" /\ focus' = "ash"
            /\ job' = [i \in Job |-> IF i = j THEN NoJob ELSE Noticed(i, "ash")]
       ELSE /\ UNCHANGED <<window, focus>>
            /\ job' = [job EXCEPT ![j] = NoJob]
  /\ UNCHANGED <<machine, trouble, context, jobs>>

RunIdle ==
  /\ Free /\ idle # <<>>
  /\ idle' = Tail(idle)
  /\ LET next == Head(idle) IN
       \/ next[1] = "lock" /\ Lock /\ UNCHANGED <<window, app, on, watch, clip, world, typing>>
       \/ next[1] = "present" /\ Present /\ UNCHANGED context
       \/ next[1] = "retarget" /\ Retarget(next[2])
       \/ next[1] = "finish" /\ Finish(next[2])

Later(callback) ==
  /\ Len(idle) < MaxIdle
  /\ idle' = Append(idle, callback)
  /\ UNCHANGED <<machine, window, world, typing>>

\* The commands lock, focus and focus-target, on the control thread.
LockCommand == Running /\ Later(<<"lock">>)
FocusCommand == Running /\ Later(<<"present">>)
FocusTargetCommand == Running /\ \E w \in Window : Later(<<"retarget", w>>)

\* PrepareForSleep and LockedHint: the setting is read now, the lock is later.
LogindSignal == Free /\ watch \cap on # {} /\ Later(<<"lock">>)

\* Ctrl+Q, Ctrl+L and the Lock button.
ManualClose ==
  /\ Free /\ Unlocked /\ window = "shown"
  /\ Lock
  /\ UNCHANGED <<idle, window, app, on, watch, clip, world, typing>>

\* What a tick finds if lsblk answers; without an answer it locks, whatever the
\* action, but what lsblk prints may also not be JSON.
CheckInactivity == "idle" \in trouble \cap on
UsbRemoved == "usb" \in trouble \cap on /\ "keep_unlocked" \notin on
TickLocks == CheckInactivity \/ UsbRemoved
Unanswered == ~CheckInactivity /\ "usb" \in on

\* The ticks that do something: an error that is not a UdisksError ends them all.
Tick ==
  /\ Free /\ Unlocked /\ "tick" \in watch
  /\ \/ (TickLocks \/ Unanswered) /\ Lock /\ UNCHANGED watch
     \/ Unanswered /\ watch' = watch \ {"tick"} /\ UNCHANGED <<state, main, locks>>
  /\ UNCHANGED <<idle, window, app, on, clip, world, typing>>

\* SettingsDialog._on_closed; the watcher stays what it was at the start.
SettingsClosed ==
  /\ Free /\ Unlocked /\ window = "shown"
  /\ on' \in Settings
  /\ UNCHANGED <<state, main, idle, window, app, watch, clip, locks, world, typing>>

-----------------------------------------------------------------------------
(* Jobs: what the main thread does.                                        *)

At(j, pc) == Running /\ job[j].pc = pc
Update(j, new) == job' = [job EXCEPT ![j] = new]

\* A click asks for a new job, the first free one; a question is modal.
Clicked(j, kind, target) ==
  /\ Free /\ Unlocked /\ window = "shown"
  /\ jobs < MaxJobs /\ jobs' = jobs + 1
  /\ At(j, "none")
  /\ \A i \in Job : ~At(i, "asking") /\ (i < j => ~At(i, "none"))
  /\ Update(j, [NoJob EXCEPT !.kind = kind, !.pc = "asking", !.target = target])
  /\ UNCHANGED <<machine, idle, window, world>>

\* AccountAutoType.request: a context that is ours is none.
Request(j) ==
  /\ ~busy
  /\ Clicked(j, "auto", IF context = "ash" THEN "unknown" ELSE context)
  /\ busy' = TRUE

\* _on_test_strategy: _test_running is of one editor, and another can be opened.
TestStrategy(j) == Clicked(j, "test", "unknown") /\ UNCHANGED busy

\* on_response or start_worker gives the job up.
Drop(j) ==
  /\ Update(j, NoJob)
  /\ busy' = (busy /\ job[j].kind = "test")

\* on_response: No, or Yes: the window hides and another one gets the focus.
Answer(j) ==
  /\ Free /\ At(j, "asking")
  /\ \/ Drop(j) /\ UNCHANGED <<window, focus>>
     \/ /\ Unlocked
        /\ window' = "hidden"
        /\ \E w \in Window :
             /\ focus' = w
             /\ job' = [i \in Job |-> IF i = j THEN [job[j] EXCEPT !.pc = "delay"]
                                      ELSE Noticed(i, w)]
        /\ UNCHANGED busy
  /\ UNCHANGED <<machine, idle, trouble, context, jobs>>

\* start_worker, after 250 ms or 5 s.
StartWorker(j) ==
  /\ Free /\ At(j, "delay")
  /\ IF Unlocked THEN Update(j, [job[j] EXCEPT !.pc = "work"]) /\ UNCHANGED busy
                 ELSE Drop(j)
  /\ UNCHANGED <<machine, idle, window, world, jobs>>

-----------------------------------------------------------------------------
(* Jobs: the worker thread.                                                *)

\* The secrets are wiped, and finish is put into idle, also after an error.
Report(j, ok) ==
  /\ Update(j, [job[j] EXCEPT !.pc = "finish", !.ok = ok, !.moved = FALSE])
  /\ idle' = Append(idle, <<"finish", j>>)

Fail(j) == Report(j, FALSE) /\ UNCHANGED focus
Goto(j, pc) == Update(j, [job[j] EXCEPT !.pc = pc]) /\ UNCHANGED <<idle, focus>>
quiet == <<machine, window, trouble, context, busy, jobs>>

\* focus_target_window brings a remembered window back and checks it; otherwise
\* the target is the window the user switched to.  hyprctl may find none; only
\* Auto-Type refuses ASH.
Target(j) ==
  IF job[j].target # "unknown" THEN {job[j].target}
  ELSE IF job[j].kind = "auto" THEN {focus} \ {"ash"} ELSE {focus}

\* select_backend prefers a backend that types, and may find none; the clipboard
\* only stands in where the settings allow it.
Backends == {"types", "pastes", "none"}

\* What typing leaves on the clipboard: a paste copies first, then sends Ctrl+V;
\* what a test copies is no secret.
Typed(j, backend) ==
  IF backend = "types" THEN clip
  ELSE IF job[j].kind = "auto" THEN "secret" ELSE "none"

\* work, up to the secrets: the target, a backend, and the vault, which cannot
\* be had or read when locked.
Work(j) ==
  /\ At(j, "work")
  /\ \/ Fail(j)
     \/ /\ Unlocked
        /\ \E w \in Target(j) :
             /\ focus' = w
             /\ job' = [i \in Job |-> IF i # j THEN Noticed(i, w)
                                      ELSE [job[j] EXCEPT !.target = w, !.pc = "check"]]
        /\ UNCHANGED idle
  /\ UNCHANGED quiet

\* Mutant: one step too many.
MDone(j) == job[j].step > Steps + 1

Done(j) == job[j].step > Steps
Complete(j) == Done(j) /\ Report(j, TRUE) /\ UNCHANGED focus
Cancel(j) == ~Done(j) /\ Fail(j)

\* Mutant: is_cancelled is asked before the first step only.
MCancelled(j) ==
  /\ At(j, "check")
  /\ \/ Complete(j)
     \/ Cancel(j)
     \/ /\ ~Done(j) /\ (Unlocked \/ job[j].step > 1) /\ focus = job[j].target
        /\ Goto(j, "act")
  /\ UNCHANGED quiet

\* Mutant: the window is looked at before the first step only.
MLook(j) ==
  /\ At(j, "check")
  /\ \/ Complete(j)
     \/ Cancel(j)
     \/ /\ ~Done(j) /\ Unlocked /\ (focus = job[j].target \/ job[j].step > 1)
        /\ Goto(j, "act")
  /\ UNCHANGED quiet

\* LoginEngine.run, before each step: is_cancelled, then a look at the window;
\* another one, or none found, stops the login.  A WAIT step only takes time,
\* and asks is_cancelled, as this step does.
Check(j) ==
  /\ At(j, "check")
  /\ \/ Complete(j)
     \/ Cancel(j)
     \/ /\ ~Done(j) /\ Unlocked /\ focus = job[j].target
        /\ Goto(j, "act")
  /\ UNCHANGED quiet

\* What arrives in the window that has the focus.
Astray(j) ==
  \/ focus # job[j].target /\ ~job[j].moved
  \/ job[j].kind = "auto" /\ job[j].target = "ash"

\* _run_step, with the backend of the job, or keys, which are not copied; it may
\* fail, which stops the login.
Act(j) ==
  LET sent == [job[j] EXCEPT !.step = @ + 1, !.moved = FALSE,
                             !.late = IF Unlocked THEN @ ELSE @ + 1,
                             !.astray = @ \/ Astray(j)] IN
  /\ At(j, "act")
  /\ \E backend \in Backends \ {"none"} : clip' = Typed(j, backend)
  /\ \/ Update(j, [sent EXCEPT !.pc = "check"]) /\ UNCHANGED idle
     \/ Update(j, [sent EXCEPT !.pc = "finish"]) /\ idle' = Append(idle, <<"finish", j>>)
  /\ UNCHANGED <<state, main, app, on, watch, locks, window, world, busy, jobs>>

Worker(j) == Work(j) \/ Check(j) \/ Act(j)

-----------------------------------------------------------------------------
(* The user, the desktop and time; each at a moment when it matters.       *)

\* The timer of a copied secret, or another program's copy.
ClipboardClears ==
  /\ Running /\ clip # "none"
  /\ clip' = "none"
  /\ UNCHANGED <<state, main, app, on, watch, locks, idle, window, world, typing>>

SwitchWindow ==
  /\ Running
  /\ \E j \in Job : job[j].pc \in {"delay", "work", "check", "act"}
  /\ \E w \in Windows \ {focus} : (w = "ash" => window = "shown") /\ FocusOn(w)
  /\ UNCHANGED <<machine, idle, window, trouble, context, busy, jobs>>

\* Time passes and the user comes back; the USB is pulled out and put back.
Trouble ==
  /\ Free /\ Unlocked
  /\ \E t \in {"idle", "usb"} : trouble' = (trouble \ {t}) \cup ({t} \ trouble)
  /\ UNCHANGED <<machine, idle, window, focus, context, typing>>

System ==
  \/ LockStep \/ RunIdle \/ Teardown \/ Tick
  \/ \E j \in Job : StartWorker(j) \/ Worker(j)

Environment ==
  \/ LockCommand \/ FocusCommand \/ FocusTargetCommand \/ LogindSignal
  \/ ManualClose \/ SettingsClosed \/ CloseWindow
  \/ ClipboardClears \/ SwitchWindow \/ Trouble
  \/ \E j \in Job : Request(j) \/ TestStrategy(j) \/ Answer(j)

Next == System \/ Environment

\* The main loop runs every callback and timer in the end, and the tools of a
\* worker have timeouts; no tool has to fail.
Fairness ==
  /\ WF_vars(LockStep) /\ WF_vars(RunIdle \/ Teardown)
  /\ \A j \in Job : WF_vars(StartWorker(j)) /\ WF_vars(Worker(j))

Spec == Init /\ [][Next]_vars /\ Fairness

-----------------------------------------------------------------------------
(* Properties.                                                             *)

\* However many triggers come at once, the session is locked once, and its
\* window is torn down once.
OneTeardown ==
  /\ locks + (IF main = "free" THEN 0 ELSE 1) <= 1
  /\ Cardinality({n \in DOMAIN idle : idle[n] = <<"teardown">>}) <= locks

\* "Tools stop before the next step if the session locks": after a lock a
\* worker sends at most the input it was about to send.
AtMostOneLateInput == \A j \in Job : job[j].late <= 1

\* A lock takes a copied secret off the clipboard, unless the tool fails or a
\* worker's late input copies it again.
LockClearsClipboard ==
  locks > 0 /\ clip = "secret" => app = "gone" \/ \E j \in Job : job[j].late > 0

\* What is typed reaches the window it is meant for, unless the focus moved
\* between the look and the key; credentials are never meant for ASH.
NothingGoesAstray == \A j \in Job : ~job[j].astray

\* The window hides for every job that was confirmed, and every one ends: with
\* a result, which brings the window back, or with the application.  And a lock is
\* followed by the end of the process, whatever it interrupts.
EverythingEnds ==
  /\ \A j \in Job : job[j].pc = "delay" ~> job[j].pc = "none"
  /\ main # "free" ~> app = "gone"
=============================================================================
