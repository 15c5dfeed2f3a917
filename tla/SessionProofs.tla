---------------------------- MODULE SessionProofs ----------------------------
(***************************************************************************)
(* Theorems about Session, for any windows, settings and numbers of inputs, *)
(* waiting commands and jobs.                                              *)
(***************************************************************************)
EXTENDS Session, SequenceTheorems, FiniteSetTheorems, TLAPS

JobType ==
  [kind : {"none", "auto", "test"}, pc : JobPc, step : 1 .. Steps + 1,
   target : Contexts, ok : BOOLEAN, moved : BOOLEAN, late : Nat, astray : BOOLEAN]

\* TypeOK with whole records, and without the length of idle and busy.
Types ==
  /\ state \in {"locked", "unlocked"}
  /\ main \in {"free", "clear"}
  /\ idle \in Seq(Callback)
  /\ window \in {"shown", "hidden", "locked", "gone"}
  /\ app \in {"running", "gone"}
  /\ on \in Settings /\ watch \subseteq {"sleep", "screen", "tick"}
  /\ trouble \subseteq {"idle", "usb"}
  /\ focus \in Windows /\ context \in Contexts
  /\ clip \in {"none", "secret", "stuck"}
  /\ job \in [Job -> JobType]
  /\ jobs \in 0 .. MaxJobs /\ locks \in {0, 1}

\* Before the lock nothing was locked; on_lock comes at the end of lock().
LockedOnce ==
  /\ Unlocked => main = "free" /\ locks = 0
  /\ main = "clear" => locks = 0

Finishing(j) == IF job[j].pc = "finish" THEN 1 ELSE 0
Position == 1 .. Len(idle)

\* Beside commands and signals, idle has a callback per finished job and one
\* teardown, which stays until the application ends.
Queue ==
  /\ Len(idle) <= MaxIdle + locks + Finishing(1) + Finishing(2)
  /\ \A n \in Position, j \in Job : idle[n] = <<"finish", j>> => job[j].pc = "finish"
  /\ \A n \in Position : idle[n] = <<"teardown">> => locks = 1
  /\ \A m, n \in Position :
       idle[m] = idle[n] /\ idle[m][1] \in {"finish", "teardown"} => m = n
  /\ Running /\ locks = 1 => \E n \in Position : idle[n] = <<"teardown">>

\* What a job has sent, and that its window was looked at before it sends.
Careful(j) ==
  /\ job[j].late <= 1
  /\ job[j].late > 0 => ~Unlocked /\ job[j].pc \in {"check", "finish"}
  /\ ~job[j].astray
  /\ job[j].kind = "auto" => job[j].target # "ash"
  /\ job[j].pc = "act" =>
       job[j].step <= Steps /\ (job[j].moved \/ focus = job[j].target)

\* The job whose late input copied a secret after the lock is not taken off
\* before the application is torn down.
LateCopy ==
  locks = 1 /\ clip = "secret" /\ Running =>
    \E j \in Job, n \in Position :
      /\ job[j].late > 0 /\ idle[n] = <<"teardown">>
      /\ \A m \in Position : idle[m] = <<"finish", j>> => n < m

Inv == Types /\ busy \in BOOLEAN /\ LockedOnce /\ Queue /\ (\A j \in Job : Careful(j)) /\ LateCopy

-----------------------------------------------------------------------------
(* Callbacks and records.                                                  *)

LEMMA CallbackFacts ==
  /\ \A c \in Callback : c[1] = "finish" => c[2] \in Job /\ c = <<"finish", c[2]>>
  /\ \A c \in Callback : c[1] = "retarget" => c[2] \in Contexts /\ c = <<"retarget", c[2]>>
  /\ \A c \in Callback : c[1] = "teardown" => c = <<"teardown">>
  /\ \A j \in Job : <<"finish", j>> \in Callback /\ <<"finish", j>>[1] = "finish"
                    /\ <<"finish", j>>[2] = j
  /\ <<"teardown">> \in Callback /\ <<"teardown">>[1] = "teardown"
  BY DEF Callback

LEMMA NoJobFacts ==
  /\ NoJob \in JobType
  /\ NoJob.pc = "none" /\ NoJob.kind = "none" /\ NoJob.late = 0 /\ NoJob.astray = FALSE
  BY ConstantsAssumption DEF NoJob, JobType, JobPc, Contexts, ConstantsAssumption

\* What a job that is not the one that steps may see of the step.
LEMMA NoticedFacts ==
  ASSUME NEW i \in Job, job \in [Job -> JobType], NEW w
  PROVE  /\ Noticed(i, w) \in JobType
         /\ \A f \in {"kind", "pc", "step", "target", "ok", "late", "astray"} :
              Noticed(i, w)[f] = job[i][f]
         /\ Noticed(i, w).moved = (job[i].moved \/ (job[i].pc = "act" /\ w # focus))
         /\ w = focus => Noticed(i, w) = job[i]
  BY DEF Noticed, JobType

\* A job that moves on to pc, that ends, and that fixes its target.
LEMMA MovesOn ==
  ASSUME NEW r \in JobType, NEW pc \in JobPc, NEW new, new = [r EXCEPT !.pc = pc]
  PROVE  /\ new \in JobType /\ new.pc = pc /\ new.late = r.late /\ new.astray = r.astray
         /\ new.kind = r.kind /\ new.target = r.target /\ new.step = r.step
  BY DEF JobType

LEMMA Ends ==
  ASSUME NEW r \in JobType, NEW ok \in BOOLEAN
  PROVE  LET new == [r EXCEPT !.pc = "finish", !.ok = ok, !.moved = FALSE]
         IN  /\ new \in JobType /\ new.pc = "finish" /\ new.late = r.late
             /\ new.astray = r.astray /\ new.kind = r.kind /\ new.target = r.target
<1>1. "finish" \in JobPc
  BY DEF JobPc
<1>2. QED
  BY <1>1 DEF JobType

LEMMA TakesTarget ==
  ASSUME NEW r \in JobType, NEW w \in Contexts
  PROVE  LET new == [r EXCEPT !.target = w, !.pc = "check"]
         IN  /\ new \in JobType /\ new.pc = "check" /\ new.late = r.late
             /\ new.astray = r.astray /\ new.kind = r.kind /\ new.target = w
<1>1. "check" \in JobPc
  BY DEF JobPc
<1>2. QED
  BY <1>1 DEF JobType

LEMMA Length ==
  ASSUME idle \in Seq(Callback)
  PROVE  Len(idle) \in Nat /\ \A n \in Position : idle[n] \in Callback
  BY DEF Position

LEMMA InitInv == Init => Inv
<1> SUFFICES ASSUME Init PROVE Inv
  OBVIOUS
<1>1. Types
  <2>1. watch \subseteq {"sleep", "screen", "tick"}
    BY DEF Init, StartLogindWatcher
  <2>2. job \in [Job -> JobType]
    BY NoJobFacts DEF Init
  <2>3. focus \in Windows /\ context \in Contexts
    BY DEF Init, Windows, Contexts
  <2>4. jobs \in 0 .. MaxJobs
    BY ConstantsAssumption DEF Init, ConstantsAssumption
  <2>5. idle \in Seq(Callback)
    BY DEF Init
  <2>6. QED
    BY <2>1, <2>2, <2>3, <2>4, <2>5 DEF Init, Types
<1>2. LockedOnce
  BY DEF Init, LockedOnce, Unlocked
<1>3. Queue
  BY ConstantsAssumption, NoJobFacts
     DEF Init, Queue, Position, Finishing, Job, ConstantsAssumption
<1>4. \A j \in Job : Careful(j)
  BY NoJobFacts DEF Init, Careful
<1>5. LateCopy
  BY DEF Init, LateCopy
<1>6. busy \in BOOLEAN
  BY DEF Init
<1>7. QED
  BY <1>1, <1>2, <1>3, <1>4, <1>5, <1>6 DEF Inv

-----------------------------------------------------------------------------
(* What a step does to the jobs: one of them becomes new, the others may    *)
(* notice that the focus moved.                                            *)

Becomes(j, new) ==
  /\ new \in JobType
  /\ job' = [i \in Job |-> IF i = j THEN new ELSE Noticed(i, focus')]

\* Careful, of what j becomes.
Allowed(new) ==
  /\ new.late <= 1
  /\ new.late > 0 => ~Unlocked' /\ new.pc \in {"check", "finish"}
  /\ ~new.astray
  /\ new.kind = "auto" => new.target # "ash"
  /\ new.pc = "act" => new.step <= Steps /\ (new.moved \/ focus' = new.target)

\* Whether a callback of i is waiting does not change.
SameFinish(i) == job'[i].pc = "finish" <=> job[i].pc = "finish"
StillLate(i) == job[i].late > 0 => job'[i].late > 0

LEMMA OthersCareful ==
  ASSUME job \in [Job -> JobType], NEW i \in Job, Careful(i),
         job'[i] = Noticed(i, focus'), Unlocked' => Unlocked
  PROVE  /\ job'[i] \in JobType /\ Careful(i)'
         /\ job'[i].pc = job[i].pc /\ SameFinish(i) /\ StillLate(i)
<1>1. /\ job'[i] \in JobType
      /\ job'[i].late = job[i].late /\ job'[i].astray = job[i].astray
      /\ job'[i].kind = job[i].kind /\ job'[i].target = job[i].target
      /\ job'[i].pc = job[i].pc /\ job'[i].step = job[i].step
  BY NoticedFacts
<1>2. job'[i].moved = (job[i].moved \/ (job[i].pc = "act" /\ focus' # focus))
  BY NoticedFacts
<1>3. QED
  BY <1>1, <1>2 DEF Careful, SameFinish, StillLate

LEMMA BecomesCareful ==
  ASSUME job \in [Job -> JobType], \A i \in Job : Careful(i), Unlocked' => Unlocked,
         NEW j \in Job, NEW new, Becomes(j, new), Allowed(new)
  PROVE  /\ job' \in [Job -> JobType]
         /\ \A i \in Job : Careful(i)'
         /\ job'[j] = new
         /\ \A i \in Job \ {j} : job'[i].pc = job[i].pc /\ SameFinish(i) /\ StillLate(i)
<1>1. job'[j] = new /\ new \in JobType
  BY DEF Becomes
<1>2. Careful(j)'
  BY <1>1 DEF Careful, Allowed, Unlocked
<1>3. \A i \in Job \ {j} : job'[i] = Noticed(i, focus')
  BY DEF Becomes
<1>4. \A i \in Job \ {j} :
        /\ job'[i] \in JobType /\ Careful(i)'
        /\ job'[i].pc = job[i].pc /\ SameFinish(i) /\ StillLate(i)
  BY <1>3, OthersCareful
<1>5. job' \in [Job -> JobType]
  <2>1. job' = [i \in Job |-> IF i = j THEN new ELSE Noticed(i, focus')]
    BY DEF Becomes
  <2>2. \A i \in Job : job'[i] \in JobType
    BY <1>1, <1>4
  <2>3. QED
    BY <2>1, <2>2
<1>6. QED
  BY <1>1, <1>2, <1>4, <1>5

LEMMA SameJobs ==
  ASSUME job \in [Job -> JobType], \A i \in Job : Careful(i), Unlocked' => Unlocked,
         UNCHANGED <<job, focus>>
  PROVE  /\ job' \in [Job -> JobType]
         /\ \A i \in Job : Careful(i)' /\ SameFinish(i) /\ StillLate(i)
  BY DEF Careful, SameFinish, StillLate, Unlocked

LEMMA FocusMoves ==
  ASSUME job \in [Job -> JobType], \A i \in Job : Careful(i), Unlocked' => Unlocked,
         NEW w, FocusOn(w)
  PROVE  /\ job' \in [Job -> JobType]
         /\ \A i \in Job : Careful(i)' /\ SameFinish(i) /\ StillLate(i)
<1>1. \A i \in Job : job'[i] = Noticed(i, focus')
  BY DEF FocusOn
<1>2. \A i \in Job : /\ job'[i] \in JobType /\ Careful(i)'
                     /\ SameFinish(i) /\ StillLate(i)
  BY <1>1, OthersCareful
<1>3. job' = [i \in Job |-> Noticed(i, focus')]
  BY DEF FocusOn
<1>4. QED
  BY <1>2, <1>3

-----------------------------------------------------------------------------
(* What a step does to idle.                                               *)

LEMMA QueueKept ==
  ASSUME Types, Queue, UNCHANGED <<idle, locks, app>>, \A i \in Job : SameFinish(i)
  PROVE  Queue'
<1>1. Finishing(1)' = Finishing(1) /\ Finishing(2)' = Finishing(2)
  BY DEF Finishing, SameFinish, Job
<1>2. QED
  BY <1>1 DEF Queue, Position, SameFinish, Running

LEMMA QueueLater ==
  ASSUME Types, Queue, UNCHANGED <<locks, app>>, \A i \in Job : SameFinish(i),
         NEW c \in Callback, c[1] \notin {"finish", "teardown"},
         Len(idle) < MaxIdle, idle' = Append(idle, c)
  PROVE  Queue' /\ idle' \in Seq(Callback)
<1>1. /\ Len(idle) \in Nat /\ idle' \in Seq(Callback) /\ Len(idle') = Len(idle) + 1
      /\ \A n \in 1 .. Len(idle) : idle'[n] = idle[n]
      /\ idle'[Len(idle) + 1] = c
  BY AppendProperties, Length DEF Types
<1>2. Finishing(1)' \in {0, 1} /\ Finishing(2)' \in {0, 1} /\ locks' \in {0, 1} /\ MaxIdle \in Nat
  BY ConstantsAssumption DEF Finishing, Types, ConstantsAssumption
<1>3. Len(idle') <= MaxIdle + locks' + Finishing(1)' + Finishing(2)'
  BY <1>1, <1>2
<1>4. c # <<"teardown">> /\ \A j \in Job : c # <<"finish", j>>
  BY CallbackFacts
<1>5. QED
  BY <1>1, <1>3, <1>4, SMTT(30) DEF Queue, Position, SameFinish, Running

\* A callback of j that was not there yet.
LEMMA QueueFinish ==
  ASSUME Types, Queue, UNCHANGED <<locks, app>>,
         NEW j \in Job, job[j].pc # "finish", job'[j].pc = "finish",
         \A i \in Job \ {j} : SameFinish(i), idle' = Append(idle, <<"finish", j>>)
  PROVE  Queue' /\ idle' \in Seq(Callback)
<1> DEFINE c == <<"finish", j>>
<1>1. c \in Callback /\ c # <<"teardown">> /\ c[1] = "finish"
      /\ \A i \in Job : c = <<"finish", i>> => i = j
  BY CallbackFacts
<1> HIDE DEF c
<1>2. /\ Len(idle) \in Nat /\ idle' \in Seq(Callback) /\ Len(idle') = Len(idle) + 1
      /\ \A n \in 1 .. Len(idle) : idle'[n] = idle[n]
      /\ idle'[Len(idle) + 1] = c
  BY <1>1, AppendProperties, Length DEF Types, c
<1>3. Len(idle') <= MaxIdle + locks' + Finishing(1)' + Finishing(2)'
  <2>1. Finishing(1)' + Finishing(2)' = Finishing(1) + Finishing(2) + 1
    BY DEF Finishing, SameFinish, Job
  <2>2. Finishing(1) \in {0, 1} /\ Finishing(2) \in {0, 1} /\ locks \in {0, 1} /\ MaxIdle \in Nat
    BY ConstantsAssumption DEF Finishing, Types, ConstantsAssumption
  <2>3. Finishing(1)' \in {0, 1} /\ Finishing(2)' \in {0, 1}
    BY DEF Finishing
  <2>4. Len(idle) <= MaxIdle + locks + Finishing(1) + Finishing(2)
    BY DEF Queue
  <2>5. QED
    BY <1>2, <2>1, <2>2, <2>3, <2>4
<1>4. \A n \in 1 .. Len(idle) : idle[n] # c
  BY DEF Queue, Position, c
<1>5. \A n \in Position', i \in Job : idle'[n] = <<"finish", i>> => job'[i].pc = "finish"
  <2> SUFFICES ASSUME NEW n \in Position', NEW i \in Job, idle'[n] = <<"finish", i>>
               PROVE  job'[i].pc = "finish"
    OBVIOUS
  <2>1. CASE n = Len(idle) + 1
    BY <1>1, <1>2, <2>1 DEF SameFinish
  <2>2. CASE n \in Position
    BY <1>2, <2>2 DEF Queue, Position, SameFinish
  <2>3. QED
    BY <1>2, <2>1, <2>2 DEF Position
<1>6. \A n \in Position' : idle'[n] = <<"teardown">> => locks' = 1
  BY <1>1, <1>2 DEF Queue, Position
<1>7. \A m, n \in Position' :
        idle'[m] = idle'[n] /\ idle'[m][1] \in {"finish", "teardown"} => m = n
  BY <1>2, <1>4 DEF Queue, Position
<1>8. Running' /\ locks' = 1 => \E n \in Position' : idle'[n] = <<"teardown">>
  BY <1>2 DEF Queue, Position, Running
<1>9. QED
  BY <1>2, <1>3, <1>5, <1>6, <1>7, <1>8 DEF Queue

\* The callback of LockStep.
LEMMA QueueTeardown ==
  ASSUME Types, Queue, locks = 0, locks' = 1, UNCHANGED app,
         \A i \in Job : SameFinish(i), idle' = Append(idle, <<"teardown">>)
  PROVE  Queue' /\ idle' \in Seq(Callback)
<1> DEFINE c == <<"teardown">>
<1>1. c \in Callback /\ c[1] = "teardown" /\ \A i \in Job : c # <<"finish", i>>
  BY CallbackFacts
<1> HIDE DEF c
<1>2. /\ Len(idle) \in Nat /\ idle' \in Seq(Callback) /\ Len(idle') = Len(idle) + 1
      /\ \A n \in 1 .. Len(idle) : idle'[n] = idle[n]
      /\ idle'[Len(idle) + 1] = c
  BY <1>1, AppendProperties, Length DEF Types, c
<1>3. Len(idle') <= MaxIdle + locks' + Finishing(1)' + Finishing(2)'
  <2>1. Finishing(1)' = Finishing(1) /\ Finishing(2)' = Finishing(2)
    BY DEF Finishing, SameFinish, Job
  <2>2. Finishing(1) \in {0, 1} /\ Finishing(2) \in {0, 1} /\ MaxIdle \in Nat
    BY ConstantsAssumption DEF Finishing, ConstantsAssumption
  <2>3. Len(idle) <= MaxIdle + 0 + Finishing(1) + Finishing(2)
    BY DEF Queue
  <2>4. QED
    BY <1>2, <2>1, <2>2, <2>3
<1>4. \A n \in 1 .. Len(idle) : idle[n] # c
  BY DEF Queue, Position, c
<1>5. \A n \in Position', i \in Job : idle'[n] = <<"finish", i>> => job'[i].pc = "finish"
  <2> SUFFICES ASSUME NEW n \in Position', NEW i \in Job, idle'[n] = <<"finish", i>>
               PROVE  job'[i].pc = "finish"
    OBVIOUS
  <2>1. CASE n = Len(idle) + 1
    BY <1>1, <1>2, <2>1 DEF SameFinish
  <2>2. CASE n \in Position
    BY <1>2, <2>2 DEF Queue, Position, SameFinish
  <2>3. QED
    BY <1>2, <2>1, <2>2 DEF Position
<1>6. \A n \in Position' : idle'[n] = <<"teardown">> => locks' = 1
  BY <1>2 DEF Queue, Position
<1>7. \A m, n \in Position' :
        idle'[m] = idle'[n] /\ idle'[m][1] \in {"finish", "teardown"} => m = n
  BY <1>2, <1>4 DEF Queue, Position
<1>8. Running' /\ locks' = 1 => \E n \in Position' : idle'[n] = <<"teardown">>
  BY <1>2 DEF Position, c
<1>9. QED
  BY <1>2, <1>3, <1>5, <1>6, <1>7, <1>8 DEF Queue

\* The first callback is taken; the job it finishes has no other.
LEMMA QueuePopped ==
  ASSUME Types, Queue, UNCHANGED <<locks, app>>, idle # <<>>, idle' = Tail(idle),
         Head(idle) # <<"teardown">>,
         \A i \in Job : SameFinish(i) \/ (Head(idle) = <<"finish", i>> /\ job'[i].pc # "finish"),
         \A i \in Job : Head(idle) = <<"finish", i>> => \A k \in Job \ {i} : SameFinish(k)
  PROVE  /\ Queue' /\ idle' \in Seq(Callback) /\ Len(idle') = Len(idle) - 1
         /\ \A n \in 1 .. Len(idle') : idle'[n] = idle[n + 1]
<1>1. /\ Len(idle) \in Nat /\ Len(idle) > 0 /\ idle' \in Seq(Callback)
      /\ Len(idle') = Len(idle) - 1
      /\ \A n \in 1 .. Len(idle') : idle'[n] = idle[n + 1]
      /\ Head(idle) = idle[1]
  BY HeadTailProperties, EmptySeq, Length DEF Types
<1>2. Len(idle') <= MaxIdle + locks' + Finishing(1)' + Finishing(2)'
  <2>1. Finishing(1)' + Finishing(2)' >= Finishing(1) + Finishing(2) - 1
    BY DEF Finishing, SameFinish, Job
  <2>2. Finishing(1) \in {0, 1} /\ Finishing(2) \in {0, 1} /\ locks \in {0, 1} /\ MaxIdle \in Nat
    BY ConstantsAssumption DEF Finishing, Types, ConstantsAssumption
  <2>3. Finishing(1)' \in {0, 1} /\ Finishing(2)' \in {0, 1}
    BY DEF Finishing
  <2>4. Len(idle) <= MaxIdle + locks + Finishing(1) + Finishing(2)
    BY DEF Queue
  <2>5. QED
    BY <1>1, <2>1, <2>2, <2>3, <2>4
<1>3. \A n \in 1 .. Len(idle'), j \in Job : idle'[n] = <<"finish", j>> => job'[j].pc = "finish"
  <2> SUFFICES ASSUME NEW n \in 1 .. Len(idle'), NEW j \in Job, idle'[n] = <<"finish", j>>
               PROVE  job'[j].pc = "finish"
    OBVIOUS
  <2>1. idle[n + 1] = <<"finish", j>> /\ n + 1 \in Position /\ 1 \in Position
    BY <1>1 DEF Position
  <2>2. job[j].pc = "finish"
    BY <2>1 DEF Queue
  <2>3. Head(idle) # <<"finish", j>>
    <3> SUFFICES ASSUME idle[1] = <<"finish", j>> PROVE FALSE
      BY <1>1
    <3>1. idle[1] = idle[n + 1] /\ idle[1][1] = "finish"
      BY <2>1, CallbackFacts
    <3>2. 1 = n + 1
      BY <2>1, <3>1 DEF Queue
    <3>3. QED
      BY <1>1, <3>2
  <2>4. QED
    BY <2>2, <2>3 DEF SameFinish
<1>4. \A m, n \in 1 .. Len(idle') :
        idle'[m] = idle'[n] /\ idle'[m][1] \in {"finish", "teardown"} => m = n
  <2> SUFFICES ASSUME NEW m \in 1 .. Len(idle'), NEW n \in 1 .. Len(idle'),
                      idle'[m] = idle'[n], idle'[m][1] \in {"finish", "teardown"}
               PROVE  m = n
    OBVIOUS
  <2>1. m + 1 \in Position /\ n + 1 \in Position
    BY <1>1 DEF Position
  <2>2. m + 1 = n + 1
    BY <1>1, <2>1 DEF Queue
  <2>3. QED
    BY <1>1, <2>2
<1>5. \A n \in 1 .. Len(idle') : idle'[n] = <<"teardown">> => locks' = 1
  BY <1>1 DEF Queue, Position
<1>6. Running' /\ locks' = 1 => \E n \in 1 .. Len(idle') : idle'[n] = <<"teardown">>
  <2> SUFFICES ASSUME Running, locks = 1 PROVE \E n \in 1 .. Len(idle') : idle'[n] = <<"teardown">>
    BY DEF Running
  <2>1. PICK n \in Position : idle[n] = <<"teardown">>
    BY DEF Queue
  <2>2. n # 1 /\ n - 1 \in 1 .. Len(idle') /\ (n - 1) + 1 = n
    BY <1>1, <2>1 DEF Position
  <2>3. QED
    BY <1>1, <2>1, <2>2
<1>7. QED
  BY <1>1, <1>2, <1>3, <1>4, <1>5, <1>6 DEF Queue, Position

-----------------------------------------------------------------------------
(* The late copy.                                                          *)

LEMMA LateKept ==
  ASSUME Types, LateCopy, \A i \in Job : StillLate(i),
         idle' = idle \/ \E c \in Callback : idle' = Append(idle, c),
         clip' = "secret" /\ locks' = 1 /\ Running' => clip = "secret" /\ locks = 1 /\ Running
  PROVE  LateCopy'
<1> SUFFICES ASSUME locks' = 1, clip' = "secret", Running'
             PROVE  \E j \in Job, n \in Position' :
                      /\ job'[j].late > 0 /\ idle'[n] = <<"teardown">>
                      /\ \A m \in Position' : idle'[m] = <<"finish", j>> => n < m
  BY DEF LateCopy
<1>1. PICK j \in Job, n \in Position :
        /\ job[j].late > 0 /\ idle[n] = <<"teardown">>
        /\ \A m \in Position : idle[m] = <<"finish", j>> => n < m
  BY DEF LateCopy
<1>2. job'[j].late > 0
  BY <1>1 DEF StillLate
<1>3. CASE idle' = idle
  BY <1>1, <1>2, <1>3 DEF Position
<1>4. ASSUME NEW c \in Callback, idle' = Append(idle, c)
      PROVE  \E k \in Job, l \in Position' :
               /\ job'[k].late > 0 /\ idle'[l] = <<"teardown">>
               /\ \A m \in Position' : idle'[m] = <<"finish", k>> => l < m
  <2>1. /\ Len(idle) \in Nat /\ Len(idle') = Len(idle) + 1
        /\ \A m \in 1 .. Len(idle) : idle'[m] = idle[m]
    BY <1>4, AppendProperties, Length DEF Types
  <2>2. n \in Position' /\ idle'[n] = <<"teardown">>
    BY <1>1, <2>1 DEF Position
  <2>3. \A m \in Position' : idle'[m] = <<"finish", j>> => n < m
    BY <1>1, <2>1 DEF Position
  <2>4. QED
    BY <1>2, <2>2, <2>3
<1>5. QED
  BY <1>3, <1>4

\* A late input finds the teardown in idle, and nothing of its job.
LEMMA LateArises ==
  ASSUME Types, Queue, NEW j \in Job, job[j].pc = "act", job'[j].late > 0,
         UNCHANGED <<locks, app>>, idle' = idle \/ \E c \in Callback : idle' = Append(idle, c)
  PROVE  LateCopy'
<1> SUFFICES ASSUME locks = 1, Running
             PROVE  \E n \in Position' :
                      /\ job'[j].late > 0 /\ idle'[n] = <<"teardown">>
                      /\ \A m \in Position' : idle'[m] = <<"finish", j>> => n < m
  BY DEF LateCopy, Running
<1>1. PICK n \in Position : idle[n] = <<"teardown">>
  BY DEF Queue
<1>2. \A m \in Position : idle[m] # <<"finish", j>>
  BY DEF Queue
<1>3. CASE idle' = idle
  BY <1>1, <1>2, <1>3 DEF Position
<1>4. ASSUME NEW c \in Callback, idle' = Append(idle, c)
      PROVE  \E l \in Position' :
               /\ job'[j].late > 0 /\ idle'[l] = <<"teardown">>
               /\ \A m \in Position' : idle'[m] = <<"finish", j>> => l < m
  <2>1. /\ Len(idle) \in Nat /\ Len(idle') = Len(idle) + 1
        /\ \A m \in 1 .. Len(idle) : idle'[m] = idle[m]
    BY <1>4, AppendProperties, Length DEF Types
  <2>2. n \in Position' /\ idle'[n] = <<"teardown">>
    BY <1>1, <2>1 DEF Position
  <2>3. \A m \in Position' : idle'[m] = <<"finish", j>> => n < m
    BY <1>1, <1>2, <2>1 DEF Position
  <2>4. QED
    BY <2>2, <2>3
<1>5. QED
  BY <1>3, <1>4

LEMMA LatePopped ==
  ASSUME Types, LateCopy, UNCHANGED <<clip, locks, app>>, idle # <<>>, idle[1] # <<"teardown">>,
         \A i \in Job : idle[1] # <<"finish", i>> => StillLate(i),
         Len(idle') = Len(idle) - 1, \A n \in 1 .. Len(idle') : idle'[n] = idle[n + 1]
  PROVE  LateCopy'
<1> SUFFICES ASSUME locks = 1, clip = "secret", Running
             PROVE  \E j \in Job, n \in Position' :
                      /\ job'[j].late > 0 /\ idle'[n] = <<"teardown">>
                      /\ \A m \in Position' : idle'[m] = <<"finish", j>> => n < m
  BY DEF LateCopy, Running
<1>1. PICK j \in Job, n \in Position :
        /\ job[j].late > 0 /\ idle[n] = <<"teardown">>
        /\ \A m \in Position : idle[m] = <<"finish", j>> => n < m
  BY DEF LateCopy
<1>2. Len(idle) \in Nat /\ 1 \in Position
  BY <1>1, Length DEF Types, Position
<1>3. idle[1] # <<"finish", j>> /\ n # 1
  BY <1>1, <1>2 DEF Position
<1>4. job'[j].late > 0
  BY <1>1, <1>3 DEF StillLate
<1>5. n - 1 \in Position' /\ idle'[n - 1] = <<"teardown">>
  <2>1. n - 1 \in 1 .. Len(idle') /\ (n - 1) + 1 = n
    BY <1>2, <1>3 DEF Position
  <2>2. QED
    BY <1>1, <2>1 DEF Position
<1>6. \A m \in Position' : idle'[m] = <<"finish", j>> => n - 1 < m
  <2> SUFFICES ASSUME NEW m \in Position', idle'[m] = <<"finish", j>> PROVE n - 1 < m
    OBVIOUS
  <2>1. m + 1 \in Position /\ idle[m + 1] = <<"finish", j>>
    BY <1>2 DEF Position
  <2>2. n < m + 1
    BY <1>1, <2>1
  <2>3. QED
    BY <1>2, <2>2 DEF Position
<1>7. QED
  BY <1>4, <1>5, <1>6

-----------------------------------------------------------------------------
(* Locking, and what changes neither jobs nor focus nor idle.              *)

LEMMA LockFacts ==
  ASSUME Types, LockedOnce, Lock
  PROVE  /\ LockedOnce' /\ (Unlocked' => Unlocked) /\ locks' = locks
         /\ state' \in {"locked", "unlocked"} /\ main' \in {"free", "clear"}
  BY DEF Types, LockedOnce, Lock, Unlocked

Aside ==
  \/ ManualClose \/ Tick \/ SettingsClosed \/ ClipboardClears \/ Trouble

LEMMA AsideInv ==
  ASSUME Inv, Aside
  PROVE  Inv'
<1> USE DEF Inv
<1>1. UNCHANGED <<job, focus, idle, app, locks, busy, jobs, window, context>>
  BY DEF Aside, ManualClose, Tick, SettingsClosed, ClipboardClears, Trouble, Lock, typing, world,
         machine
<1>2. Types' /\ LockedOnce' /\ (Unlocked' => Unlocked)
  <2>1. CASE ManualClose
    BY <2>1, LockFacts DEF ManualClose, Types, world, typing
  <2>2. CASE Tick
    <3>1. watch' \subseteq watch /\ UNCHANGED <<on, clip, trouble>>
      BY <2>2 DEF Tick, world
    <3>2. CASE Lock
      BY <1>1, <3>1, <3>2, LockFacts DEF Types
    <3>3. CASE UNCHANGED <<state, main, locks>>
      BY <1>1, <3>1, <3>3 DEF Types, LockedOnce, Unlocked
    <3>4. QED
      BY <2>2, <3>2, <3>3 DEF Tick
  <2>3. CASE SettingsClosed
    BY <2>3 DEF SettingsClosed, Types, LockedOnce, Unlocked, world, typing
  <2>4. CASE ClipboardClears
    BY <2>4 DEF ClipboardClears, Types, LockedOnce, Unlocked, world, typing
  <2>5. CASE Trouble
    BY <2>5 DEF Trouble, Types, LockedOnce, Unlocked, machine, typing
  <2>6. QED
    BY <2>1, <2>2, <2>3, <2>4, <2>5 DEF Aside
<1>3. \A i \in Job : Careful(i)' /\ SameFinish(i) /\ StillLate(i)
  BY <1>1, <1>2, SameJobs DEF Types
<1>4. Queue'
  BY <1>1, <1>3, QueueKept
<1>5. clip' = "secret" => clip = "secret"
  BY DEF Aside, ManualClose, Tick, SettingsClosed, ClipboardClears, Trouble, machine
<1>6. LateCopy'
  BY <1>1, <1>3, <1>5, LateKept DEF Running
<1>7. busy' \in BOOLEAN
  BY <1>1
<1>8. QED
  BY <1>2, <1>3, <1>4, <1>6, <1>7

Waits == LockCommand \/ FocusCommand \/ FocusTargetCommand \/ LogindSignal

LEMMA WaitsInv ==
  ASSUME Inv, Waits
  PROVE  Inv'
<1> USE DEF Inv
<1>1. PICK c \in Callback : c[1] \notin {"finish", "teardown"} /\ Later(c)
  <2>1. /\ <<"lock">> \in Callback /\ <<"lock">>[1] = "lock"
        /\ <<"present">> \in Callback /\ <<"present">>[1] = "present"
        /\ \A w \in Window : <<"retarget", w>> \in Callback /\ <<"retarget", w>>[1] = "retarget"
    BY DEF Callback, Contexts, Windows
  <2>2. CASE LockCommand \/ LogindSignal
    BY <2>1, <2>2 DEF LockCommand, LogindSignal
  <2>3. CASE FocusCommand
    BY <2>1, <2>3 DEF FocusCommand
  <2>4. CASE FocusTargetCommand
    BY <2>1, <2>4 DEF FocusTargetCommand
  <2>5. QED
    BY <2>2, <2>3, <2>4 DEF Waits
<1>2. /\ Len(idle) < MaxIdle /\ idle' = Append(idle, c)
      /\ UNCHANGED <<state, main, app, on, watch, clip, locks, window, trouble, focus, context>>
      /\ UNCHANGED <<busy, job, jobs>>
  BY <1>1 DEF Later, machine, world, typing
<1>3. \A i \in Job : Careful(i)' /\ SameFinish(i) /\ StillLate(i)
  BY <1>2, SameJobs DEF Types, Unlocked
<1>4. Queue' /\ idle' \in Seq(Callback)
  BY <1>1, <1>2, <1>3, QueueLater
<1>5. Types' /\ LockedOnce'
  BY <1>2, <1>4 DEF Types, LockedOnce, Unlocked
<1>6. LateCopy'
  BY <1>1, <1>2, <1>3, LateKept DEF Running
<1>7. busy' \in BOOLEAN
  BY <1>2
<1>8. QED
  BY <1>3, <1>4, <1>5, <1>6, <1>7

LEMMA LockStepInv ==
  ASSUME Inv, LockStep
  PROVE  Inv'
<1> USE DEF Inv
<1>1. locks = 0 /\ ~Unlocked
  BY DEF LockStep, LockedOnce
<1>2. /\ UNCHANGED <<state, window, app, on, watch, trouble, focus, context, busy, job, jobs>>
      /\ main' = "free" /\ locks' = 1 /\ idle' = Append(idle, <<"teardown">>)
      /\ clip' \in {"none", "stuck"} 
  BY <1>1 DEF LockStep, world, typing, Types
<1>3. \A i \in Job : Careful(i)' /\ SameFinish(i) /\ StillLate(i)
  BY <1>2, SameJobs DEF Types, Unlocked
<1>4. Queue' /\ idle' \in Seq(Callback)
  BY <1>1, <1>2, <1>3, QueueTeardown
<1>5. Types' /\ LockedOnce'
  BY <1>1, <1>2, <1>4 DEF Types, LockedOnce, Unlocked
<1>6. LateCopy'
  BY <1>2 DEF LateCopy
<1>7. busy' \in BOOLEAN
  BY <1>2
<1>8. QED
  BY <1>3, <1>4, <1>5, <1>6, <1>7

LEMMA EndInv ==
  ASSUME Inv, End
  PROVE  Inv'
<1> USE DEF Inv
<1>1. /\ app' = "gone" /\ window' = "gone" /\ watch' = {} /\ idle' = <<>>
      /\ job' = [j \in Job |-> NoJob] /\ busy' = FALSE /\ trouble' = {} /\ focus' = "ash"
      /\ UNCHANGED <<state, main, on, clip, locks, context, jobs>>
  BY DEF End, NoWindow
<1>2. Types'
  <2>1. idle' \in Seq(Callback) /\ job' \in [Job -> JobType]
    BY <1>1, NoJobFacts
  <2>2. focus' \in Windows
    BY <1>1 DEF Windows
  <2>3. QED
    BY <1>1, <2>1, <2>2 DEF Types
<1>3. LockedOnce'
  BY <1>1 DEF LockedOnce, Unlocked
<1>4. \A j \in Job : Careful(j)'
  BY <1>1, NoJobFacts DEF Careful
<1>5. Queue'
  <2>1. Len(idle') = 0 /\ Position' = {}
    BY <1>1 DEF Position
  <2>2. Finishing(1)' \in {0, 1} /\ Finishing(2)' \in {0, 1} /\ locks' \in {0, 1} /\ MaxIdle \in Nat
    BY <1>2, ConstantsAssumption DEF Finishing, Types, ConstantsAssumption
  <2>3. QED
    BY <1>1, <2>1, <2>2 DEF Queue, Running
<1>6. LateCopy'
  BY <1>1 DEF LateCopy, Running
<1>7. busy' \in BOOLEAN
  BY <1>1
<1>8. QED
  BY <1>2, <1>3, <1>4, <1>5, <1>6, <1>7

LEMMA SwitchWindowInv ==
  ASSUME Inv, SwitchWindow
  PROVE  Inv'
<1> USE DEF Inv
<1>1. PICK w \in Windows : FocusOn(w)
  BY DEF SwitchWindow
<1>2. focus' = w
  BY <1>1 DEF FocusOn
<1>3. UNCHANGED <<state, main, app, on, watch, clip, locks, idle, window, trouble, context, busy, jobs>>
  BY DEF SwitchWindow, machine
<1>4. job' \in [Job -> JobType] /\ \A i \in Job : Careful(i)' /\ SameFinish(i) /\ StillLate(i)
  BY <1>1, <1>3, FocusMoves DEF Types, Unlocked
<1>5. Queue'
  BY <1>3, <1>4, QueueKept
<1>6. Types' /\ LockedOnce'
  BY <1>2, <1>3, <1>4 DEF Types, LockedOnce, Unlocked
<1>7. LateCopy'
  BY <1>3, <1>4, LateKept DEF Running
<1>8. busy' \in BOOLEAN
  BY <1>3
<1>9. QED
  BY <1>4, <1>5, <1>6, <1>7, <1>8

-----------------------------------------------------------------------------
(* Jobs on the main thread.                                                *)

\* After the lock, only the input of j copies a secret.
Copies(j, new) ==
  clip' = "secret" => clip = "secret" \/ locks = 0 \/ (job[j].pc = "act" /\ new.late > 0)

\* The job j becomes new, and no callback comes or goes.
Quietly(j, new) ==
  /\ Becomes(j, new) /\ Allowed(new)
  /\ job[j].pc # "finish" /\ new.pc # "finish"
  /\ job[j].late > 0 => new.late > 0
  /\ focus' \in Windows
  /\ window' \in {"shown", "hidden", "locked", "gone"}
  /\ jobs' \in 0 .. MaxJobs
  /\ busy' \in BOOLEAN
  /\ clip' \in {"none", "secret", "stuck"} /\ Copies(j, new)
  /\ UNCHANGED <<state, main, app, on, watch, locks, idle, trouble, context>>

LEMMA QuietlyInv ==
  ASSUME Inv, NEW j \in Job, NEW new, Quietly(j, new)
  PROVE  Inv'
<1> USE DEF Inv
<1>1. /\ UNCHANGED <<state, main, app, on, watch, locks, idle, trouble, context>>
      /\ Becomes(j, new) /\ Allowed(new) /\ job[j].pc # "finish" /\ new.pc # "finish"
      /\ job[j].late > 0 => new.late > 0
  BY DEF Quietly
<1>2. /\ job' \in [Job -> JobType] /\ job'[j] = new
      /\ \A i \in Job : Careful(i)'
      /\ \A i \in Job \ {j} : SameFinish(i) /\ StillLate(i)
  BY <1>1, BecomesCareful DEF Types, Unlocked
<1>3. \A i \in Job : SameFinish(i) /\ StillLate(i)
  BY <1>1, <1>2 DEF SameFinish, StillLate
<1>4. Queue'
  BY <1>1, <1>3, QueueKept
<1>5. Types' /\ LockedOnce'
  BY <1>1, <1>2 DEF Types, LockedOnce, Unlocked, Quietly
<1>6. LateCopy'
  <2>1. CASE clip' = "secret" => clip = "secret" \/ locks = 0
    BY <1>1, <1>3, <2>1, LateKept DEF Running
  <2>2. CASE job[j].pc = "act" /\ new.late > 0
    BY <1>1, <1>2, <2>2, LateArises
  <2>3. QED
    BY <2>1, <2>2 DEF Quietly, Copies
<1>7. busy' \in BOOLEAN
  BY DEF Quietly
<1>8. QED
  BY <1>2, <1>4, <1>5, <1>6, <1>7

\* Where the focus stays, the other jobs do not change.
LEMMA UpdateFacts ==
  ASSUME job \in [Job -> JobType], NEW j \in Job, NEW new \in JobType,
         Update(j, new), UNCHANGED focus
  PROVE  Becomes(j, new)
<1>1. \A i \in Job : Noticed(i, focus') = job[i]
  BY NoticedFacts
<1>2. job' = [i \in Job |-> IF i = j THEN new ELSE job[i]]
  BY DEF Update
<1>3. job' = [i \in Job |-> IF i = j THEN new ELSE Noticed(i, focus')]
  BY <1>1, <1>2
<1>4. QED
  BY <1>3 DEF Becomes

LEMMA ClickedInv ==
  ASSUME Inv, NEW j \in Job, Request(j) \/ TestStrategy(j)
  PROVE  Inv'
<1> USE DEF Inv
<1>1. PICK kind \in {"auto", "test"}, target \in Contexts :
        Clicked(j, kind, target) /\ (kind = "auto" => target # "ash")
  BY DEF Request, TestStrategy, Types, Contexts, Windows
<1> DEFINE new == [NoJob EXCEPT !.kind = kind, !.pc = "asking", !.target = target]
<1>2. /\ new \in JobType /\ new.pc = "asking" /\ new.late = 0 /\ ~new.astray
      /\ new.kind = kind /\ new.target = target
  <2>1. NoJob.astray = FALSE /\ NoJob.late = 0 /\ NoJob \in JobType
    BY NoJobFacts
  <2>2. QED
    BY <2>1 DEF JobType, JobPc
<1>3. /\ Update(j, new) /\ job[j].pc = "none" /\ jobs < MaxJobs /\ jobs' = jobs + 1
      /\ UNCHANGED <<state, main, app, on, watch, clip, locks, idle, window, trouble, focus, context>>
  BY <1>1 DEF Clicked, At, machine, world
<1> HIDE DEF new
<1>4. Becomes(j, new)
  BY <1>2, <1>3, UpdateFacts DEF Types
<1>5. Allowed(new)
  BY <1>1, <1>2 DEF Allowed
<1>6. ~(job[j].late > 0)
  BY <1>3 DEF Careful
<1>7. jobs' \in 0 .. MaxJobs
  BY <1>3, ConstantsAssumption DEF Types, ConstantsAssumption
<1>8. busy' \in BOOLEAN
  BY DEF Request, TestStrategy
<1>9. Quietly(j, new)
  BY <1>2, <1>3, <1>4, <1>5, <1>6, <1>7, <1>8 DEF Quietly, Copies, Types
<1>10. QED
  BY <1>9, QuietlyInv

LEMMA DropFacts ==
  ASSUME Inv, NEW j \in Job, Drop(j), job[j].pc \in {"asking", "delay"},
         UNCHANGED <<machine, idle, window, world, jobs>>
  PROVE  Inv'
<1> USE DEF Inv
<1>1. /\ UNCHANGED <<state, main, app, on, watch, clip, locks, idle, window, trouble, focus, context>>
      /\ UNCHANGED jobs
  BY DEF machine, world
<1>2. Becomes(j, NoJob)
  BY <1>1, NoJobFacts, UpdateFacts DEF Drop, Types
<1>3. Allowed(NoJob)
  BY NoJobFacts DEF Allowed
<1>4. ~(job[j].late > 0)
  BY DEF Careful
<1>5. busy' \in BOOLEAN
  BY DEF Drop
<1>6. Quietly(j, NoJob)
  BY <1>1, <1>2, <1>3, <1>4, <1>5, NoJobFacts DEF Quietly, Copies, Types
<1>7. QED
  BY <1>6, QuietlyInv

LEMMA AnswerInv ==
  ASSUME Inv, NEW j \in Job, Answer(j)
  PROVE  Inv'
<1> USE DEF Inv
<1>1. job[j].pc = "asking" /\ UNCHANGED <<state, main, app, on, watch, clip, locks, idle, trouble, context, jobs>>
  BY DEF Answer, At, machine
<1>2. CASE Drop(j) /\ UNCHANGED <<window, focus>>
  BY <1>1, <1>2, DropFacts DEF machine, world
<1> DEFINE new == [job[j] EXCEPT !.pc = "delay"]
<1>3. ASSUME NEW w \in Window, window' = "hidden", focus' = w, UNCHANGED busy,
             job' = [i \in Job |-> IF i = j THEN new ELSE Noticed(i, w)]
      PROVE  Inv'
  <2>1. /\ new \in JobType /\ new.pc = "delay" /\ new.late = job[j].late
        /\ new.astray = job[j].astray /\ new.kind = job[j].kind /\ new.target = job[j].target
    <3>1. job[j] \in JobType
      BY DEF Types
    <3>2. "delay" \in JobPc
      BY DEF JobPc
    <3>3. QED
      BY <3>1, <3>2, MovesOn
  <2> HIDE DEF new
  <2>2. Becomes(j, new)
    BY <1>3, <2>1 DEF Becomes
  <2>3. ~(job[j].late > 0) /\ ~job[j].astray /\ (job[j].kind = "auto" => job[j].target # "ash")
    BY <1>1 DEF Careful
  <2>4. job[j].late <= 1
    BY DEF Careful
  <2>5. Allowed(new)
    BY <2>1, <2>3, <2>4 DEF Allowed
  <2>6. focus' \in Windows
    BY <1>3 DEF Windows
  <2>7. busy' \in BOOLEAN
    BY <1>3
  <2>8. Quietly(j, new)
    BY <1>1, <1>3, <2>1, <2>2, <2>3, <2>5, <2>6, <2>7 DEF Quietly, Copies, Types
  <2>9. QED
    BY <2>8, QuietlyInv
<1>4. QED
  BY <1>2, <1>3 DEF Answer

LEMMA StartWorkerInv ==
  ASSUME Inv, NEW j \in Job, StartWorker(j)
  PROVE  Inv'
<1> USE DEF Inv
<1>1. job[j].pc = "delay" /\ UNCHANGED <<machine, idle, window, world, jobs>>
  BY DEF StartWorker, At
<1>2. CASE Drop(j)
  BY <1>1, <1>2, DropFacts
<1> DEFINE new == [job[j] EXCEPT !.pc = "work"]
<1>3. CASE Update(j, new) /\ UNCHANGED busy
  <2>1. /\ new \in JobType /\ new.pc = "work" /\ new.late = job[j].late
        /\ new.astray = job[j].astray /\ new.kind = job[j].kind /\ new.target = job[j].target
    <3>1. job[j] \in JobType
      BY DEF Types
    <3>2. "work" \in JobPc
      BY DEF JobPc
    <3>3. QED
      BY <3>1, <3>2, MovesOn
  <2>2. UNCHANGED <<state, main, app, on, watch, clip, locks, idle, window, trouble, focus, context, jobs, busy>>
    BY <1>1, <1>3 DEF machine, world
  <2> HIDE DEF new
  <2>3. Becomes(j, new)
    BY <1>3, <2>1, <2>2, UpdateFacts DEF Types
  <2>4. /\ ~(job[j].late > 0) /\ ~job[j].astray /\ job[j].late <= 1
        /\ job[j].kind = "auto" => job[j].target # "ash"
    BY <1>1 DEF Careful
  <2>5. Allowed(new)
    BY <2>1, <2>4 DEF Allowed
  <2>6. busy' \in BOOLEAN
    BY <2>2
  <2>7. Quietly(j, new)
    BY <1>1, <2>1, <2>2, <2>3, <2>4, <2>5, <2>6 DEF Quietly, Copies, Types
  <2>8. QED
    BY <2>7, QuietlyInv
<1>4. QED
  BY <1>2, <1>3 DEF StartWorker

-----------------------------------------------------------------------------
(* Jobs on their threads.                                                  *)

\* The job j becomes new, whose callback is put into idle.
LEMMA FinishInv ==
  ASSUME Inv, NEW j \in Job, NEW new, Becomes(j, new), Allowed(new),
         job[j].pc # "finish", new.pc = "finish", job[j].late > 0 => new.late > 0,
         idle' = Append(idle, <<"finish", j>>), focus' \in Windows,
         clip' \in {"none", "secret", "stuck"},
         UNCHANGED <<state, main, app, on, watch, locks, window, trouble, context, busy, jobs>>,
         Copies(j, new)
  PROVE  Inv'
<1> USE DEF Inv
<1>1. /\ job' \in [Job -> JobType] /\ job'[j] = new
      /\ \A i \in Job : Careful(i)'
      /\ \A i \in Job \ {j} : SameFinish(i) /\ StillLate(i)
  BY BecomesCareful DEF Types, Unlocked
<1>2. \A i \in Job : StillLate(i)
  BY <1>1 DEF StillLate
<1>3. Queue' /\ idle' \in Seq(Callback)
  BY <1>1, QueueFinish
<1>4. Types' /\ LockedOnce'
  BY <1>1, <1>3 DEF Types, LockedOnce, Unlocked
<1>5. LateCopy'
  <2>1. \E c \in Callback : idle' = Append(idle, c)
    BY CallbackFacts
  <2>2. CASE clip' = "secret" => clip = "secret" \/ locks = 0
    <3>1. clip' = "secret" /\ locks' = 1 /\ Running' => clip = "secret" /\ locks = 1 /\ Running
      BY <2>2 DEF Running
    <3>2. QED
      BY <1>2, <2>1, <3>1, LateKept
  <2>3. CASE job[j].pc = "act" /\ new.late > 0
    BY <1>1, <2>1, <2>3, LateArises
  <2>4. QED
    BY <2>2, <2>3 DEF Copies
<1>6. busy' \in BOOLEAN
  OBVIOUS
<1>7. QED
  BY <1>1, <1>3, <1>4, <1>5, <1>6

LEMMA ReportInv ==
  ASSUME Inv, NEW j \in Job, NEW ok \in BOOLEAN, Report(j, ok),
         job[j].pc \in {"work", "check"}, UNCHANGED focus, UNCHANGED quiet
  PROVE  Inv'
<1> USE DEF Inv
<1> DEFINE new == [job[j] EXCEPT !.pc = "finish", !.ok = ok, !.moved = FALSE]
<1>1. /\ new \in JobType /\ new.pc = "finish" /\ new.late = job[j].late
      /\ new.astray = job[j].astray /\ new.kind = job[j].kind /\ new.target = job[j].target
  <2>1. job[j] \in JobType
    BY DEF Types
  <2>2. QED
    BY <2>1, Ends
<1>2. Update(j, new) /\ idle' = Append(idle, <<"finish", j>>)
  BY DEF Report
<1> HIDE DEF new
<1>3. UNCHANGED <<state, main, app, on, watch, clip, locks, window, trouble, context, busy, jobs>>
  BY DEF quiet, machine
<1>4. Becomes(j, new)
  BY <1>1, <1>2, UpdateFacts DEF Types
<1>5. Allowed(new)
  BY <1>1, <1>3 DEF Allowed, Careful, Unlocked
<1>6. QED
  BY <1>1, <1>2, <1>3, <1>4, <1>5, FinishInv DEF Types, Copies

LEMMA WorkInv ==
  ASSUME Inv, NEW j \in Job, Work(j)
  PROVE  Inv'
<1> USE DEF Inv
<1>1. job[j].pc = "work" /\ UNCHANGED quiet
  BY DEF Work, At
<1>2. CASE Fail(j)
  BY <1>1, <1>2, ReportInv DEF Fail
<1>3. ASSUME NEW w \in Target(j), focus' = w, UNCHANGED idle,
             job' = [i \in Job |-> IF i # j THEN Noticed(i, w)
                                   ELSE [job[j] EXCEPT !.target = w, !.pc = "check"]]
      PROVE  Inv'
  <2> DEFINE new == [job[j] EXCEPT !.target = w, !.pc = "check"]
  <2>1. w \in Windows /\ w \in Contexts /\ (job[j].kind = "auto" => w # "ash")
    BY DEF Target, Careful, Types, JobType, Contexts, Windows
  <2>2. /\ new \in JobType /\ new.pc = "check" /\ new.late = job[j].late
        /\ new.astray = job[j].astray /\ new.kind = job[j].kind /\ new.target = w
    <3>1. job[j] \in JobType
      BY DEF Types
    <3>2. QED
      BY <3>1, <2>1, TakesTarget
  <2>3. job' = [i \in Job |-> IF i = j THEN new ELSE Noticed(i, focus')]
    BY <1>3
  <2> HIDE DEF new
  <2>4. Becomes(j, new)
    BY <2>2, <2>3 DEF Becomes
  <2>5. ~(job[j].late > 0) /\ ~job[j].astray /\ job[j].late <= 1
    BY <1>1 DEF Careful
  <2>6. Allowed(new)
    BY <2>1, <2>2, <2>5 DEF Allowed
  <2>7. UNCHANGED <<state, main, app, on, watch, clip, locks, idle, window, trouble, context, busy, jobs>>
    BY <1>1, <1>3 DEF quiet, machine
  <2>8. busy' \in BOOLEAN
    BY <2>7
  <2>9. Quietly(j, new)
    BY <1>1, <1>3, <2>1, <2>2, <2>4, <2>5, <2>6, <2>7, <2>8 DEF Quietly, Copies, Types
  <2>10. QED
    BY <2>9, QuietlyInv
<1>4. QED
  BY <1>2, <1>3 DEF Work

LEMMA CheckInv ==
  ASSUME Inv, NEW j \in Job, Check(j)
  PROVE  Inv'
<1> USE DEF Inv
<1>1. job[j].pc = "check" /\ UNCHANGED quiet
  BY DEF Check, At
<1>2. CASE Complete(j) \/ Cancel(j)
  BY <1>1, <1>2, ReportInv DEF Complete, Cancel, Fail
<1>3. CASE ~Done(j) /\ Unlocked /\ focus = job[j].target /\ Goto(j, "act")
  <2> DEFINE new == [job[j] EXCEPT !.pc = "act"]
  <2>1. /\ new \in JobType /\ new.pc = "act" /\ new.late = job[j].late
        /\ new.astray = job[j].astray /\ new.kind = job[j].kind /\ new.target = job[j].target
        /\ new.step = job[j].step
    <3>1. job[j] \in JobType
      BY DEF Types
    <3>2. "act" \in JobPc
      BY DEF JobPc
    <3>3. QED
      BY <3>1, <3>2, MovesOn
  <2>2. Update(j, new) /\ UNCHANGED <<idle, focus>>
    BY <1>3 DEF Goto
  <2> HIDE DEF new
  <2>3. Becomes(j, new)
    BY <2>1, <2>2, UpdateFacts DEF Types
  <2>4. /\ ~(job[j].late > 0) /\ ~job[j].astray /\ job[j].late <= 1
        /\ job[j].kind = "auto" => job[j].target # "ash"
    BY <1>3 DEF Careful
  <2>5. Allowed(new)
    <3>1. job[j].step <= Steps
      BY <1>3, ConstantsAssumption DEF Done, Types, JobType, ConstantsAssumption
    <3>2. QED
      BY <1>3, <2>1, <2>2, <2>4, <3>1 DEF Allowed
  <2>6. UNCHANGED <<state, main, app, on, watch, clip, locks, idle, window, trouble, focus, context, busy, jobs>>
    BY <1>1, <2>2 DEF quiet, machine
  <2>7. busy' \in BOOLEAN
    BY <2>6
  <2>8. Quietly(j, new)
    BY <1>1, <2>1, <2>3, <2>4, <2>5, <2>6, <2>7 DEF Quietly, Copies, Types
  <2>9. QED
    BY <2>8, QuietlyInv
<1>4. QED
  BY <1>2, <1>3 DEF Check

LEMMA ActInv ==
  ASSUME Inv, NEW j \in Job, Act(j)
  PROVE  Inv'
<1> USE DEF Inv
<1> DEFINE late == IF Unlocked THEN job[j].late ELSE job[j].late + 1
           sent == [job[j] EXCEPT !.step = @ + 1, !.moved = FALSE, !.late = late,
                                  !.astray = @ \/ Astray(j)]
           onto(pc) == [sent EXCEPT !.pc = pc]
<1>1. /\ job[j].pc = "act"
      /\ clip' \in {Typed(j, backend) : backend \in Backends \ {"none"}}
      /\ UNCHANGED <<state, main, app, on, watch, locks, window, trouble, focus, context, busy, jobs>>
  BY DEF Act, At, world
<1>2. ~Astray(j) /\ job[j].late = 0 /\ ~job[j].astray /\ (job[j].kind = "auto" => job[j].target # "ash")
  BY <1>1 DEF Careful, Astray, Types, JobType
<1>3. late \in Nat /\ late <= 1 /\ (late > 0 <=> ~Unlocked)
  BY <1>2
<1>4. job[j].step + 1 \in 1 .. Steps + 1
  BY <1>1, ConstantsAssumption DEF Careful, Types, JobType, ConstantsAssumption
<1>5. \A pc \in {"check", "finish"} :
        /\ onto(pc) \in JobType
        /\ onto(pc).pc = pc /\ onto(pc).late = late /\ ~onto(pc).astray
        /\ onto(pc).kind = job[j].kind /\ onto(pc).target = job[j].target
  <2> HIDE DEF late
  <2>1. job[j] \in JobType /\ (job[j].astray \/ Astray(j)) = FALSE
    BY <1>2 DEF Types, JobType
  <2>2. /\ sent \in JobType
        /\ sent.late = late /\ sent.astray = FALSE
        /\ sent.kind = job[j].kind /\ sent.target = job[j].target
    BY <1>3, <1>4, <2>1 DEF JobType
  <2> HIDE DEF sent
  <2>3. QED
    BY <2>2 DEF JobType, JobPc
<1>6. \A pc \in {"check", "finish"} : Update(j, onto(pc)) => Becomes(j, onto(pc)) /\ Allowed(onto(pc))
  <2> HIDE DEF onto, late
  <2> SUFFICES ASSUME NEW pc \in {"check", "finish"}, Update(j, onto(pc))
               PROVE  Becomes(j, onto(pc)) /\ Allowed(onto(pc))
    OBVIOUS
  <2>1. Becomes(j, onto(pc))
    BY <1>1, <1>5, UpdateFacts DEF Types
  <2>2. Allowed(onto(pc))
    BY <1>1, <1>2, <1>3, <1>5 DEF Allowed, Unlocked
  <2>3. QED
    BY <2>1, <2>2
<1>7. clip' \in {"none", "secret", "stuck"}
  BY <1>1 DEF Typed, Types
<1>8. \A pc \in {"check", "finish"} : Copies(j, onto(pc))
  <2>1. locks = 0 \/ late > 0
    BY <1>3 DEF LockedOnce, Types
  <2> HIDE DEF onto, late
  <2>2. QED
    BY <1>1, <1>5, <2>1 DEF Copies
<1>9. \/ Update(j, onto("check")) /\ UNCHANGED idle
      \/ Update(j, onto("finish")) /\ idle' = Append(idle, <<"finish", j>>)
  BY DEF Act
<1> HIDE DEF onto, late
<1>10. CASE Update(j, onto("check")) /\ UNCHANGED idle
  <2>1. Quietly(j, onto("check"))
    BY <1>1, <1>2, <1>5, <1>6, <1>7, <1>8, <1>10 DEF Quietly, Types
  <2>2. QED
    BY <2>1, QuietlyInv
<1>11. CASE Update(j, onto("finish")) /\ idle' = Append(idle, <<"finish", j>>)
  <2>1. PICK new : new = onto("finish")
    OBVIOUS
  <2>2. /\ Becomes(j, new) /\ Allowed(new) /\ Copies(j, new)
        /\ new.pc = "finish" /\ job[j].pc # "finish" /\ (job[j].late > 0 => new.late > 0)
    BY <1>1, <1>2, <1>5, <1>6, <1>8, <1>11, <2>1
  <2>3. focus' \in Windows
    BY <1>1 DEF Types
  <2>4. QED
    BY <1>1, <1>7, <1>11, <2>2, <2>3, FinishInv
<1>12. QED
  BY <1>9, <1>10, <1>11

-----------------------------------------------------------------------------
(* The callbacks.                                                          *)

LEMMA RunIdleInv ==
  ASSUME Inv, RunIdle
  PROVE  Inv'
<1> USE DEF Inv
<1> DEFINE next == Head(idle)
<1>1. /\ idle # <<>> /\ idle' = Tail(idle) /\ next \in Callback /\ next = idle[1]
      /\ next[1] \in {"lock", "present", "retarget", "finish"}
  BY HeadTailProperties DEF RunIdle, Types, Free
<1>2. next # <<"teardown">> /\ (next[1] # "finish" => \A i \in Job : next # <<"finish", i>>)
  BY <1>1, CallbackFacts
<1>3. main = "free"
  BY DEF RunIdle, Free
<1> HIDE DEF next
\* From what the callback does to the jobs, the rest follows.
<1>4. ASSUME LockedOnce', state' \in {"locked", "unlocked"}, main' \in {"free", "clear"},
             job' \in [Job -> JobType], \A i \in Job : Careful(i)',
             \A i \in Job : (SameFinish(i) \/ (next = <<"finish", i>> /\ job'[i].pc # "finish")),
             \A i \in Job : next = <<"finish", i>> => \A k \in Job \ {i} : SameFinish(k),
             \A i \in Job : next # <<"finish", i>> => StillLate(i),
             focus' \in Windows, context' \in Contexts,
             window' \in {"shown", "hidden", "locked", "gone"}, busy' \in BOOLEAN,
             UNCHANGED <<app, on, watch, clip, locks, trouble, jobs>>
      PROVE  Inv'
  <2>1. /\ Queue' /\ idle' \in Seq(Callback) /\ Len(idle') = Len(idle) - 1
        /\ \A n \in 1 .. Len(idle') : idle'[n] = idle[n + 1]
    BY <1>1, <1>2, <1>4, QueuePopped DEF next
  <2>2. LateCopy'
    BY <1>1, <1>2, <1>4, <2>1, LatePopped
  <2>3. Types'
    BY <1>4, <2>1 DEF Types
  <2>4. QED
    BY <1>4, <2>1, <2>2, <2>3
<1>5. CASE /\ next[1] = "lock" /\ Lock
           /\ UNCHANGED <<window, app, on, watch, clip, world, typing>>
  <2>1. UNCHANGED <<window, app, on, watch, clip, trouble, focus, context, busy, job, jobs>>
    BY <1>5 DEF world, typing
  <2>2. \A i \in Job : Careful(i)' /\ SameFinish(i) /\ StillLate(i)
    BY <1>5, <2>1, LockFacts, SameJobs DEF Types
  <2>3. QED
    BY <1>2, <1>4, <1>5, <2>1, <2>2, LockFacts DEF Types
<1>6. ASSUME Present, next[1] # "finish", context' \in Contexts
      PROVE  Inv'
  <2>1. UNCHANGED <<state, main, app, on, watch, clip, locks, trouble, busy, jobs>>
    BY <1>6 DEF Present, machine
  <2>2. /\ job' \in [Job -> JobType] /\ \A i \in Job : Careful(i)' /\ SameFinish(i) /\ StillLate(i)
        /\ focus' \in Windows /\ window' \in {"shown", "hidden", "locked", "gone"}
    <3>1. CASE window' = "shown" /\ FocusOn("ash")
      BY <2>1, <3>1, FocusMoves DEF Types, Unlocked, FocusOn, Windows
    <3>2. CASE UNCHANGED <<window, focus, job>>
      BY <2>1, <3>2, SameJobs DEF Types, Unlocked
    <3>3. QED
      BY <1>6, <3>1, <3>2 DEF Present
  <2>3. LockedOnce'
    BY <2>1 DEF LockedOnce, Unlocked
  <2>4. busy' \in BOOLEAN
    BY <2>1
  <2>5. QED
    BY <1>2, <1>4, <1>6, <2>1, <2>2, <2>3, <2>4 DEF Types
<1>7. CASE next[1] = "present" /\ Present /\ UNCHANGED context
  BY <1>6, <1>7 DEF Types
<1>8. CASE next[1] = "retarget" /\ Retarget(next[2])
  <2>1. next[2] \in Contexts
    BY <1>1, <1>8, CallbackFacts
  <2>2. QED
    BY <1>6, <1>8, <2>1 DEF Retarget
<1>9. CASE next[1] = "finish" /\ Finish(next[2])
  <2> DEFINE j == next[2]
  <2>1. j \in Job /\ next = <<"finish", j>>
    BY <1>1, <1>9, CallbackFacts
  <2>2. \A i \in Job : next = <<"finish", i>> => i = j
    BY <2>1, CallbackFacts
  <2> HIDE DEF j
  <2>3. UNCHANGED <<state, main, app, on, watch, clip, locks, trouble, context, jobs>>
    BY <1>9 DEF Finish, machine
  <2>4. /\ Becomes(j, NoJob) /\ focus' \in Windows
        /\ window' \in {"shown", "hidden", "locked", "gone"}
    <3>1. CASE /\ window' = "shown" /\ focus' = "ash"
               /\ job' = [i \in Job |-> IF i = j THEN NoJob ELSE Noticed(i, "ash")]
      BY <3>1, NoJobFacts DEF Becomes, Windows
    <3>2. CASE UNCHANGED <<window, focus>> /\ job' = [job EXCEPT ![j] = NoJob]
      BY <2>1, <3>2, NoJobFacts, UpdateFacts DEF Update, Types
    <3>3. QED
      BY <1>9, <3>1, <3>2 DEF Finish, j
  <2>5. Allowed(NoJob)
    BY NoJobFacts DEF Allowed
  <2>6. /\ job' \in [Job -> JobType] /\ job'[j] = NoJob /\ \A i \in Job : Careful(i)'
        /\ \A i \in Job \ {j} : SameFinish(i) /\ StillLate(i)
    BY <2>1, <2>3, <2>4, <2>5, BecomesCareful DEF Types, Unlocked
  <2>7. job'[j].pc # "finish"
    BY <2>6, NoJobFacts
  <2>8. LockedOnce'
    BY <2>3 DEF LockedOnce, Unlocked
  <2>9. busy' \in BOOLEAN
    BY <1>9 DEF Finish
  <2>10. QED
    BY <1>4, <2>1, <2>2, <2>3, <2>4, <2>6, <2>7, <2>8, <2>9 DEF Types
<1>10. QED
  BY <1>5, <1>7, <1>8, <1>9 DEF RunIdle, next

-----------------------------------------------------------------------------
(* The theorems.                                                           *)

LEMMA InvStep == Inv /\ [Next]_vars => Inv'
<1> SUFFICES ASSUME Inv, [Next]_vars PROVE Inv'
  OBVIOUS
<1>1. CASE LockStep
  BY <1>1, LockStepInv
<1>2. CASE RunIdle
  BY <1>2, RunIdleInv
<1>3. CASE Teardown \/ CloseWindow
  BY <1>3, EndInv DEF Teardown, CloseWindow
<1>4. CASE Aside
  BY <1>4, AsideInv
<1>5. CASE Waits
  BY <1>5, WaitsInv
<1>6. CASE SwitchWindow
  BY <1>6, SwitchWindowInv
<1>7. ASSUME NEW j \in Job, StartWorker(j) \/ Worker(j)
      PROVE  Inv'
  BY <1>7, StartWorkerInv, WorkInv, CheckInv, ActInv DEF Worker
<1>8. ASSUME NEW j \in Job, Request(j) \/ TestStrategy(j) \/ Answer(j)
      PROVE  Inv'
  BY <1>8, ClickedInv, AnswerInv
<1>9. CASE UNCHANGED vars
  <2>1. UNCHANGED <<state, main, idle, window, app, on, watch, trouble, focus, context, busy, clip, job, jobs, locks>>
    BY <1>9 DEF vars
  <2>2. \A i \in Job : Careful(i)' /\ SameFinish(i) /\ StillLate(i)
    BY <2>1, SameJobs DEF Inv, Types, Unlocked
  <2>3. Queue'
    BY <2>1, <2>2, QueueKept DEF Inv
  <2>4. LateCopy'
    BY <2>1, <2>2, LateKept DEF Inv, Running
  <2>5. Types' /\ LockedOnce'
    BY <2>1 DEF Inv, Types, LockedOnce, Unlocked
  <2>6. busy' \in BOOLEAN
    BY <2>1 DEF Inv
  <2>7. QED
    BY <2>2, <2>3, <2>4, <2>5, <2>6 DEF Inv
<1>10. QED
  BY <1>1, <1>2, <1>3, <1>4, <1>5, <1>6, <1>7, <1>8, <1>9 DEF Next, System, Environment, Aside, Waits

LEMMA InvAlways == Spec => []Inv
<1>1. Init => Inv
  BY InitInv
<1>2. Inv /\ [Next]_vars => Inv'
  BY InvStep
<1>3. QED
  BY <1>1, <1>2, PTL DEF Spec

\* Every variable keeps its type, and idle never holds more than the commands
\* that wait (MaxIdle), a callback for each job, and one teardown.
THEOREM TypeCorrect == Spec => []TypeOK
<1>1. Inv => TypeOK
  <2> SUFFICES ASSUME Inv PROVE TypeOK
    OBVIOUS
  <2>1. Types /\ Queue /\ busy \in BOOLEAN
    BY DEF Inv
  <2>2. Len(idle) <= MaxIdle + 3
    <3>1. Finishing(1) \in {0, 1} /\ Finishing(2) \in {0, 1} /\ locks \in {0, 1} /\ MaxIdle \in Nat
      BY <2>1, ConstantsAssumption DEF Finishing, Types, ConstantsAssumption
    <3>2. Len(idle) \in Nat
      BY <2>1, Length DEF Types
    <3>3. QED
      BY <2>1, <3>1, <3>2 DEF Queue
  <2>3. \A j \in Job : /\ job[j].kind \in {"none", "auto", "test"} /\ job[j].pc \in JobPc
                       /\ job[j].step \in 1 .. Steps + 1 /\ job[j].target \in Contexts
                       /\ job[j].late \in Nat
    BY <2>1 DEF Types, JobType
  <2>4. locks \in Nat
    BY <2>1 DEF Types
  <2>5. QED
    BY <2>1, <2>2, <2>3, <2>4 DEF Types, TypeOK
<1>2. QED
  BY <1>1, InvAlways, PTL

\* However many triggers come at once, one lock and one teardown follow.
THEOREM LockedOnlyOnce == Spec => []OneTeardown
<1>1. Inv => OneTeardown
  <2> SUFFICES ASSUME Inv PROVE OneTeardown
    OBVIOUS
  <2> DEFINE Teardowns == {n \in DOMAIN idle : idle[n] = <<"teardown">>}
  <2>1. locks + (IF main = "free" THEN 0 ELSE 1) <= 1
    BY DEF Inv, Types, LockedOnce
  <2>2. DOMAIN idle = Position
    BY LenProperties DEF Inv, Types, Position
  <2>3. Cardinality(Teardowns) <= locks
    <3>1. CASE Teardowns = {}
      <4>1. Cardinality(Teardowns) = 0
        BY <3>1, FS_EmptySet
      <4>2. locks \in Nat
        BY DEF Inv, Types
      <4>3. QED
        BY <4>1, <4>2
    <3>2. CASE Teardowns # {}
      <4>1. PICK n \in Position : idle[n] = <<"teardown">>
        BY <2>2, <3>2
      <4>2. \A m \in Position : idle[m] = <<"teardown">> => m = n
        BY <4>1, CallbackFacts DEF Inv, Queue
      <4>3. Teardowns = {n}
        BY <2>2, <4>1, <4>2
      <4>4. locks = 1
        BY <4>1 DEF Inv, Queue
      <4>5. Cardinality({n}) = 1
        BY FS_Singleton
      <4>6. Cardinality(Teardowns) = 1
        BY <4>3, <4>5, Zenon
      <4>7. QED
        BY <4>4, <4>6
    <3>3. QED
      BY <3>1, <3>2
  <2>4. QED
    BY <2>1, <2>3 DEF OneTeardown
<1>2. QED
  BY <1>1, InvAlways, PTL

\* After a lock no job sends more than the input it was about to send.
THEOREM LateInputIsOne == Spec => []AtMostOneLateInput
<1>1. Inv => AtMostOneLateInput
  BY DEF Inv, Careful, AtMostOneLateInput
<1>2. QED
  BY <1>1, InvAlways, PTL

\* Only a tool that fails or a late input leaves a secret on the clipboard
\* of a locked application.
THEOREM LockTakesSecrets == Spec => []LockClearsClipboard
<1>1. Inv => LockClearsClipboard
  <2> SUFFICES ASSUME Inv, locks > 0, clip = "secret", app # "gone"
               PROVE  \E j \in Job : job[j].late > 0
    BY DEF LockClearsClipboard
  <2>1. locks = 1 /\ Running
    BY DEF Inv, Types, Running
  <2>2. QED
    BY <2>1 DEF Inv, LateCopy
<1>2. QED
  BY <1>1, InvAlways, PTL

\* Inputs reach the window that was looked at, unless the focus moved since.
THEOREM InputsReachTheirWindow == Spec => []NothingGoesAstray
<1>1. Inv => NothingGoesAstray
  BY DEF Inv, Careful, NothingGoesAstray
<1>2. QED
  BY <1>1, InvAlways, PTL

=============================================================================
