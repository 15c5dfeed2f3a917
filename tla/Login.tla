-------------------------------- MODULE Login --------------------------------
(***************************************************************************)
(* The sign-in window: the Local Key is tried without a question, then the *)
(* user types the master password, the vault is opened, and a device that  *)
(* is new is offered a Local Key.  The slow parts run on worker threads.   *)
(*                                                                         *)
(* There is one such window in a desktop session: a second process finds   *)
(* the D-Bus name taken and only raises it.                                *)
(***************************************************************************)
EXTENDS Naturals, FiniteSets

VARIABLE login

\* work: the workers, and the 300 ms wait before the vault is opened; "blank" is
\* an enrollment that was started without the secret.
Attempts == {"auto", "wait", "local", "password", "open"}
Work == Attempts \cup {"register", "blank"}
Page == {"none", "checking", "password", "register", "error", "closed"}

\* key: has_local_key; used: used_local_key; vms: the Vault Master Secret;
\* pending: it is in _pending_vms; result: result_handle is set.
LoginTypeOK ==
  /\ login.page \in Page /\ login.work \subseteq Work
  /\ login.busy \in BOOLEAN /\ login.key \in BOOLEAN /\ login.used \in BOOLEAN
  /\ login.vms \in {"none", "alive", "wiped"} /\ login.pending \in BOOLEAN
  /\ login.result \in BOOLEAN

NoLogin == [page |-> "none", work |-> {}, busy |-> FALSE, key |-> FALSE,
            used |-> FALSE, vms |-> "none", pending |-> FALSE, result |-> FALSE]

\* The window starts with the check of the Local Key, after 150 ms.
OpenLogin ==
  /\ login.page = "none"
  /\ \E key \in BOOLEAN :
       login' = [NoLogin EXCEPT !.page = "checking", !.work = {"auto"}, !.key = key]

Ended(worker) == worker \in login.work
Rest(worker) == login.work \ {worker}

\* attempt_automatic_login: a valid Local Key signs in; anything else asks.
AutoLogin ==
  /\ Ended("auto")
  /\ \/ /\ login.key
        /\ login' = [login EXCEPT !.work = Rest("auto") \cup {"wait"},
                                  !.used = TRUE, !.vms = "alive"]
     \/ login' = [login EXCEPT !.work = Rest("auto"), !.page = "password"]

Attempt(worker) ==
  /\ login.page = "password"
  /\ login' = [login EXCEPT !.busy = TRUE, !.work = @ \cup {worker}]

UseLocalKey == login.key /\ ~login.busy /\ Attempt("local")

\* Mutant: a second attempt is not kept out.
MSubmitPassword == Attempt("password")
SubmitPassword == ~login.busy /\ Attempt("password")

\* _finish_unlock.
Opening(rest, used) ==
  [login EXCEPT !.work = rest \cup {"open"}, !.used = used, !.vms = "alive",
                !.busy = TRUE, !.page = "checking"]

FinishUnlock == Ended("wait") /\ login' = Opening(Rest("wait"), TRUE)

\* A failed attempt leaves the password page; it may be repeated.
AttemptEnds(worker) ==
  /\ Ended(worker)
  /\ \/ login' = Opening(Rest(worker), worker = "local")
     \/ login' = [login EXCEPT !.work = Rest(worker), !.busy = FALSE]

\* The window closes, with a handle; an enrollment goes on behind it.
Handed(work, vms) ==
  [NoLogin EXCEPT !.page = "closed", !.result = TRUE, !.work = work, !.vms = vms]

\* The vault was opened, or not; touch_last_seen may raise, and then nothing
\* follows: the window goes on saying that it checks.
VaultOpened ==
  /\ Ended("open")
  /\ LET done == [login EXCEPT !.work = Rest("open"), !.busy = FALSE] IN
     \/ login' = [NoLogin EXCEPT !.vms = "wiped", !.page = "error"]
     \/ login' = done
     \/ /\ ~login.used /\ ~login.key
        /\ login' = [done EXCEPT !.page = "register", !.pending = TRUE]
     \/ /\ login.used \/ login.key
        /\ login' = Handed({}, "wiped")

\* Skip wipes the secret, unless a worker was given it.
SkipRegister ==
  /\ login.page = "register"
  /\ login' = Handed(login.work, IF login.pending THEN "wiped" ELSE login.vms)

\* Mutant: the window keeps the secret that it gives to the worker.
MGenerateKey ==
  /\ login.page = "register"
  /\ login' = [login EXCEPT !.work = @ \cup {IF login.pending THEN "register" ELSE "blank"}]

\* Each click starts a worker; the first one is given the secret.
GenerateKey ==
  /\ login.page = "register"
  /\ login' = [login EXCEPT !.work = @ \cup {IF login.pending THEN "register" ELSE "blank"},
                            !.pending = FALSE]

\* It worked or not, the worker wipes the secret and the user is in; skipped
\* meanwhile, the window is closed already.
RegisterDone ==
  /\ Ended("register")
  /\ login' = Handed(Rest("register"), "wiped")

\* A worker without the secret dies of that, and nothing follows.
BlankEnds ==
  /\ Ended("blank")
  /\ login' = [login EXCEPT !.work = Rest("blank")]

CloseLogin ==
  /\ login.page \notin {"none", "closed"}
  /\ login' = [NoLogin EXCEPT !.page = "closed"]

LoginStep ==
  \/ AutoLogin \/ UseLocalKey \/ SubmitPassword \/ FinishUnlock
  \/ AttemptEnds("local") \/ AttemptEnds("password")
  \/ VaultOpened \/ SkipRegister \/ GenerateKey \/ RegisterDone
  \/ BlankEnds \/ CloseLogin

-----------------------------------------------------------------------------

\* One attempt at a time, whatever is pressed while a key is derived; no page that
\* takes input while one runs, and none before the Local Key was tried.
LoginIsOrderly ==
  /\ Cardinality(login.work \cap Attempts) <= 1
  /\ login.work \cap {"auto", "wait", "open"} # {} => login.page = "checking"
  /\ login.work \cap {"local", "password", "open"} # {} => login.busy

\* However often Create and Skip are clicked, the secret is not wiped under the
\* worker that wraps it, and no handle is handed on while it lives, except with
\* that worker, which wipes it.
SecretHasOneOwner ==
  /\ Ended("register") => login.vms = "alive"
  /\ login.result => login.vms = "wiped" \/ Ended("register")
=============================================================================
