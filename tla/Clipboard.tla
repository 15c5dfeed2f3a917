------------------------------ MODULE Clipboard ------------------------------
(***************************************************************************)
(* ClipboardManager of `passman.core.security.clipboard`: the one object   *)
(* the windows, the autotype worker and the session's lock share to put a  *)
(* secret on the desktop clipboard and to take it off again.               *)
(*                                                                         *)
(* Its operations copy, clear_now and the timer's _clear_if_unchanged hold *)
(* one lock from the first statement to the last and run wl-copy and       *)
(* wl-paste under it, so only the holder of the lock has a program counter *)
(* (stage).  A timer that has elapsed waits for the lock with the          *)
(* arguments it was made with and can no longer be cancelled.  Other       *)
(* programs use the clipboard at any time.  cancel_pending_clear has no    *)
(* caller in the program.                                                  *)
(***************************************************************************)
EXTENDS Naturals

CONSTANTS
  Text,           \* secrets the program copies; a text stands for its digest
  OtherText,      \* what other programs copy; may overlap Text
  Nothing,        \* the empty clipboard
  NoText, NoTimer,
  Failing,        \* which of "copy" (wl-copy), "paste" (wl-paste) and
                  \* "clear" (wl-copy --clear) may fail
  MaxGeneration   \* bound: copies and locks

ASSUME ConstantsAssumption ==
  /\ Nothing \notin Text /\ Nothing \notin OtherText /\ Nothing # NoText
  /\ NoText \notin Text /\ NoText \notin OtherText
  /\ NoTimer \notin [generation : Nat, digest : Text]
  /\ MaxGeneration \in Nat

VARIABLES
  board,       \* the desktop clipboard
  generation,  \* _generation
  expected,    \* _expected_digest
  timer,       \* _timer while it waits: the arguments of its callback
  elapsed,     \* callbacks of elapsed timers that wait for the lock
  stage,       \* the next step of the operation that holds the lock
  text,        \* the text that operation copies or compares with
  timed,       \* history: the last copy has a timeout
  due,         \* history: the last copy's time is over, or a lock asked
  mine,        \* history: the clipboard holds what the last copy put there
  cleared,     \* history: clear_now was called after the last copy
  failed,      \* history: a tool failed to clear the last copy
  raced        \* history: another program wrote between paste and clear

flags == <<timed, due, mine, cleared, failed, raced>>
vars == <<board, generation, expected, timer, elapsed, stage, text, flags>>

Callback == [generation : 1 .. MaxGeneration, digest : Text]

TypeOK ==
  /\ board \in Text \cup OtherText \cup {Nothing}
  /\ generation \in 0 .. MaxGeneration
  /\ expected \in Text \cup {NoText}
  /\ timer \in Callback \cup {NoTimer}
  /\ elapsed \in SUBSET Callback
  /\ stage \in {"free", "copy", "book", "paste", "clear"}
  /\ text \in Text \cup {NoText}
  /\ stage # "free" => text \in Text
  /\ stage \in {"copy", "book"} => generation < MaxGeneration
  /\ timed \in BOOLEAN /\ due \in BOOLEAN /\ mine \in BOOLEAN
  /\ cleared \in BOOLEAN /\ failed \in BOOLEAN /\ raced \in BOOLEAN

Init ==
  /\ board \in OtherText \cup {Nothing}
  /\ generation = 0
  /\ expected = NoText
  /\ timer = NoTimer
  /\ elapsed = {}
  /\ stage = "free"
  /\ text = NoText
  /\ timed = FALSE /\ due = FALSE /\ mine = FALSE
  /\ cleared = FALSE /\ failed = FALSE /\ raced = FALSE

Release == stage' = "free" /\ text' = NoText

Compare(v) == stage' = "paste" /\ text' = v

-----------------------------------------------------------------------------
(* Plausible mistakes, used to see that the properties notice them.        *)

\* The timer's generation is read before it is raised.
BookEarlier(t) ==
  /\ stage = "book"
  /\ generation' = generation + 1
  /\ expected' = text
  /\ timer' = IF t THEN [generation |-> generation, digest |-> text]
                   ELSE NoTimer
  /\ timed' = t
  /\ due' = FALSE /\ cleared' = FALSE /\ failed' = FALSE
  /\ Release
  /\ UNCHANGED <<board, elapsed, mine, raced>>

TimerRunsUnchecked(r) ==
  /\ stage = "free"
  /\ r \in elapsed
  /\ elapsed' = elapsed \ {r}
  /\ Compare(r.digest)
  /\ UNCHANGED <<board, generation, expected, timer, flags>>

ClearNowIfArmed ==
  /\ stage = "free"
  /\ generation < MaxGeneration
  /\ timer' = NoTimer
  /\ generation' = generation + 1
  /\ IF timer = NoTimer THEN UNCHANGED <<stage, text>>
                        ELSE Compare(timer.digest)
  /\ due' = TRUE /\ cleared' = TRUE
  /\ UNCHANGED <<board, expected, elapsed, timed, mine, failed, raced>>

WlPasteUncompared ==
  /\ stage = "paste"
  /\ stage' = "clear"
  /\ raced' = FALSE
  /\ UNCHANGED <<board, generation, expected, timer, elapsed, text, timed,
                 due, mine, cleared, failed>>

WlCopyFailsAndCancels ==
  /\ "copy" \in Failing
  /\ stage = "copy"
  /\ board' \in {board, text}
  /\ mine' = (mine /\ board' = board)
  /\ timer' = NoTimer
  /\ Release
  /\ UNCHANGED <<generation, expected, elapsed, timed, due, cleared, failed,
                 raced>>

-----------------------------------------------------------------------------
(* copy.                                                                   *)

Copy(v) ==
  /\ stage = "free"
  /\ generation < MaxGeneration
  /\ stage' = "copy"
  /\ text' = v
  /\ UNCHANGED <<board, generation, expected, timer, elapsed, flags>>

WlCopy ==
  /\ stage = "copy"
  /\ board' = text
  /\ mine' = TRUE
  /\ stage' = "book"
  /\ UNCHANGED <<generation, expected, timer, elapsed, text, timed, due,
                 cleared, failed, raced>>

\* wl-copy reports an error or takes too long; the text may be on the
\* clipboard nevertheless.  The earlier copy keeps its timer.
WlCopyFails ==
  /\ "copy" \in Failing
  /\ stage = "copy"
  /\ board' \in {board, text}
  /\ mine' = (mine /\ board' = board)
  /\ Release
  /\ UNCHANGED <<generation, expected, timer, elapsed, timed, due, cleared,
                 failed, raced>>

\* t: whether Settings ask for a timeout.
Book(t) ==
  /\ stage = "book"
  /\ generation' = generation + 1
  /\ expected' = text
  /\ timer' = IF t THEN [generation |-> generation', digest |-> text]
                   ELSE NoTimer
  /\ timed' = t
  /\ due' = FALSE /\ cleared' = FALSE /\ failed' = FALSE
  /\ Release
  /\ UNCHANGED <<board, elapsed, mine, raced>>

-----------------------------------------------------------------------------
(* clear_now and the timer.                                                *)

ClearNow ==
  /\ stage = "free"
  /\ generation < MaxGeneration
  /\ timer' = NoTimer
  /\ generation' = generation + 1
  /\ IF expected = NoText THEN UNCHANGED <<stage, text>>
                          ELSE Compare(expected)
  /\ due' = TRUE /\ cleared' = TRUE
  /\ UNCHANGED <<board, expected, elapsed, timed, mine, failed, raced>>

Elapse ==
  /\ timer # NoTimer
  /\ elapsed' = elapsed \cup {timer}
  /\ timer' = NoTimer
  /\ due' = TRUE
  /\ UNCHANGED <<board, generation, expected, stage, text, timed, mine,
                 cleared, failed, raced>>

TimerRuns(r) ==
  /\ stage = "free"
  /\ r \in elapsed
  /\ elapsed' = elapsed \ {r}
  /\ IF r.generation = generation THEN Compare(r.digest)
                                  ELSE UNCHANGED <<stage, text>>
  /\ UNCHANGED <<board, generation, expected, timer, flags>>

WlPaste ==
  /\ stage = "paste"
  /\ IF board = text
       THEN stage' = "clear" /\ UNCHANGED <<expected, text>>
       ELSE expected' = NoText /\ Release
  /\ raced' = FALSE
  /\ UNCHANGED <<board, generation, timer, elapsed, timed, due, mine,
                 cleared, failed>>

\* An exit status other than 0 counts as a different text; an exception
\* leaves the copy expected.
WlPasteFails ==
  /\ "paste" \in Failing
  /\ stage = "paste"
  /\ expected' \in {expected, NoText}
  /\ failed' = TRUE
  /\ Release
  /\ UNCHANGED <<board, generation, timer, elapsed, timed, due, mine,
                 cleared, raced>>

WlClear ==
  /\ stage = "clear"
  /\ board' = Nothing
  /\ mine' = FALSE
  /\ expected' = NoText
  /\ Release
  /\ UNCHANGED <<generation, timer, elapsed, timed, due, cleared, failed,
                 raced>>

WlClearFails ==
  /\ "clear" \in Failing
  /\ stage = "clear"
  /\ failed' = TRUE
  /\ Release
  /\ UNCHANGED <<board, generation, expected, timer, elapsed, timed, due,
                 mine, cleared, raced>>

OtherCopies(v) ==
  /\ board' = v
  /\ mine' = FALSE
  /\ raced' = (raced \/ stage = "clear")
  /\ UNCHANGED <<generation, expected, timer, elapsed, stage, text, timed,
                 due, cleared, failed>>

-----------------------------------------------------------------------------
Next ==
  \/ \E v \in Text : Copy(v)
  \/ WlCopy \/ WlCopyFails
  \/ \E t \in BOOLEAN : Book(t)
  \/ ClearNow
  \/ Elapse
  \/ \E r \in elapsed : TimerRuns(r)
  \/ WlPaste \/ WlPasteFails \/ WlClear \/ WlClearFails
  \/ \E v \in OtherText : OtherCopies(v)

Spec == Init /\ [][Next]_vars

\* The operation that holds the lock goes on, each tool with a timeout of 5
\* seconds, and time passes.  A timer's thread gets the lock although copies
\* take it again and again: they are made by a person, seconds apart.
Fairness ==
  /\ WF_vars(WlCopy \/ WlCopyFails)
  /\ WF_vars(\E t \in BOOLEAN : Book(t))
  /\ WF_vars(Elapse)
  /\ SF_vars(\E r \in elapsed : TimerRuns(r))
  /\ WF_vars(WlPaste \/ WlPasteFails)
  /\ WF_vars(WlClear \/ WlClearFails)

FairSpec == Spec /\ Fairness

-----------------------------------------------------------------------------
(* Properties.                                                             *)

Clears == stage = "clear" /\ board' = Nothing

\* The program clears the clipboard only while it holds the text of its last
\* copy: another program's text stays, and so does a text of an earlier copy
\* that another program put back (clipboard.py: "Auto-clear only clears the
\* clipboard if it still contains exactly what we put there").  Nothing stops
\* a program that writes between wl-paste and the clear.
PreservesOthers == [][Clears /\ ~raced => board = expected]_vars

\* A copied secret stays for its whole time unless a lock asks for the clear:
\* the timer of an earlier copy, of the same text even, and cancelled too
\* late, does not cut it short (clipboard.py: "a clear callback that fires
\* after a newer copy has happened is a no-op").
FullTime == [][Clears => due]_vars

\* Once clear_now has run, no copy made before it is on the clipboard, whether
\* its timer was armed, over or never set, unless wl-paste or the clear failed.
ClearNowLeavesNothing == cleared /\ stage = "free" /\ ~failed => ~mine

\* A copy with a timeout leaves the clipboard in the end, also when later
\* copies fail (clipboard.py: "Preserve the prior secret's timer when a
\* replacement fails"), unless reading or clearing fails.
TimedCopyEnds == timed /\ mine ~> ~timed \/ ~mine \/ failed

=============================================================================
