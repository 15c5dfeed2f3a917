--------------------------- MODULE ClipboardProofs ---------------------------
(***************************************************************************)
(* Theorems about Clipboard, for any texts, any number of copies and locks *)
(* and any failing tools.                                                  *)
(***************************************************************************)
EXTENDS Clipboard, TLAPS


\* Only the last copy's timer can be armed, and only its callback can still
\* find its own generation.
TimersAreCurrent ==
  /\ timer # NoTimer =>
       timer.generation = generation /\ timer.digest = expected
  /\ \A r \in elapsed :
       /\ r.generation <= generation
       /\ r.generation = generation =>
            timer = NoTimer /\ due /\ r.digest = expected

\* Whoever got as far as wl-paste compares with the last copy, with its timer
\* over or cancelled.
ClearingIsDue ==
  stage \in {"paste", "clear"} =>
    /\ due /\ text = expected
    /\ timer = NoTimer
    /\ \A r \in elapsed : r.generation < generation

\* What is known of the clipboard: after a copy, between wl-paste and the
\* clear, and after clear_now.
BoardIsKnown ==
  /\ stage = "book" /\ mine => board = text
  /\ stage # "book" /\ mine /\ ~failed => board = expected
  /\ stage = "clear" /\ ~raced => board = text
  /\ cleared /\ mine /\ ~failed => stage \in {"book", "paste", "clear"}

Inv ==
  /\ TypeOK
  /\ TimersAreCurrent
  /\ ClearingIsDue
  /\ BoardIsKnown

LEMMA InvInit == Init => Inv
<1> SUFFICES ASSUME Init PROVE Inv
  OBVIOUS
<1> USE ConstantsAssumption DEF ConstantsAssumption, Init
<1>1. TypeOK
  <2>1. /\ timed \in BOOLEAN /\ due \in BOOLEAN /\ mine \in BOOLEAN
        /\ cleared \in BOOLEAN /\ failed \in BOOLEAN /\ raced \in BOOLEAN
    OBVIOUS
  <2>2. /\ generation \in 0 .. MaxGeneration
        /\ board \in Text \cup OtherText \cup {Nothing}
        /\ timer \in Callback \cup {NoTimer} /\ elapsed \in SUBSET Callback
    OBVIOUS
  <2>3. QED
    BY <2>1, <2>2 DEF TypeOK
<1>2. TimersAreCurrent /\ ClearingIsDue /\ BoardIsKnown
  BY DEF TimersAreCurrent, ClearingIsDue, BoardIsKnown
<1>3. QED
  BY <1>1, <1>2 DEF Inv

(* Every step keeps the variables in their types.                          *)
LEMMA TypeStep == TypeOK /\ [Next]_vars => TypeOK'
<1> SUFFICES ASSUME TypeOK, [Next]_vars PROVE TypeOK'
  OBVIOUS
<1> USE ConstantsAssumption DEF ConstantsAssumption, TypeOK, Callback, flags
<1>1. ASSUME NEW v \in Text, Copy(v) PROVE TypeOK'
  BY <1>1 DEF Copy
<1>2. ASSUME WlCopy PROVE TypeOK'
  BY <1>2 DEF WlCopy
<1>3. ASSUME WlCopyFails PROVE TypeOK'
  BY <1>3 DEF WlCopyFails, Release
<1>4. ASSUME NEW t \in BOOLEAN, Book(t) PROVE TypeOK'
  <2>1. /\ timed' \in BOOLEAN /\ due' \in BOOLEAN /\ mine' \in BOOLEAN
        /\ cleared' \in BOOLEAN /\ failed' \in BOOLEAN /\ raced' \in BOOLEAN
    BY <1>4 DEF Book
  <2>2. generation' \in 1 .. MaxGeneration /\ text \in Text
    BY <1>4 DEF Book
  <2>3. timer' \in Callback \cup {NoTimer}
    BY <1>4, <2>2 DEF Book
  <2>4. QED
    BY <1>4, <2>1, <2>2, <2>3 DEF Book, Release
<1>5. ASSUME ClearNow PROVE TypeOK'
  BY <1>5 DEF ClearNow, Compare
<1>6. ASSUME Elapse PROVE TypeOK'
  BY <1>6 DEF Elapse
<1>7. ASSUME NEW r \in elapsed, TimerRuns(r) PROVE TypeOK'
  BY <1>7 DEF TimerRuns, Compare
<1>8. ASSUME WlPaste PROVE TypeOK'
  BY <1>8 DEF WlPaste, Release
<1>9. ASSUME WlPasteFails PROVE TypeOK'
  BY <1>9 DEF WlPasteFails, Release
<1>10. ASSUME WlClear PROVE TypeOK'
  BY <1>10 DEF WlClear, Release
<1>11. ASSUME WlClearFails PROVE TypeOK'
  BY <1>11 DEF WlClearFails, Release
<1>12. ASSUME NEW v \in OtherText, OtherCopies(v) PROVE TypeOK'
  BY <1>12 DEF OtherCopies
<1>13. CASE UNCHANGED vars
  BY <1>13 DEF vars
<1>14. QED
  BY <1>1, <1>2, <1>3, <1>4, <1>5, <1>6, <1>7, <1>8, <1>9, <1>10, <1>11, <1>12, <1>13 DEF Next

(* Every step keeps what is known of timers, of the operation that clears   *)
(* and of the clipboard.                                                   *)
LEMMA InvStep == Inv /\ [Next]_vars => Inv'
<1> SUFFICES ASSUME Inv, [Next]_vars
             PROVE (TimersAreCurrent /\ ClearingIsDue /\ BoardIsKnown)'
  BY TypeStep DEF Inv
<1> DEFINE Known == TimersAreCurrent /\ ClearingIsDue /\ BoardIsKnown
<1> USE ConstantsAssumption DEF ConstantsAssumption
<1> USE DEF Inv, TypeOK, Callback, TimersAreCurrent, ClearingIsDue,
        BoardIsKnown, flags
<1>1. ASSUME NEW v \in Text, Copy(v) PROVE Known'
  BY <1>1 DEF Copy
<1>2. ASSUME WlCopy PROVE Known'
  BY <1>2 DEF WlCopy
<1>3. ASSUME WlCopyFails PROVE Known'
  BY <1>3 DEF WlCopyFails, Release
<1>4. ASSUME NEW t \in BOOLEAN, Book(t) PROVE Known'
  BY <1>4 DEF Book, Release
<1>5. ASSUME ClearNow PROVE Known'
  BY <1>5 DEF ClearNow, Compare
<1>6. ASSUME Elapse PROVE Known'
  BY <1>6 DEF Elapse
<1>7. ASSUME NEW r \in elapsed, TimerRuns(r) PROVE Known'
  BY <1>7 DEF TimerRuns, Compare
<1>8. ASSUME WlPaste PROVE Known'
  BY <1>8 DEF WlPaste, Release
<1>9. ASSUME WlPasteFails PROVE Known'
  BY <1>9 DEF WlPasteFails, Release
<1>10. ASSUME WlClear PROVE Known'
  BY <1>10 DEF WlClear, Release
<1>11. ASSUME WlClearFails PROVE Known'
  BY <1>11 DEF WlClearFails, Release
<1>12. ASSUME NEW v \in OtherText, OtherCopies(v) PROVE Known'
  BY <1>12 DEF OtherCopies
<1>13. CASE UNCHANGED vars
  BY <1>13 DEF vars
<1>14. QED
  BY <1>1, <1>2, <1>3, <1>4, <1>5, <1>6, <1>7, <1>8, <1>9, <1>10, <1>11, <1>12, <1>13 DEF Next

LEMMA Invariance == Spec => []Inv
<1>1. QED
  BY InvInit, InvStep, PTL DEF Spec

-----------------------------------------------------------------------------
(* The theorems.                                                           *)

\* Every variable keeps its type.
THEOREM TypeCorrect == Spec => []TypeOK
<1>1. Inv => TypeOK
  BY DEF Inv
<1>2. QED
  BY <1>1, Invariance, PTL

\* Nothing copied before clear_now is on the clipboard once it has run,
\* unless a tool failed.
THEOREM LockClears == Spec => []ClearNowLeavesNothing
<1>1. Inv => ClearNowLeavesNothing
  BY DEF Inv, BoardIsKnown, ClearNowLeavesNothing
<1>2. QED
  BY <1>1, Invariance, PTL

LEMMA OnlyWlClearClears == Inv /\ [Next]_vars /\ Clears => due /\ (~raced => board = expected)
BY DEF Inv, Clears, ClearingIsDue, BoardIsKnown

\* A secret is cleared only when its own time is over or a lock asked.
THEOREM NoTimerCutsShort == Spec => FullTime
<1>1. Inv /\ [Next]_vars => [Clears => due]_vars
  BY OnlyWlClearClears
<1>2. QED
  BY <1>1, Invariance, PTL DEF Spec, FullTime

\* Only the text of the last copy is cleared, unless another program writes
\* between wl-paste and the clear.
THEOREM OnlyOwnTextIsCleared == Spec => PreservesOthers
<1>1. Inv /\ [Next]_vars => [Clears /\ ~raced => board = expected]_vars
  BY OnlyWlClearClears
<1>2. QED
  BY <1>1, Invariance, PTL DEF Spec, PreservesOthers
=============================================================================
