----------------------------- MODULE SetupProofs -----------------------------
(***************************************************************************)
(* Theorems about Setup and Provisioning, for any containers and any       *)
(* number of attempts and faults.                                          *)
(***************************************************************************)
EXTENDS Setup, SequenceTheorems, TLAPS

-----------------------------------------------------------------------------
(* The inductive invariant: the wizard's pages.                            *)

\* TypeOK without password, and without the length of pages.
Types ==
  /\ ProvisionTypeOK
  /\ pages \in Seq(Page)
  /\ flow \in FlowState
  /\ vaults \in SUBSET VaultId
  /\ result \in VaultId \cup {Nothing}
  /\ settings \in SUBSET {"hotkey", "removal"}

\* A page is at this height of the stack at most.
Rank(page) ==
  CASE page = "usb" -> 1
    [] page \in {"preparing", "found", "choice"} -> 2
    [] page = "password" -> 3
    [] page = "localkey" -> 4
    [] page \in {"commit", "error", "hotkey"} -> 5
    [] page \in {"binding", "explain"} -> 6
    [] page = "removal" -> 7

Final == {"hotkey", "binding", "explain", "removal"}
FinalState == {"hotkey_setup", "usb_removal_configuration", "setup_complete"}

\* The list of drives is at the bottom; only these pages have others above them,
\* and those of the settings come after the commit.
Stack ==
  \A i \in 1 .. Len(pages) :
    /\ i <= Rank(pages[i])
    /\ i = 1 => pages[i] = "usb"
    /\ i < Len(pages) =>
         pages[i] \in {"usb", "choice", "password", "localkey", "hotkey", "explain"}
    /\ pages[i] \in Final => flow \in FinalState

\* A hidden directory is what the wizard found, and nothing is done with it but
\* to register it.
Elsewhere ==
  draft.at \notin Container =>
    /\ pc = "none" /\ flow = "usb_selection"
    /\ pages = <<>> \/ On("found") \/ On("usb")

\* What the last page says of the flow and of the worker.
Screens ==
  /\ On("preparing") => flow = "usb_selection"
  /\ On("found") => here.json \in VaultId
  /\ On("commit") => flow = "device_registration"
  /\ (pages # <<>> /\ ~On("commit")) => pc = "none"
  /\ flow \in FinalState => pc = "none"
  /\ Elsewhere

-----------------------------------------------------------------------------
(* The inductive invariant: the files.                                     *)

Committed == {"provisioned", "reopen", "register", "done"}
Changing == Writing \cup Undoing \cup {"manifest"}

\* The container that was in use: a vault of another computer, which nothing
\* touches, or a database whose credentials still fit it or its copy.
GivenKept ==
  given # Nothing =>
    \/ usb[given] = Whole(0)
    \/ /\ userKey = "inside" => usb[given].key = User
       /\ UserDb \in {usb[given].db, usb[given].backup}

\* The other containers are untouched, or hold a vault the wizard finished; a
\* hidden directory has no database before its vault.json.
OthersWhole ==
  /\ \A c \in Container :
       c # given => usb[c] = Empty \/ (usb[c].json \in Attempt /\ Opens(c))
  /\ \A a \in Attempt : usb[a].db = Nothing \/ usb[a].json = a

\* An adoption works on the given container.  It holds a copy of the database
\* before the first change, and each step of the undo brings a part back.
Adoption ==
  /\ pc \in {"backup", "open", "key"} \cup Undoing => draft.adopt
  /\ draft.adopt =>
       /\ pc \in {"check", "backup"} => here = before
       /\ pc \in {"backup", "open"} => here.json = Nothing
       /\ pc = "backup" => here.backup = Nothing
       /\ pc = "open" => here = [before EXCEPT !.backup = before.db]
       /\ pc \in {"backup", "open"} \cup Changing =>
            /\ draft.at = given
            /\ draft.key # "inside" => before.key = Nothing
       /\ pc \in Changing =>
            /\ draft.key = userKey
            /\ here.backup = UserDb /\ before.db = UserDb
            /\ draft.key = "inside" => here.key = before.key
       /\ pc \in {"key", "db"} => here.db = UserDb
       /\ pc \in Undoing \ {"undo_db"} => here.db = before.db
       /\ pc \in {"undo_slots", "undo_key", "undo_home"} =>
            here.json = before.json /\ here.roster = before.roster
       /\ pc \in {"undo_key", "undo_home"} =>
            here.slot = before.slot /\ here.device = before.device
       /\ pc = "undo_home" => here.key = before.key

\* A creation fills its hidden directory; the container stays empty until the end.
Creation ==
  /\ pc = "publish" => ~draft.adopt
  /\ ~draft.adopt =>
       /\ pc \in Writing \cup {"manifest", "publish"} => here = Empty
       /\ pc \in {"db", "slot", "roster", "local", "device", "manifest", "publish"} =>
            usb[attempt].json = attempt
       /\ pc \in {"slot", "roster", "local", "device", "manifest", "publish"} =>
            /\ usb[attempt].key = attempt
            /\ usb[attempt].db = [secret |-> attempt, key |-> attempt, entries |-> FALSE]
       /\ pc \in {"roster", "local", "device", "manifest", "publish"} =>
            usb[attempt].slot = attempt

\* What a commit has reached, for an adoption and for a creation.
Reached ==
  /\ (draft.adopt /\ pc \in {"slot", "roster", "local", "device", "manifest"}) =>
       here.json = attempt
  /\ pc \in Committed => here.json = attempt
  /\ pc \in {"register", "done"} => Opens(draft.at)
  /\ pc = "done" => attempt \in vaults

\* From the end of the commit on nothing changes the vault.
Usable ==
  flow \in FinalState =>
    /\ attempt \in vaults
    /\ \E c \in Container : usb[c].json = attempt /\ Opens(c)

Inv ==
  /\ Types /\ password \in BOOLEAN
  /\ Stack /\ Screens
  /\ GivenKept /\ OthersWhole /\ Adoption /\ Creation /\ Reached /\ Usable

-----------------------------------------------------------------------------
(* The stack of pages.                                                     *)

LEMMA PagesFacts ==
  ASSUME pages \in Seq(Page)
  PROVE  /\ Len(pages) \in Nat
         /\ \A i \in 1 .. Len(pages) : pages[i] \in Page
         /\ pages # <<>> => Len(pages) > 0
  OBVIOUS

\* A page on top of another one.
LEMMA Pushed ==
  ASSUME Types, Stack, NEW page \in Page, NEW top \in Page, On(top), Push(page),
         top \in {"usb", "choice", "password", "localkey", "hotkey", "explain"},
         Rank(top) < Rank(page),
         page \in Final => flow' \in FinalState,
         flow \in FinalState => flow' \in FinalState
  PROVE  pages' \in Seq(Page) /\ pages' # <<>> /\ Last(pages') = page /\ Stack'
<1>1. /\ pages \in Seq(Page) /\ pages # <<>> /\ pages[Len(pages)] = top
      /\ Len(pages) \in Nat /\ Len(pages) > 0
  BY PagesFacts DEF Types, On, Last
<1>2. /\ pages' \in Seq(Page) /\ Len(pages') = Len(pages) + 1
      /\ \A i \in 1 .. Len(pages) : pages'[i] = pages[i]
      /\ pages'[Len(pages) + 1] = page
  BY <1>1, AppendProperties DEF Push
<1>3. Rank(page) \in Nat /\ Len(pages) + 1 <= Rank(page)
  <2>1. Len(pages) <= Rank(top)
    BY <1>1 DEF Stack
  <2>2. QED
    BY <1>1, <2>1 DEF Rank, Page
<1>4. Stack'
  <2> SUFFICES ASSUME NEW i \in 1 .. Len(pages')
               PROVE  /\ i <= Rank(pages'[i])
                      /\ i = 1 => pages'[i] = "usb"
                      /\ i < Len(pages') =>
                           pages'[i] \in {"usb", "choice", "password", "localkey",
                                          "hotkey", "explain"}
                      /\ pages'[i] \in Final => flow' \in FinalState
    BY DEF Stack
  <2>1. CASE i = Len(pages) + 1
    BY <1>1, <1>2, <1>3, <2>1
  <2>2. CASE i = Len(pages)
    BY <1>1, <1>2, <2>2 DEF Stack
  <2>3. CASE i < Len(pages)
    BY <1>1, <1>2, <2>3 DEF Stack
  <2>4. QED
    BY <1>1, <1>2, <2>1, <2>2, <2>3
<1>5. QED
  BY <1>1, <1>2, <1>4 DEF Last

\* What Front leaves.
LEMMA FrontFacts ==
  ASSUME pages \in Seq(Page), pages # <<>>
  PROVE  /\ Front(pages) \in Seq(Page) /\ Len(Front(pages)) = Len(pages) - 1
         /\ \A i \in 1 .. Len(pages) - 1 : Front(pages)[i] = pages[i]
<1>1. PICK n \in Nat : n = Len(pages) /\ n > 0
  BY PagesFacts
<1>2. /\ \A i \in 1 .. n - 1 : pages[i] \in Page
      /\ n - 1 \in Int
  BY <1>1, PagesFacts
<1> DEFINE front == SubSeq(pages, 1, n - 1)
<1>3. /\ front \in Seq(Page)
      /\ Len(front) = IF 1 <= n - 1 THEN n - 1 - 1 + 1 ELSE 0
      /\ \A i \in 1 .. n - 1 - 1 + 1 : front[i] = pages[1 + i - 1]
  BY <1>2, SubSeqProperties
<1>4. Front(pages) = front
  BY <1>1 DEF Front
<1> HIDE DEF front
<1>5. Len(front) = n - 1 /\ \A i \in 1 .. n - 1 : front[i] = pages[i]
  BY <1>1, <1>3
<1>6. QED
  BY <1>1, <1>3, <1>4, <1>5

\* A page instead of another one.
LEMMA Replaced ==
  ASSUME Types, Stack, NEW page \in Page, NEW top \in Page, On(top), Replace(page),
         top # "usb", Rank(top) <= Rank(page),
         page \in Final => flow' \in FinalState,
         flow \in FinalState => flow' \in FinalState
  PROVE  pages' \in Seq(Page) /\ pages' # <<>> /\ Last(pages') = page /\ Stack'
<1>1. /\ pages \in Seq(Page) /\ pages # <<>> /\ pages[Len(pages)] = top
      /\ Len(pages) \in Nat /\ Len(pages) > 1
  BY PagesFacts DEF Types, On, Last, Stack
<1>2. /\ pages' \in Seq(Page) /\ Len(pages') = Len(pages)
      /\ \A i \in 1 .. Len(pages) - 1 : pages'[i] = pages[i]
      /\ pages'[Len(pages)] = page
  BY <1>1, FrontFacts, AppendProperties DEF Replace
<1>3. Rank(page) \in Nat /\ Len(pages) <= Rank(page)
  <2>1. Len(pages) <= Rank(top)
    BY <1>1 DEF Stack
  <2>2. QED
    BY <1>1, <2>1 DEF Rank, Page
<1>4. Stack'
  <2> SUFFICES ASSUME NEW i \in 1 .. Len(pages')
               PROVE  /\ i <= Rank(pages'[i])
                      /\ i = 1 => pages'[i] = "usb"
                      /\ i < Len(pages') =>
                           pages'[i] \in {"usb", "choice", "password", "localkey",
                                          "hotkey", "explain"}
                      /\ pages'[i] \in Final => flow' \in FinalState
    BY DEF Stack
  <2>1. CASE i = Len(pages)
    BY <1>1, <1>2, <1>3, <2>1
  <2>2. CASE i < Len(pages)
    BY <1>1, <1>2, <2>2 DEF Stack
  <2>3. QED
    BY <1>1, <1>2, <2>1, <2>2
<1>5. QED
  BY <1>1, <1>2, <1>4 DEF Last

\* The page below, which is none of the pages that stay on top.
LEMMA Popped ==
  ASSUME Types, Stack, pages # <<>>, pages' = Front(pages), UNCHANGED flow
  PROVE  /\ pages' \in Seq(Page) /\ Stack'
         /\ pages' # <<>> => Last(pages') \in {"usb", "choice", "password", "localkey",
                                               "hotkey", "explain"}
         /\ pages' # <<>> /\ (On("found") \/ On("usb")) => Last(pages') = "usb"
<1>1. pages \in Seq(Page) /\ Len(pages) \in Nat /\ Len(pages) > 0
  BY PagesFacts DEF Types
<1>2. /\ pages' \in Seq(Page) /\ Len(pages') = Len(pages) - 1
      /\ \A i \in 1 .. Len(pages) - 1 : pages'[i] = pages[i]
  BY <1>1, FrontFacts
<1>3. Stack'
  <2> SUFFICES ASSUME NEW i \in 1 .. Len(pages')
               PROVE  /\ i <= Rank(pages'[i])
                      /\ i = 1 => pages'[i] = "usb"
                      /\ i < Len(pages') =>
                           pages'[i] \in {"usb", "choice", "password", "localkey",
                                          "hotkey", "explain"}
                      /\ pages'[i] \in Final => flow' \in FinalState
    BY DEF Stack
  <2>1. i < Len(pages) /\ i \in 1 .. Len(pages) /\ pages'[i] = pages[i]
    BY <1>1, <1>2
  <2>2. QED
    BY <1>1, <1>2, <2>1 DEF Stack
<1>4. ASSUME pages' # <<>>
      PROVE  Last(pages') \in {"usb", "choice", "password", "localkey", "hotkey", "explain"}
  <2>1. Len(pages') > 0
    BY <1>2, <1>4
  <2>2. Len(pages') \in 1 .. Len(pages) /\ Len(pages') < Len(pages)
        /\ pages'[Len(pages')] = pages[Len(pages')]
    BY <1>1, <1>2, <2>1
  <2>3. QED
    BY <2>2 DEF Stack, Last
<1>5. ASSUME pages' # <<>>, On("found") \/ On("usb")
      PROVE  Last(pages') = "usb"
  <2>1. Len(pages) <= 2
    <3>1. Len(pages) \in 1 .. Len(pages) /\ pages[Len(pages)] \in {"found", "usb"}
      BY <1>1, <1>5 DEF On, Last
    <3>2. Len(pages) <= Rank(pages[Len(pages)])
      BY <3>1 DEF Stack
    <3>3. QED
      BY <1>1, <3>1, <3>2 DEF Rank
  <2>2. Len(pages') = 1
    BY <1>1, <1>2, <1>5, <2>1
  <2>3. QED
    BY <1>3, <2>2 DEF Stack, Last
<1>6. QED
  BY <1>2, <1>3, <1>4, <1>5

-----------------------------------------------------------------------------
(* Files.                                                                  *)

LEMMA FilesFacts ==
  ASSUME Types
  PROVE  /\ draft.at \in Directory /\ here \in Files /\ before \in Files
         /\ UserDb \in Database /\ UserDb # Nothing
         /\ attempt \in VaultId /\ (pc # "none" => attempt \in Attempt)
<1>1. draft.at \in Directory /\ here \in Files /\ before \in Files /\ userKey \in KeyPlace
  BY DEF Types, ProvisionTypeOK, here
<1>2. UserDb \in Database
  BY <1>1 DEF UserDb, Database, Key
<1>3. QED
  BY <1>1, <1>2, ConstantsAssumption DEF Types, ProvisionTypeOK

\* What Here(f) does.
LEMMA HereFacts ==
  ASSUME Types, NEW f \in Files, Here(f), UNCHANGED draft
  PROVE  /\ usb' \in [Directory -> Files]
         /\ here' = f
         /\ \A c \in Directory : c # draft.at => usb'[c] = usb[c]
<1>1. draft.at \in Directory /\ usb \in [Directory -> Files]
  BY FilesFacts DEF Types, ProvisionTypeOK
<1>2. usb' = [usb EXCEPT ![draft.at] = f]
  BY DEF Here
<1>3. QED
  BY <1>1, <1>2 DEF here

\* An attempt's directory is none of the containers.
LEMMA Apart ==
  /\ \A a \in Attempt : a \notin Container /\ a \in Directory /\ a # Nothing
  /\ \A c \in Container : c \in Directory
BY ConstantsAssumption DEF Attempt, VaultId, Directory

LEMMA InContainer ==
  ASSUME Inv, pc # "none"
  PROVE  draft.at \in Container /\ attempt \in Attempt
BY DEF Inv, Screens, Elsewhere, Types, ProvisionTypeOK

\* What a step writes, field by field.
LEMMA WrittenFacts ==
  ASSUME NEW f \in Files, pc \in Writing, NEW w, w = Written(f, pc),
         attempt \in VaultId, draft.key \in KeyPlace,
         (pc = "db" /\ draft.adopt) => f.db \in Database
  PROVE  /\ w \in Files
         /\ w.json = IF pc = "json" THEN attempt ELSE f.json
         /\ w.slot = IF pc = "slot" THEN attempt ELSE f.slot
         /\ w.backup = f.backup
         /\ pc # "db" => w.db = f.db
         /\ (pc \notin {"key", "db"} \/ (pc = "db" /\ draft.adopt)
               \/ (pc = "key" /\ draft.key = "inside")) => w.key = f.key
         /\ (pc = "db" /\ ~draft.adopt) =>
              /\ w.key = attempt
              /\ w.db = [secret |-> attempt, key |-> attempt, entries |-> FALSE]
<1>1. CASE pc = "key"
  <2>1. PICK k \in Key : w = [f EXCEPT !.key = k] /\ (draft.key = "inside" => k = f.key)
    BY <1>1 DEF Written, Files, Key, KeyPlace
  <2>2. QED
    BY <1>1, <2>1 DEF Files
<1>2. CASE pc = "db" /\ draft.adopt
  <2> DEFINE d == [secret |-> attempt, key |-> f.key, entries |-> f.db.entries]
  <2>1. w = [f EXCEPT !.db = d]
    BY <1>2 DEF Written
  <2>2. d \in Database
    BY <1>2 DEF Files, Database, Key
  <2> HIDE DEF d
  <2>3. QED
    BY <1>2, <2>1, <2>2 DEF Files
<1>3. CASE pc = "db" /\ ~draft.adopt
  <2> DEFINE d == [secret |-> attempt, key |-> attempt, entries |-> FALSE]
  <2>1. w = [f EXCEPT !.db = d, !.key = attempt]
    BY <1>3 DEF Written
  <2>2. d \in Database
    BY DEF Database, Key
  <2>3. w \in Files
    <3> HIDE DEF d
    <3>1. QED
      BY <2>1, <2>2 DEF Files, Key
  <2>4. w.db = d /\ w.key = attempt /\ w.json = f.json /\ w.slot = f.slot /\ w.backup = f.backup
    <3> HIDE DEF d
    <3>1. QED
      BY <2>1 DEF Files
  <2>5. QED
    BY <1>3, <2>3, <2>4
<1>4. CASE pc = "json"
  <2>1. w = [f EXCEPT !.json = attempt]
    BY <1>4 DEF Written
  <2>2. QED
    BY <1>4, <2>1 DEF Files
<1>5. CASE pc = "slot"
  <2>1. w = [f EXCEPT !.slot = attempt]
    BY <1>5 DEF Written
  <2>2. QED
    BY <1>5, <2>1 DEF Files
<1>6. CASE pc = "roster"
  <2>1. w = [f EXCEPT !.roster = TRUE]
    BY <1>6 DEF Written
  <2>2. QED
    BY <1>6, <2>1 DEF Files
<1>7. CASE pc = "local"
  <2>1. w = f
    BY <1>7 DEF Written
  <2>2. QED
    BY <1>7, <2>1
<1>8. CASE pc = "device"
  <2>1. w = [f EXCEPT !.device = attempt]
    BY <1>8 DEF Written
  <2>2. QED
    BY <1>8, <2>1 DEF Files
<1>9. QED
  BY <1>1, <1>2, <1>3, <1>4, <1>5, <1>6, <1>7, <1>8 DEF Writing

\* A running worker means that the wizard waits for it or is closed.
LEMMA Waiting ==
  ASSUME Inv, pc # "none", UNCHANGED <<pages, flow, draft>>
  PROVE  Stack' /\ Screens' /\ Usable'
<1>1. flow \notin FinalState /\ (pages = <<>> \/ On("commit"))
  BY DEF Inv, Screens
<1>2. Stack'
  BY DEF Inv, Stack
<1>3. ~On("found") /\ ~On("preparing")
  BY <1>1 DEF On
<1>4. Screens'
  BY <1>1, <1>3, InContainer DEF Inv, Screens, On, Elsewhere
<1>5. QED
  BY <1>1, <1>2, <1>4 DEF Usable

\* The container that was in use is never empty.
LEMMA GivenNotEmpty ==
  ASSUME Types, GivenKept, given # Nothing
  PROVE  usb[given] # Empty
<1>1. UserDb # Nothing
  BY FilesFacts
<1>2. Whole(0).json = 0 /\ 0 # Nothing
  BY ConstantsAssumption DEF Whole, Empty, VaultId
<1>3. Empty.json = Nothing /\ Empty.db = Nothing /\ Empty.backup = Nothing
  BY DEF Empty
<1>4. QED
  BY <1>1, <1>2, <1>3 DEF GivenKept

\* Steps that leave the containers alone.
LEMMA SameContainers ==
  ASSUME GivenKept, OthersWhole, UNCHANGED <<usb, userKey, given>>
  PROVE  GivenKept' /\ OthersWhole'
BY DEF GivenKept, OthersWhole, Opens, UserDb

\* Steps of an adoption write to the given container only.
LEMMA SameOthers ==
  ASSUME Inv, NEW f \in Files, Here(f), UNCHANGED <<draft, given>>, draft.at = given
  PROVE  OthersWhole'
<1>1. \A c \in Directory : c # given => usb'[c] = usb[c]
  BY HereFacts DEF Inv
<1>2. given \notin Attempt
  BY Apart DEF Inv, Types, ProvisionTypeOK
<1>3. QED
  BY <1>1, <1>2, Apart DEF Inv, OthersWhole, Opens

\* Steps of a creation write to its hidden directory.
LEMMA HiddenFacts ==
  ASSUME Inv, pc # "none", NEW f \in Files, usb' = [usb EXCEPT ![attempt] = f],
         f.db = Nothing \/ f.json = attempt, UNCHANGED <<userKey, given, draft>>
  PROVE  /\ usb' \in [Directory -> Files] /\ usb'[attempt] = f /\ here' = here
         /\ GivenKept' /\ OthersWhole'
<1>1. attempt \in Attempt /\ attempt \in Directory /\ draft.at \in Container
  BY InContainer, Apart
<1>2. /\ usb' \in [Directory -> Files] /\ usb'[attempt] = f
      /\ \A c \in Directory : c # attempt => usb'[c] = usb[c]
  BY <1>1 DEF Inv, Types, ProvisionTypeOK
<1>3. \A c \in Container : usb'[c] = usb[c]
  BY <1>1, <1>2, Apart
<1>4. GivenKept'
  <2>1. given # Nothing => usb'[given] = usb[given]
    BY <1>3 DEF Inv, Types, ProvisionTypeOK
  <2>2. QED
    BY <2>1 DEF Inv, GivenKept, UserDb
<1>5. OthersWhole'
  BY <1>2, <1>3, Apart DEF Inv, OthersWhole, Opens
<1>6. QED
  BY <1>1, <1>2, <1>3, <1>4, <1>5 DEF here

\* After an error nothing is promised but the containers.
LEMMA Ended ==
  ASSUME pc' = "raised"
  PROVE  Adoption' /\ Creation' /\ Reached'
BY DEF Adoption, Creation, Reached, Committed, Changing, Undoing, Writing

-----------------------------------------------------------------------------
(* The steps of a commit.                                                  *)

LEMMA CheckInv == ASSUME Inv, Check, UNCHANGED wizardVars PROVE Inv'
<1> USE DEF Check, unmoved, wizardVars
<1>1. Types' /\ password' \in BOOLEAN
  <2>1. pc' \in {"backup", "json"}
    BY DEF Goto
  <2>2. QED
    BY <2>1 DEF Inv, Types, ProvisionTypeOK, Running, Writing
<1>2. GivenKept' /\ OthersWhole'
  BY SameContainers DEF Inv
<1>3. ASSUME draft.adopt PROVE Adoption' /\ Creation' /\ Reached'
  <2>1. CanAdopt /\ pc' = "backup" /\ here' = here
    BY <1>3 DEF Goto, here
  <2>2. draft.at = given
    <3>1. here.db # Nothing /\ here.json = Nothing /\ draft.at \in Container
      BY <2>1, InContainer DEF CanAdopt
    <3>2. here # Empty /\ here.json \notin Attempt
      BY <3>1, ConstantsAssumption DEF Empty, Attempt, VaultId
    <3>3. QED
      BY <3>1, <3>2 DEF Inv, OthersWhole, here
  <2>3. here = before
    BY <1>3 DEF Inv, Adoption
  <2>4. draft.key # "inside" => here.key = Nothing
    BY <2>1 DEF CanAdopt, Inv, Types, ProvisionTypeOK, KeyPlace
  <2>5. Adoption'
    BY <1>3, <2>1, <2>2, <2>3, <2>4 DEF Adoption, CanAdopt, Changing, Undoing, Writing
  <2>6. QED
    BY <1>3, <2>1, <2>5 DEF Creation, Reached, Committed, Writing
<1>4. ASSUME ~draft.adopt PROVE Adoption' /\ Creation' /\ Reached'
  <2>1. here = Empty /\ pc' = "json" /\ here' = here
    BY <1>4 DEF Goto, here, CanCreate
  <2>2. QED
    BY <1>4, <2>1 DEF Adoption, Creation, Reached, Committed, Writing, Undoing
<1>5. QED
  BY <1>1, <1>2, <1>3, <1>4, Waiting DEF Inv

\* Steps that end in an error and leave the containers alone.
LEMMA RaiseInv ==
  ASSUME Inv, pc # "none", pc' = "raised",
         UNCHANGED <<usb, userKey, given, draft, attempt, before, pages, flow,
                     vaults, result, settings>>,
         home' \in SUBSET Attempt, faults' \in 0 .. MaxFaults,
         password' \in BOOLEAN
  PROVE  Inv'
<1>1. Types'
  BY DEF Inv, Types, ProvisionTypeOK
<1>2. GivenKept' /\ OthersWhole'
  BY SameContainers DEF Inv
<1>3. QED
  BY <1>1, <1>2, Ended, Waiting DEF Inv

\* Steps that end in an error and change the copy on the container.
LEMMA CopyInv ==
  ASSUME Inv, pc \in {"backup", "open"}, pc' = "raised",
         NEW b \in {Nothing, Torn}, Here([here EXCEPT !.backup = b]),
         UNCHANGED <<userKey, given, draft, attempt, before, home,
                     wizardVars>>,
         faults' \in 0 .. MaxFaults
  PROVE  Inv'
<1> DEFINE f == [here EXCEPT !.backup = b]
<1>1. /\ here \in Files /\ f \in Files /\ f.backup = b /\ f.db = here.db
      /\ f.key = here.key /\ f.json = here.json
  BY FilesFacts DEF Inv, Files
<1> HIDE DEF f
<1>2. Here(f)
  BY DEF f
<1>3. Types' /\ password' \in BOOLEAN
  <2>1. usb' \in [Directory -> Files]
    BY <1>1, <1>2, HereFacts DEF Inv
  <2>2. QED
    BY <2>1 DEF Inv, Types, ProvisionTypeOK, wizardVars
<1>4. draft.adopt /\ draft.at = given /\ here.json = Nothing
  BY DEF Inv, Adoption
<1>5. OthersWhole'
  BY <1>1, <1>2, <1>4, SameOthers
<1>6. GivenKept'
  <2>1. usb[given] = here /\ here' = f /\ usb'[given] = f
    BY <1>1, <1>2, <1>4, HereFacts DEF here, Inv
  <2>2. Whole(0).json = 0 /\ 0 # Nothing
    BY ConstantsAssumption DEF Whole, Empty, VaultId
  <2>3. here.backup = here.db \/ here.backup = Nothing
    <3>1. CASE pc = "backup"
      BY <3>1, <1>4 DEF Inv, Adoption
    <3>2. CASE pc = "open"
      <4>1. here = [before EXCEPT !.backup = before.db] /\ before \in Files
        BY <1>4, <3>2, FilesFacts DEF Inv, Adoption
      <4>2. QED
        BY <4>1 DEF Files
    <3>3. QED
      BY <3>1, <3>2
  <2>4. given # Nothing => (userKey = "inside" => here.key = User) /\ here.db = UserDb
    BY <1>4, <2>1, <2>2, <2>3, FilesFacts DEF Inv, GivenKept
  <2>5. UserDb' = UserDb
    BY DEF UserDb
  <2>6. QED
    BY <1>1, <2>1, <2>4, <2>5 DEF GivenKept
<1>7. QED
  BY <1>3, <1>5, <1>6, Ended, Waiting DEF Inv, wizardVars

LEMMA BackupInv == ASSUME Inv, Backup, UNCHANGED wizardVars PROVE Inv'
<1> USE DEF Backup, unmoved, wizardVars
<1> DEFINE f == [here EXCEPT !.backup = here.db]
<1>1. /\ here \in Files /\ f \in Files /\ f.backup = here.db /\ f.db = here.db
      /\ f.key = here.key /\ f.json = here.json
  BY FilesFacts DEF Inv, Files
<1>0. draft.adopt /\ draft.at = given /\ here.json = Nothing /\ here = before
      /\ here.backup = Nothing /\ (draft.key # "inside" => before.key = Nothing)
  BY DEF Inv, Adoption
<1>a. f = [before EXCEPT !.backup = before.db]
  BY <1>0
<1> HIDE DEF f
<1>2. Here(f) /\ pc' = "open"
  BY DEF f, Goto
<1>3. Types' /\ password' \in BOOLEAN
  <2>1. usb' \in [Directory -> Files]
    BY <1>1, <1>2, HereFacts DEF Inv
  <2>2. QED
    BY <1>2, <2>1 DEF Inv, Types, ProvisionTypeOK, Running
<1>4. OthersWhole'
  BY <1>0, <1>1, <1>2, SameOthers
<1>5. usb[given] = here /\ here' = f /\ usb'[given] = f
  BY <1>0, <1>1, <1>2, HereFacts DEF here, Inv
<1>6. GivenKept'
  <2>1. Whole(0).json = 0 /\ 0 # Nothing
    BY ConstantsAssumption DEF Whole, Empty, VaultId
  <2>2. given # Nothing => (userKey = "inside" => here.key = User) /\ here.db = UserDb
    BY <1>0, <1>5, <2>1, FilesFacts DEF Inv, GivenKept
  <2>3. UserDb' = UserDb
    BY DEF UserDb
  <2>4. QED
    BY <1>1, <1>5, <2>2, <2>3 DEF GivenKept
<1>7. Adoption' /\ Creation' /\ Reached'
  BY <1>0, <1>1, <1>2, <1>5, <1>a
     DEF Adoption, Creation, Reached, Committed, Changing, Undoing, Writing
<1>8. QED
  BY <1>3, <1>4, <1>6, <1>7, Waiting DEF Inv

LEMMA OpenExistingInv == ASSUME Inv, OpenExisting, UNCHANGED wizardVars PROVE Inv'
<1> USE DEF OpenExisting, unmoved, wizardVars
<1>1. pc' = "key" /\ here' = here
  BY DEF Goto, here
<1>2. Types' /\ password' \in BOOLEAN
  BY <1>1 DEF Inv, Types, ProvisionTypeOK, Running, Writing
<1>3. GivenKept' /\ OthersWhole'
  BY SameContainers DEF Inv
<1>4. /\ draft.adopt /\ draft.at = given
      /\ here = [before EXCEPT !.backup = before.db]
      /\ draft.key # "inside" => before.key = Nothing
  BY DEF Inv, Adoption
<1>5. here.db = before.db /\ here.backup = before.db /\ here.key = before.key
  BY <1>4, FilesFacts DEF Inv, Files
<1>6. here.db = UserDb /\ draft.key = userKey
  BY DEF Unlocks
<1>7. Adoption' /\ Creation' /\ Reached'
  BY <1>1, <1>4, <1>5, <1>6
     DEF Adoption, Creation, Reached, Committed, Changing, Undoing, Writing, UserDb
<1>8. QED
  BY <1>2, <1>3, <1>7, Waiting DEF Inv

LEMMA WrongCredentialsInv == ASSUME Inv, WrongCredentials, UNCHANGED wizardVars PROVE Inv'
BY CopyInv DEF WrongCredentials, Goto, unmoved, Inv, Types, ProvisionTypeOK

LEMMA ManifestInv == ASSUME Inv, Manifest, UNCHANGED wizardVars PROVE Inv'
<1> USE DEF Manifest, unmoved, wizardVars
<1>1. pc' = (IF draft.adopt THEN "provisioned" ELSE "publish") /\ here' = here
  BY DEF Goto, here
<1>2. Types' /\ password' \in BOOLEAN
  BY <1>1 DEF Inv, Types, ProvisionTypeOK, Running
<1>3. GivenKept' /\ OthersWhole'
  BY SameContainers DEF Inv
<1>4. Adoption' /\ Creation' /\ Reached'
  BY <1>1 DEF Inv, Adoption, Creation, Reached, Committed, Changing, Undoing, Writing
<1>5. QED
  BY <1>2, <1>3, <1>4, Waiting DEF Inv

LEMMA PublishInv == ASSUME Inv, Publish, UNCHANGED wizardVars PROVE Inv'
<1> USE DEF Publish, unmoved, wizardVars
<1> DEFINE work == usb[attempt]
<1>1. pc' = "provisioned" /\ pc # "none" /\ draft.at \in Container /\ attempt \in Attempt
  BY InContainer DEF Goto
<1>a. /\ draft.at \in Directory /\ attempt \in Directory /\ attempt # draft.at
      /\ usb \in [Directory -> Files] /\ work \in Files /\ Empty \in Files
  BY <1>1, Apart DEF Inv, Types, ProvisionTypeOK, Empty, Files, Key
<1>2. /\ here' = work /\ usb'[attempt] = Empty
      /\ usb' \in [Directory -> Files]
      /\ \A c \in Directory : c \notin {draft.at, attempt} => usb'[c] = usb[c]
  BY <1>a DEF here
<1>3. Types' /\ password' \in BOOLEAN
  BY <1>1, <1>2 DEF Inv, Types, ProvisionTypeOK
<1>4. /\ ~draft.adopt /\ here = Empty
      /\ work.json = attempt /\ work.key = attempt /\ work.slot = attempt
      /\ work.db = [secret |-> attempt, key |-> attempt, entries |-> FALSE]
  BY DEF Inv, Creation
<1>5. draft.at # given
  <2>1. usb[draft.at] = Empty
    BY <1>4 DEF here
  <2>2. QED
    BY <1>1, <2>1, Apart, GivenNotEmpty, ConstantsAssumption DEF Inv
<1>6. GivenKept'
  <2>1. given # Nothing => given \in Container /\ usb'[given] = usb[given]
    BY <1>1, <1>2, <1>5, Apart DEF Inv, Types, ProvisionTypeOK
  <2>2. UserDb' = UserDb
    BY DEF UserDb
  <2>3. QED
    BY <2>1, <2>2 DEF Inv, GivenKept
<1>7. OthersWhole'
  <2>0. \A a \in Attempt : usb'[a].db = Nothing \/ usb'[a].json = a
    BY <1>1, <1>2, Apart DEF Inv, OthersWhole, Empty
  <2> SUFFICES ASSUME NEW c \in Container, c # given
               PROVE  usb'[c] = Empty \/ (usb'[c].json \in Attempt /\ Opens(c)')
    BY <2>0 DEF OthersWhole
  <2>1. CASE c # draft.at
    BY <2>1, <1>1, <1>2, Apart DEF Inv, OthersWhole, Opens
  <2>2. CASE c = draft.at
    <3>1. usb'[c] = work
      BY <1>2, <2>2 DEF here
    <3>2. attempt \in Attempt /\ attempt \in VaultId
      BY <1>1, FilesFacts DEF Inv
    <3>3. work.db \in Database /\ work.db.secret = attempt /\ work.db.key = attempt
      BY <1>4, <3>2 DEF Database, Key
    <3>4. QED
      BY <1>4, <3>1, <3>2, <3>3 DEF Opens
  <2>3. QED
    BY <2>1, <2>2
<1>8. Adoption' /\ Creation' /\ Reached'
  BY <1>1, <1>2, <1>4
     DEF Adoption, Creation, Reached, Committed, Changing, Undoing, Writing
<1>9. QED
  BY <1>1, <1>3, <1>6, <1>7, <1>8, Waiting DEF Inv

-----------------------------------------------------------------------------
(* The writes, and their undo.                                             *)

\* What an adoption writes leaves the copy, and the user's key file.
LEMMA GivenStays ==
  ASSUME Inv, draft.adopt, pc \in Changing, NEW f \in Files, Here(f),
         UNCHANGED <<userKey, given, draft>>,
         f.backup = here.backup, draft.key = "inside" => f.key = here.key
  PROVE  GivenKept' /\ OthersWhole'
<1>1. draft.at = given /\ draft.key = userKey /\ here.backup = UserDb
  BY DEF Inv, Adoption
<1>2. usb[given] = here /\ usb'[given] = f /\ UserDb' = UserDb
  BY <1>1, HereFacts DEF Inv, here, UserDb
<1>3. Whole(0).backup = Nothing /\ UserDb # Nothing
  BY FilesFacts DEF Inv, Whole, Empty
<1>4. given # Nothing => (userKey = "inside" => here.key = User)
  BY <1>1, <1>2, <1>3 DEF Inv, GivenKept
<1>5. GivenKept'
  BY <1>1, <1>2, <1>4 DEF GivenKept
<1>6. OthersWhole'
  BY <1>1, SameOthers
<1>7. QED
  BY <1>5, <1>6

\* Types of a step that writes f into the container.
LEMMA HereTypes ==
  ASSUME Inv, NEW f \in Files, Here(f), pc # "none",
         UNCHANGED <<userKey, given, draft, attempt, before, wizardVars>>,
         home' \in SUBSET Attempt, faults' \in 0 .. MaxFaults,
         pc' \in Running \cup {"raised"}
  PROVE  Types' /\ password' \in BOOLEAN
<1>1. usb' \in [Directory -> Files]
  BY HereFacts DEF Inv
<1>2. QED
  BY <1>1 DEF Inv, Types, ProvisionTypeOK, wizardVars

\* A write of an adoption, also when it fails after it wrote.
LEMMA WriteHere ==
  ASSUME Inv, draft.adopt, pc \in Writing,
         Here(Written(here, pc)),
         UNCHANGED <<userKey, given, draft, attempt, before, wizardVars>>,
         home' \in SUBSET Attempt, faults' \in 0 .. MaxFaults,
         pc' \in {After(pc), "undo_db"}
  PROVE  Inv'
<1> USE DEF wizardVars
<1>1. here \in Files /\ attempt \in VaultId /\ draft.key \in KeyPlace /\ UserDb \in Database
  BY FilesFacts DEF Inv, Types, ProvisionTypeOK
<1>2. /\ draft.at = given /\ (draft.key # "inside" => before.key = Nothing)
      /\ draft.key = userKey /\ here.backup = UserDb /\ before.db = UserDb
      /\ draft.key = "inside" => here.key = before.key
      /\ pc \in {"key", "db"} => here.db = UserDb
      /\ pc \in {"slot", "roster", "local", "device"} => here.json = attempt
  BY DEF Inv, Adoption, Reached, Changing
<1>3. PICK f : f = Written(here, pc)
  OBVIOUS
<1>4. /\ f \in Files
      /\ f.json = IF pc = "json" THEN attempt ELSE here.json
      /\ f.backup = here.backup
      /\ pc # "db" => f.db = here.db
      /\ draft.key = "inside" => f.key = here.key
  BY <1>1, <1>2, <1>3, WrittenFacts DEF Writing
<1>5. Here(f) /\ here' = f
  BY <1>3, <1>4, HereFacts DEF Inv
<1>6. pc' \in Running /\ pc # "none"
  BY DEF After, Running, Writing, Undoing
<1>7. Types' /\ password' \in BOOLEAN
  BY <1>4, <1>5, <1>6, HereTypes
<1>8. GivenKept' /\ OthersWhole'
  BY <1>4, <1>5, GivenStays DEF Changing
<1>9. Adoption' /\ Creation' /\ Reached'
  <2>1. \/ pc = "key" /\ pc' = "db"
        \/ pc = "db" /\ pc' = "json"
        \/ pc = "json" /\ pc' = "slot"
        \/ pc \in {"slot", "roster", "local", "device"}
           /\ pc' \in {"roster", "local", "device", "manifest"}
        \/ pc' = "undo_db"
    BY DEF After, Writing
  <2>2. Adoption'
    BY <1>2, <1>4, <1>5, <2>1 DEF Adoption, Changing, Undoing, Writing, UserDb
  <2>3. Creation'
    BY <2>1 DEF Creation
  <2>4. Reached'
    BY <1>2, <1>4, <1>5, <2>1 DEF Reached, Committed
  <2>5. QED
    BY <2>2, <2>3, <2>4
<1>10. QED
  BY <1>6, <1>7, <1>8, <1>9, Waiting DEF Inv

\* A write of a creation.
LEMMA WriteWork ==
  ASSUME Inv, ~draft.adopt, pc \in Writing,
         usb' = [usb EXCEPT ![attempt] = Written(usb[attempt], pc)],
         pc' = After(pc), home' \in SUBSET Attempt,
         UNCHANGED <<faults, userKey, given, draft, attempt, before, wizardVars>>
  PROVE  Inv'
<1> USE DEF wizardVars
<1>0. pc # "none"
  BY DEF Writing
<1>1. PICK work : work = usb[attempt]
  OBVIOUS
<1>2. /\ work \in Files /\ attempt \in VaultId /\ draft.key \in KeyPlace /\ pc # "key"
      /\ attempt \in Attempt
  <2>1. attempt \in Attempt /\ attempt \in Directory
    BY <1>0, InContainer, Apart
  <2>2. QED
    BY <1>1, <2>1, FilesFacts DEF Inv, Types, ProvisionTypeOK, Adoption
<1>3. PICK f : f = Written(work, pc)
  OBVIOUS
<1>4. /\ f \in Files
      /\ f.json = IF pc = "json" THEN attempt ELSE work.json
      /\ f.slot = IF pc = "slot" THEN attempt ELSE work.slot
      /\ pc # "db" => f.db = work.db
      /\ pc # "db" => f.key = work.key
      /\ pc = "db" =>
           /\ f.key = attempt
           /\ f.db = [secret |-> attempt, key |-> attempt, entries |-> FALSE]
  BY <1>2, <1>3, WrittenFacts
<1>5. /\ here = Empty
      /\ pc # "json" => work.json = attempt
      /\ pc \notin {"json", "db"} =>
           /\ work.key = attempt
           /\ work.db = [secret |-> attempt, key |-> attempt, entries |-> FALSE]
      /\ pc \notin {"json", "db", "slot"} => work.slot = attempt
  BY <1>1, <1>2 DEF Inv, Creation, Writing
<1>6. /\ usb' \in [Directory -> Files] /\ usb'[attempt] = f /\ here' = here
      /\ GivenKept' /\ OthersWhole'
  BY <1>0, <1>1, <1>3, <1>4, <1>5, HiddenFacts
<1>7. \/ pc = "json" /\ pc' = "db"
      \/ pc = "db" /\ pc' = "slot"
      \/ pc = "slot" /\ pc' = "roster"
      \/ pc \in {"roster", "local", "device"} /\ pc' \in {"local", "device", "manifest"}
  BY <1>2 DEF After, Writing
<1>8. Types' /\ password' \in BOOLEAN
  <2>1. pc' \in Running
    BY <1>7 DEF Running, Writing
  <2>2. QED
    BY <1>0, <1>6, <2>1 DEF Inv, Types, ProvisionTypeOK
<1>9. Adoption'
  BY <1>7 DEF Adoption, Undoing
<1>10. Creation'
  BY <1>4, <1>5, <1>6, <1>7 DEF Creation, Writing
<1>11. Reached'
  BY <1>7 DEF Reached, Committed
<1>12. QED
  BY <1>0, <1>6, <1>8, <1>9, <1>10, <1>11, Waiting DEF Inv

LEMMA WriteInv == ASSUME Inv, Write, UNCHANGED wizardVars PROVE Inv'
<1>1. pc \in Writing /\ pc # "none"
  BY DEF Write, Writing
<1>2. home' \in SUBSET Attempt /\ faults' \in 0 .. MaxFaults
  BY <1>1 DEF Write, Inv, Types, ProvisionTypeOK
<1>3. CASE draft.adopt
  BY <1>1, <1>2, <1>3, WriteHere DEF Write, Put, Target, Here, here, Goto, unmoved
<1>4. CASE ~draft.adopt
  BY <1>1, <1>2, <1>4, WriteWork DEF Write, Put, Target, Goto, unmoved
<1>5. QED
  BY <1>3, <1>4

LEMMA FaultType == ASSUME Inv, Fault PROVE faults' \in 0 .. MaxFaults
BY ConstantsAssumption DEF Inv, Types, ProvisionTypeOK, Fault

LEMMA FailAdoptInv == ASSUME Inv, FailAdopt, UNCHANGED wizardVars PROVE Inv'
<1>1. /\ draft.adopt /\ pc \in Writing /\ pc' = "undo_db" /\ pc # "none"
      /\ UNCHANGED <<userKey, given, draft, attempt, before, wizardVars>>
  BY DEF FailAdopt, Goto, unmoved, Writing
<1>2. home' \in SUBSET Attempt /\ faults' \in 0 .. MaxFaults
  BY <1>1, FaultType DEF FailAdopt, Inv, Types, ProvisionTypeOK
<1>3. CASE Here(Written(here, pc))
  BY <1>1, <1>2, <1>3, WriteHere
<1>4. CASE Here(here)
  <2>1. here \in Files /\ here' = here
    BY <1>1, <1>4, HereFacts, FilesFacts DEF Inv
  <2>2. Types' /\ password' \in BOOLEAN
    BY <1>1, <1>2, <1>4, <2>1, HereTypes DEF Running, Undoing
  <2>3. GivenKept' /\ OthersWhole'
    BY <1>1, <1>4, <2>1, GivenStays DEF Changing
  <2>4. Adoption'
    BY <1>1, <2>1 DEF Inv, Adoption, Changing, Undoing, Writing, UserDb
  <2>5. Creation' /\ Reached'
    BY <1>1 DEF Creation, Reached, Committed
  <2>6. QED
    BY <1>1, <2>2, <2>3, <2>4, <2>5, Waiting DEF Inv, wizardVars
<1>5. QED
  BY <1>3, <1>4 DEF FailAdopt

\* A step of the undo writes f, which agrees with before in what earlier steps
\* brought back.
LEMMA UndoStep ==
  ASSUME Inv, pc \in Undoing, NEW f \in Files, Here(f),
         UNCHANGED <<home, faults, unmoved, wizardVars>>,
         f.backup = here.backup, draft.key = "inside" => f.key = here.key,
         \/ pc = "undo_db" /\ pc' = "undo_metadata" /\ f.db = here.backup
         \/ /\ pc = "undo_metadata" /\ pc' = "undo_slots" /\ f.db = here.db
            /\ f.json = before.json /\ f.roster = before.roster
         \/ /\ pc = "undo_slots" /\ pc' = "undo_key" /\ f.db = here.db
            /\ f.json = here.json /\ f.roster = here.roster
            /\ f.slot = before.slot /\ f.device = before.device
         \/ /\ pc = "undo_key" /\ pc' = "undo_home" /\ f.db = here.db
            /\ f.json = here.json /\ f.roster = here.roster
            /\ f.slot = here.slot /\ f.device = here.device
            /\ f.key = IF draft.key = "inside" THEN here.key ELSE Nothing
  PROVE  Inv'
<1> USE DEF unmoved, wizardVars
<1>1. pc # "none" /\ pc \in Changing /\ pc' \in Undoing \ {"undo_db"}
  BY DEF Undoing, Changing
<1>2. home' \in SUBSET Attempt /\ faults' \in 0 .. MaxFaults
  BY DEF Inv, Types, ProvisionTypeOK
<1>3. Types' /\ password' \in BOOLEAN
  BY <1>1, <1>2, HereTypes DEF Running, Undoing
<1>4. draft.adopt /\ here' = f
  BY HereFacts DEF Inv, Adoption
<1>5. GivenKept' /\ OthersWhole'
  BY <1>1, <1>4, GivenStays
<1>6. /\ draft.at = given /\ (draft.key # "inside" => before.key = Nothing)
      /\ draft.key = userKey /\ here.backup = UserDb /\ before.db = UserDb
      /\ draft.key = "inside" => here.key = before.key
      /\ pc # "undo_db" => here.db = before.db
      /\ pc \in {"undo_slots", "undo_key"} =>
           here.json = before.json /\ here.roster = before.roster
      /\ pc = "undo_key" => here.slot = before.slot /\ here.device = before.device
  BY <1>1, <1>4 DEF Inv, Adoption
<1>7. Adoption'
  BY <1>1, <1>4, <1>6 DEF Adoption, Changing, Undoing, Writing, UserDb
<1>8. Creation' /\ Reached'
  BY <1>1, <1>4 DEF Creation, Reached, Committed, Undoing, Writing
<1>9. QED
  BY <1>1, <1>3, <1>5, <1>7, <1>8, Waiting DEF Inv

LEMMA UndoInv ==
  ASSUME Inv, UndoDb \/ UndoMetadata \/ UndoSlots \/ UndoKey, UNCHANGED wizardVars
  PROVE  Inv'
<1>1. here \in Files /\ before \in Files
  BY FilesFacts DEF Inv
<1>2. CASE UndoDb
  <2>1. PICK f : f = [here EXCEPT !.db = here.backup]
    OBVIOUS
  <2>2. /\ f \in Files /\ f.db = here.backup /\ f.backup = here.backup /\ f.key = here.key
    BY <1>1, <2>1 DEF Files
  <2>3. Here(f) /\ pc = "undo_db" /\ pc' = "undo_metadata"
    BY <1>2, <2>1 DEF UndoDb, Goto
  <2>4. QED
    BY <1>2, <2>2, <2>3, UndoStep DEF UndoDb, Undoing
<1>3. CASE UndoMetadata
  <2>1. PICK f : f = [here EXCEPT !.json = before.json, !.roster = before.roster]
    OBVIOUS
  <2>2. /\ f \in Files /\ f.backup = here.backup /\ f.key = here.key /\ f.db = here.db
        /\ f.json = before.json
    BY <1>1, <2>1 DEF Files
  <2>3. f.roster = before.roster
    BY <1>1, <2>1 DEF Files
  <2>4. Here(f) /\ pc = "undo_metadata" /\ pc' = "undo_slots"
    BY <1>3, <2>1 DEF UndoMetadata, Goto
  <2>5. QED
    BY <1>3, <2>2, <2>3, <2>4, UndoStep DEF UndoMetadata, Undoing
<1>4. CASE UndoSlots
  <2>1. PICK f : f = [here EXCEPT !.slot = before.slot, !.device = before.device]
    OBVIOUS
  <2>2. /\ f \in Files /\ f.backup = here.backup /\ f.key = here.key /\ f.db = here.db
        /\ f.json = here.json /\ f.slot = before.slot /\ f.device = before.device
    BY <1>1, <2>1 DEF Files
  <2>3. f.roster = here.roster
    BY <1>1, <2>1 DEF Files
  <2>4. Here(f) /\ pc = "undo_slots" /\ pc' = "undo_key"
    BY <1>4, <2>1 DEF UndoSlots, Goto
  <2>5. QED
    BY <1>4, <2>2, <2>3, <2>4, UndoStep DEF UndoSlots, Undoing
<1>5. CASE UndoKey
  <2>1. PICK f : f = [here EXCEPT !.key = IF draft.key = "inside" THEN here.key ELSE Nothing]
    OBVIOUS
  <2>2. /\ f \in Files /\ f.backup = here.backup /\ f.db = here.db
        /\ f.json = here.json /\ f.slot = here.slot /\ f.device = here.device
        /\ f.key = IF draft.key = "inside" THEN here.key ELSE Nothing
    BY <1>1, <2>1 DEF Files, Key
  <2>3. f.roster = here.roster
    BY <1>1, <2>1 DEF Files
  <2>4. Here(f) /\ pc = "undo_key" /\ pc' = "undo_home"
    BY <1>5, <2>1 DEF UndoKey, Goto
  <2>5. QED
    BY <1>5, <2>2, <2>3, <2>4, UndoStep DEF UndoKey, Undoing
<1>6. QED
  BY <1>2, <1>3, <1>4, <1>5

LEMMA UndoHomeInv == ASSUME Inv, UndoHome, UNCHANGED wizardVars PROVE Inv'
BY RaiseInv DEF UndoHome, Goto, unmoved, wizardVars, Inv, Types, ProvisionTypeOK

LEMMA RefuseInv == ASSUME Inv, Refuse, UNCHANGED wizardVars PROVE Inv'
BY RaiseInv DEF Refuse, Goto, unmoved, wizardVars, Inv, Types, ProvisionTypeOK

LEMMA FailUndoInv == ASSUME Inv, FailUndo, UNCHANGED wizardVars PROVE Inv'
<1>1. /\ pc \in Undoing /\ pc # "none" /\ pc' = "raised" /\ pc \in Changing
      /\ UNCHANGED <<userKey, given, draft, attempt, before, home, wizardVars>>
  BY DEF FailUndo, Goto, unmoved, Undoing, Changing
<1>2. home' \in SUBSET Attempt /\ faults' \in 0 .. MaxFaults
  BY <1>1, FaultType DEF FailUndo, Inv, Types, ProvisionTypeOK
<1>3. CASE pc = "undo_db"
  <2>1. PICK d \in {here.db, Torn} : Here([here EXCEPT !.db = d])
    BY <1>3 DEF FailUndo
  <2>2. PICK f : f = [here EXCEPT !.db = d]
    OBVIOUS
  <2>3. f \in Files /\ f.backup = here.backup /\ f.key = here.key
    BY <2>2, FilesFacts DEF Inv, Files
  <2>4. Here(f)
    BY <2>1, <2>2
  <2>5. Types' /\ password' \in BOOLEAN
    BY <1>1, <1>2, <2>3, <2>4, HereTypes
  <2>6. GivenKept' /\ OthersWhole'
    BY <1>1, <2>3, <2>4, GivenStays DEF Inv, Adoption
  <2>7. QED
    BY <1>1, <2>5, <2>6, Ended, Waiting DEF Inv, wizardVars
<1>4. CASE pc # "undo_db"
  BY <1>1, <1>2, <1>4, RaiseInv DEF FailUndo, wizardVars, Inv
<1>5. QED
  BY <1>3, <1>4

LEMMA FailCreateInv == ASSUME Inv, FailCreate, UNCHANGED wizardVars PROVE Inv'
<1> USE DEF FailCreate, unmoved, wizardVars
<1>1. pc # "none" /\ faults' \in 0 .. MaxFaults /\ pc' = "raised"
  BY FaultType DEF Writing, Goto
<1>2. PICK f \in {Empty, usb[attempt]} : usb' = [usb EXCEPT ![attempt] = f]
  BY DEF Put, Target
<1>3. f \in Files /\ (f.db = Nothing \/ f.json = attempt)
  <2>1. Empty \in Files /\ Empty.db = Nothing
    BY DEF Empty, Files, Key
  <2>2. /\ usb[attempt] \in Files
        /\ usb[attempt].db = Nothing \/ usb[attempt].json = attempt
    BY <1>1, InContainer, Apart DEF Inv, Types, ProvisionTypeOK, OthersWhole
  <2>3. QED
    BY <2>1, <2>2
<1>4. usb' \in [Directory -> Files] /\ GivenKept' /\ OthersWhole'
  BY <1>1, <1>2, <1>3, HiddenFacts
<1>5. Types' /\ password' \in BOOLEAN
  BY <1>1, <1>4 DEF Inv, Types, ProvisionTypeOK
<1>6. QED
  BY <1>1, <1>4, <1>5, Ended, Waiting DEF Inv

LEMMA FailBackupInv == ASSUME Inv, FailBackup, UNCHANGED wizardVars PROVE Inv'
<1>1. faults' \in 0 .. MaxFaults
  BY FaultType DEF FailBackup
<1>2. PICK b \in {Nothing, Torn} : Here([here EXCEPT !.backup = b])
  BY DEF FailBackup
<1>3. QED
  BY <1>1, <1>2, CopyInv DEF FailBackup, Goto, unmoved

LEMMA FailOutsideInv == ASSUME Inv, FailOutside, UNCHANGED wizardVars PROVE Inv'
<1>1. faults' \in 0 .. MaxFaults
  BY FaultType DEF FailOutside
<1>2. QED
  BY <1>1, RaiseInv
     DEF FailOutside, Goto, unmoved, wizardVars, Inv, Types, ProvisionTypeOK

-----------------------------------------------------------------------------
(* The worker after Provisioning, and what the window makes of its result. *)

LEMMA UnlockInv == ASSUME Inv, Unlock PROVE Inv'
<1>1. pc' = "reopen" /\ here' = here /\ pc = "provisioned"
  BY DEF Unlock, Goto, here, unmoved
<1>2. Types' /\ password' \in BOOLEAN
  BY <1>1 DEF Unlock, unmoved, Inv, Types, ProvisionTypeOK
<1>3. GivenKept' /\ OthersWhole'
  BY SameContainers DEF Unlock, unmoved, Inv
<1>4. Adoption' /\ Creation' /\ Reached'
  BY <1>1 DEF Unlock, unmoved, Inv, Adoption, Creation, Reached, Committed, Changing,
              Undoing, Writing
<1>5. QED
  BY <1>1, <1>2, <1>3, <1>4, Waiting DEF Inv, Unlock, unmoved

LEMMA ReopenInv == ASSUME Inv, Reopen PROVE Inv'
<1> USE DEF Reopen, unmoved, wizardVars
<1>1. pc' = "register" /\ here' = here /\ pc = "reopen" /\ Opens(draft.at)'
  BY DEF Goto, here, Opens
<1>2. Types' /\ password' \in BOOLEAN
  BY <1>1 DEF Inv, Types, ProvisionTypeOK
<1>3. GivenKept' /\ OthersWhole'
  BY SameContainers DEF Inv
<1>4. Adoption' /\ Creation' /\ Reached'
  BY <1>1 DEF Inv, Adoption, Creation, Reached, Committed, Changing, Undoing, Writing
<1>5. QED
  BY <1>1, <1>2, <1>3, <1>4, Waiting DEF Inv

LEMMA RegisterInv == ASSUME Inv, Register PROVE Inv'
<1> USE DEF Register, unmoved
<1>1. /\ pc' = "done" /\ here' = here /\ pc = "register"
      /\ attempt \in VaultId /\ attempt \in vaults'
      /\ Opens(draft.at)'
  BY FilesFacts DEF Goto, here, Inv, Reached, Opens
<1>2. Types' /\ password' \in BOOLEAN
  BY <1>1 DEF Inv, Types, ProvisionTypeOK
<1>3. GivenKept' /\ OthersWhole'
  BY SameContainers DEF Inv
<1>4. Adoption' /\ Creation' /\ Reached'
  BY <1>1 DEF Inv, Adoption, Creation, Reached, Committed, Changing, Undoing, Writing
<1>5. QED
  BY <1>1, <1>2, <1>3, <1>4, Waiting DEF Inv

LEMMA FailTailInv == ASSUME Inv, FailTail PROVE Inv'
<1>1. faults' \in 0 .. MaxFaults
  BY FaultType DEF FailTail
<1>2. pc # "none"
  BY DEF FailTail
<1>3. QED
  BY <1>1, <1>2, RaiseInv DEF FailTail, Goto, unmoved, wizardVars, Inv, Types, ProvisionTypeOK

-----------------------------------------------------------------------------
(* The wizard's pages.                                                     *)

\* Without a worker only the containers have something to keep.
LEMMA AtRest ==
  ASSUME pc' = "none"
  PROVE  Adoption' /\ Creation' /\ Reached'
BY DEF Adoption, Creation, Reached, Committed, Changing, Undoing, Writing

LEMMA UsableKept ==
  ASSUME Usable, UNCHANGED <<usb, attempt>>, vaults \subseteq vaults',
         flow' \in FinalState => flow \in FinalState
  PROVE  Usable'
BY DEF Usable, Opens

\* A handler that ran on another page than the progress page of the commit.
LEMMA WizardInv ==
  ASSUME Inv, pc = "none",
         UNCHANGED <<usb, userKey, given, home, attempt, pc, faults, before>>,
         draft' \in [adopt : BOOLEAN, at : Directory, enroll : BOOLEAN,
                     right : BOOLEAN, key : KeyPlace],
         pages' \in Seq(Page), flow' \in FlowState, password' \in BOOLEAN,
         vaults \subseteq vaults', vaults' \in SUBSET VaultId,
         result' \in VaultId \cup {Nothing},
         settings' \in SUBSET {"hotkey", "removal"},
         flow' \in FinalState => flow \in FinalState,
         Stack', Screens'
  PROVE  Inv'
<1>1. Types'
  BY DEF Inv, Types, ProvisionTypeOK
<1>2. GivenKept' /\ OthersWhole'
  BY SameContainers DEF Inv
<1>3. Adoption' /\ Creation' /\ Reached' /\ Usable'
  BY AtRest, UsableKept DEF Inv
<1>4. QED
  BY <1>1, <1>2, <1>3 DEF Inv

DraftType == [adopt : BOOLEAN, at : Directory, enroll : BOOLEAN,
              right : BOOLEAN, key : KeyPlace]

\* Only one page is the last.
LEMMA OnOne ==
  ASSUME NEW page, On(page)
  PROVE  \A q : On(q) => q = page
BY DEF On

\* advance_to and the next page, or an InvalidTransitionError.
LEMMA AdvanceInv ==
  ASSUME Inv, NEW top \in {"usb", "choice", "password"},
         NEW page \in {"preparing", "password", "localkey"},
         NEW state \in {"usb_selection", "password_creation", "local_key_optional"},
         On(top), Rank(top) < Rank(page), Advance(state, page),
         page = "preparing" => state = "usb_selection",
         top = "usb" => state = "usb_selection", draft'.at \in {draft.at, Ash},
         UNCHANGED <<usb, userKey, given, home, attempt, pc, faults, before,
                     vaults, result, settings>>,
         draft' \in DraftType, password' \in BOOLEAN
  PROVE  Inv'
<1>1. pc = "none" /\ pages # <<>>
  BY OnOne DEF Inv, Screens, On
<1>2. CASE <<flow, state>> \in Transition
  <2>1. flow' = state /\ Push(page) /\ state \in FlowState \ FinalState /\ flow \notin FinalState
    BY <1>2 DEF Advance, Transition, FinalState, FlowState
  <2>2. top \in Page /\ page \in Page /\ page \notin Final
    BY DEF Page, Final
  <2>3. pages' \in Seq(Page) /\ pages' # <<>> /\ Last(pages') = page /\ Stack'
    BY <2>1, <2>2, Pushed DEF Inv
  <2>4. draft'.at \in Container
    BY <1>1, <1>2, OnOne, AshAssumption DEF Inv, Screens, Elsewhere, Transition
  <2>5. Screens'
    BY <1>1, <2>1, <2>3, <2>4 DEF Screens, On, Elsewhere
  <2>6. QED
    BY <1>1, <2>1, <2>3, <2>5, WizardInv DEF Inv, Types, DraftType
<1>3. CASE <<flow, state>> \notin Transition
  <2>1. UNCHANGED <<pages, flow>>
    BY <1>3 DEF Advance
  <2>2. Stack'
    BY <2>1 DEF Inv, Stack
  <2>3. Screens'
    <3>1. Elsewhere'
      BY <2>1, AshAssumption DEF Inv, Screens, Elsewhere, On
    <3>2. QED
      BY <1>1, <2>1, <3>1, OnOne DEF Inv, Screens, On
  <2>4. QED
    BY <1>1, <2>1, <2>2, <2>3, WizardInv DEF Inv, Types, DraftType
<1>4. QED
  BY <1>2, <1>3

LEMMA ContinueInv == ASSUME Inv, Continue PROVE Inv'
<1>1. Rank("usb") < Rank("preparing")
  BY DEF Rank
<1>2. draft' \in DraftType /\ draft'.at \in {draft.at, Ash} /\ password' \in BOOLEAN
  BY DEF Continue, provisionVars, DraftType, Inv, Types, ProvisionTypeOK
<1>3. QED
  BY <1>1, <1>2, AdvanceInv DEF Continue, provisionVars

LEMMA AdoptInv ==
  ASSUME Inv, NEW right \in BOOLEAN, NEW key \in KeyPlace, Adopt(right, key)
  PROVE  Inv'
<1>1. Rank("choice") < Rank("password")
  BY DEF Rank
<1>2. draft' \in DraftType /\ draft'.at \in {draft.at, Ash}
  BY DEF Adopt, DraftType, Inv, Types, ProvisionTypeOK
<1>3. password' \in BOOLEAN
  BY DEF Adopt, Inv
<1>4. QED
  BY <1>1, <1>2, <1>3, AdvanceInv DEF Adopt, files

LEMMA CreateInsteadInv == ASSUME Inv, CreateInstead PROVE Inv'
<1>1. Rank("choice") < Rank("password")
  BY DEF Rank
<1>2. draft' \in DraftType /\ draft'.at \in {draft.at, Ash}
  BY AshAssumption, Apart DEF CreateInstead, DraftType, Inv, Types, ProvisionTypeOK
<1>3. password' \in BOOLEAN
  BY DEF CreateInstead, Inv
<1>4. QED
  BY <1>1, <1>2, <1>3, AdvanceInv DEF CreateInstead, files

LEMMA PasswordContinueInv == ASSUME Inv, PasswordContinue PROVE Inv'
<1>1. Rank("password") < Rank("localkey")
  BY DEF Rank
<1>2. draft' \in DraftType /\ draft'.at \in {draft.at, Ash} /\ password' \in BOOLEAN
  BY DEF PasswordContinue, provisionVars, DraftType, Inv, Types, ProvisionTypeOK
<1>3. QED
  BY <1>1, <1>2, AdvanceInv DEF PasswordContinue, provisionVars

LEMMA PreparedInv == ASSUME Inv, Prepared PROVE Inv'
<1>1. On("preparing") /\ pc = "none" /\ flow = "usb_selection"
  BY OnOne DEF Inv, Screens, On, Prepared
<1>2. PICK c \in Directory :
        /\ Discovered(c)
        /\ draft' = [draft EXCEPT !.at = c,
                                  !.adopt = IF Kind(c) = "empty" THEN FALSE ELSE @]
        /\ \/ /\ Kind(c) = "ash"
              /\ Replace("found") /\ UNCHANGED flow
           \/ /\ Kind(c) = "foreign"
              /\ Replace("choice") /\ flow' = "adopt_or_create"
           \/ /\ Kind(c) = "empty"
              /\ Replace("password") /\ flow' = "password_creation"
  BY DEF Prepared
<1>3. draft' \in DraftType /\ draft'.at = c
  BY <1>2 DEF DraftType, Inv, Types, ProvisionTypeOK
<1>4. UNCHANGED <<usb, userKey, given, home, attempt, pc, faults, before,
                  password, vaults, result, settings>>
  BY DEF Prepared, files
<1>5. PICK page \in {"found", "choice", "password"} :
        Replace(page) /\ (page = "found" => Kind(c) = "ash")
  BY <1>2
<1>6. flow' \in FlowState \ FinalState
  BY <1>1, <1>2 DEF FlowState, FinalState
<1>7. pages' \in Seq(Page) /\ pages' # <<>> /\ Last(pages') = page /\ Stack'
  <2>1. Rank("preparing") <= Rank(page) /\ page \in Page /\ "preparing" \in Page
        /\ page \notin Final /\ flow \notin FinalState
    BY <1>1 DEF Rank, Page, Final, FinalState
  <2>2. QED
    BY <1>1, <1>5, <2>1, Replaced DEF Inv
<1>8. Kind(c) = "ash" => here'.json \in VaultId
  <2>1. usb[c].json \in VaultId \cup {Nothing}
    BY DEF Inv, Types, ProvisionTypeOK, Files
  <2>2. Kind(c) = "ash" => usb[c].json # Nothing
    BY DEF Kind
  <2>3. here'.json = usb[c].json
    BY <1>3, <1>4 DEF here
  <2>4. QED
    BY <2>1, <2>2, <2>3
<1>9. Screens'
  <2>1. c \notin Container => c \in Attempt /\ c # Ash
    BY AshAssumption DEF Directory
  <2>2. c \notin Container => Kind(c) = "ash"
    BY <1>2, <2>1, Apart DEF Inv, OthersWhole, Kind, Discovered
  <2>3. Kind(c) = "ash" => Replace("found") /\ flow' = flow
    BY <1>2
  <2>4. Kind(c) = "ash" => Last(pages') = "found"
    BY <2>3, <1>1, <1>7, Replaced DEF Inv, Rank, Page, Final
  <2>5. Elsewhere'
    BY <1>1, <1>3, <1>4, <1>7, <2>2, <2>3, <2>4 DEF Elsewhere, On
  <2>6. QED
    BY <1>1, <1>4, <1>5, <1>6, <1>7, <1>8, <2>5 DEF Screens, On
<1>10. QED
  BY <1>1, <1>3, <1>4, <1>6, <1>7, <1>9, WizardInv DEF DraftType, Inv, Types

\* Leaving the last page for the one below.
LEMMA PopInv ==
  ASSUME Inv, pages # <<>>, ~On("commit"), pages' = Front(pages),
         UNCHANGED <<provisionVars, flow, password, vaults, result>>,
         settings' \in SUBSET {"hotkey", "removal"}
  PROVE  Inv'
<1>1. pc = "none"
  BY DEF Inv, Screens
<1>2. /\ pages' \in Seq(Page) /\ Stack'
      /\ pages' # <<>> => Last(pages') \in {"usb", "choice", "password", "localkey",
                                            "hotkey", "explain"}
      /\ pages' # <<>> /\ (On("found") \/ On("usb")) => Last(pages') = "usb"
  BY Popped DEF Inv
<1>3. Screens'
  <2>1. Elsewhere'
    BY <1>1, <1>2 DEF Inv, Screens, Elsewhere, On, provisionVars
  <2>2. QED
    BY <1>1, <1>2, <2>1 DEF Inv, Screens, On, provisionVars
<1>4. QED
  BY <1>1, <1>2, <1>3, WizardInv DEF provisionVars, Inv, Types, ProvisionTypeOK

LEMMA PrepareFailsInv == ASSUME Inv, PrepareFails PROVE Inv'
<1>1. pages # <<>> /\ ~On("commit")
  BY OnOne DEF PrepareFails, On
<1>2. QED
  BY <1>1, PopInv DEF PrepareFails, Inv, Types

LEMMA BackInv == ASSUME Inv, Back PROVE Inv'
<1>1. pages # <<>> /\ ~On("commit")
  BY EmptySeq DEF Back, On
<1>2. QED
  BY <1>1, PopInv DEF Back, Inv, Types

LEMMA ChooseInv == ASSUME Inv, NEW enroll \in BOOLEAN, Choose(enroll) PROVE Inv'
<1>1. On("localkey") /\ pc = "none" /\ pages # <<>>
  BY OnOne DEF Inv, Screens, On, Choose
<1>2. draft' \in DraftType /\ draft'.at = draft.at
  BY DEF Choose, DraftType, Inv, Types, ProvisionTypeOK
<1>3. UNCHANGED <<usb, userKey, given, home, faults, password, vaults, result, settings>>
  BY DEF Choose
<1>4. CASE flow = "local_key_optional"
  <2>1. /\ attempt < MaxAttempt /\ attempt' = attempt + 1 /\ before' = usb[draft'.at]
        /\ pc' = "check" /\ flow' = "device_registration"
        /\ Push("commit")
    BY <1>4 DEF Choose, Begin, Goto
  <2>2. pages' \in Seq(Page) /\ pages' # <<>> /\ Last(pages') = "commit" /\ Stack'
    <3>1. Rank("localkey") < Rank("commit") /\ "commit" \in Page /\ "localkey" \in Page
          /\ "commit" \notin Final /\ flow \notin FinalState
      BY <1>4 DEF Rank, Page, Final, FinalState
    <3>2. QED
      BY <1>1, <2>1, <3>1, Pushed DEF Inv
  <2>3. here' = before' /\ before' \in Files
    BY <1>2, <1>3, <2>1, FilesFacts DEF here, Inv
  <2>4. Types'
    <3>1. attempt' \in Attempt /\ attempt' \in VaultId
      BY <2>1, ConstantsAssumption DEF Inv, Types, ProvisionTypeOK, Attempt, VaultId
    <3>2. pc' \in Running /\ flow' \in FlowState
      BY <2>1 DEF Running, FlowState
    <3>3. QED
      BY <1>2, <1>3, <2>1, <2>2, <2>3, <3>1, <3>2
         DEF Inv, Types, ProvisionTypeOK, DraftType
  <2>5. Screens'
    <3>1. draft'.at \in Container
      BY <1>1, <1>2, OnOne DEF Inv, Screens, Elsewhere
    <3>2. QED
      BY <2>1, <2>2, <3>1 DEF Screens, On, FinalState, Elsewhere
  <2>6. GivenKept' /\ OthersWhole'
    BY <1>3, SameContainers DEF Inv
  <2>7. Adoption' /\ Creation' /\ Reached' /\ Usable'
    BY <2>1, <2>3
       DEF Adoption, Creation, Reached, Committed, Changing, Undoing, Writing, Usable,
           FinalState
  <2>8. password' \in BOOLEAN
    BY <1>3 DEF Inv
  <2>9. QED
    BY <2>2, <2>4, <2>5, <2>6, <2>7, <2>8 DEF Inv
<1>5. CASE flow # "local_key_optional"
  <2>1. UNCHANGED <<attempt, pc, before, flow, pages>>
    BY <1>5 DEF Choose
  <2>2. Stack'
    BY <2>1 DEF Inv, Stack
  <2>3. Screens'
    BY <1>1, <1>2, <2>1, OnOne DEF Inv, Screens, On, Elsewhere
  <2>4. QED
    BY <1>1, <1>2, <1>3, <2>1, <2>2, <2>3, WizardInv DEF Inv, Types, DraftType
<1>6. QED
  BY <1>4, <1>5

LEMMA CommitDoneInv == ASSUME Inv, CommitDone PROVE Inv'
<1> USE DEF CommitDone, unmoved
<1>1. /\ On("commit") /\ pc' = "none" /\ flow' = "hotkey_setup" /\ Replace("hotkey")
      /\ result' = attempt
      /\ UNCHANGED <<usb, userKey, given, home, faults, draft, attempt, before,
                     password, vaults, settings>>
  BY DEF Goto
<1>2. pages' \in Seq(Page) /\ pages' # <<>> /\ Last(pages') = "hotkey" /\ Stack'
  <2>1. Rank("commit") <= Rank("hotkey") /\ "commit" \in Page /\ "hotkey" \in Page
        /\ flow' \in FinalState
    BY <1>1 DEF Rank, Page, FinalState
  <2>2. QED
    BY <1>1, <2>1, Replaced DEF Inv
<1>3. Screens'
  BY <1>1, <1>2, InContainer DEF Screens, On, Elsewhere
<1>4. Types' /\ password' \in BOOLEAN
  <2>1. flow' \in FlowState /\ result' \in VaultId
    BY <1>1, FilesFacts DEF FlowState, Inv
  <2>2. QED
    BY <1>1, <1>2, <2>1 DEF Inv, Types, ProvisionTypeOK
<1>5. GivenKept' /\ OthersWhole' /\ Adoption' /\ Creation' /\ Reached'
  BY <1>1, SameContainers, AtRest DEF Inv
<1>6. Usable'
  <2>1. draft.at \in Container /\ usb[draft.at].json = attempt /\ Opens(draft.at)
        /\ attempt \in vaults
    BY InContainer DEF Inv, Reached, Committed, here
  <2>2. QED
    BY <1>1, <2>1 DEF Usable, Opens
<1>7. QED
  BY <1>2, <1>3, <1>4, <1>5, <1>6 DEF Inv

LEMMA CommitFailedInv == ASSUME Inv, CommitFailed PROVE Inv'
<1> USE DEF CommitFailed, unmoved
<1>1. /\ On("commit") /\ pc' = "none" /\ flow' = "local_key_optional" /\ Replace("error")
      /\ UNCHANGED <<usb, userKey, given, home, faults, draft, attempt, before,
                     password, vaults, result, settings>>
  BY DEF Goto
<1>2. pages' \in Seq(Page) /\ pages' # <<>> /\ Last(pages') = "error" /\ Stack'
  <2>1. Rank("commit") <= Rank("error") /\ "commit" \in Page /\ "error" \in Page
        /\ "error" \notin Final /\ flow \notin FinalState
    BY <1>1 DEF Rank, Page, Final, FinalState, Inv, Screens
  <2>2. QED
    BY <1>1, <2>1, Replaced DEF Inv
<1>3. flow' \in FlowState \ FinalState
  BY <1>1 DEF FlowState, FinalState
<1>4. Screens'
  BY <1>1, <1>2, <1>3, InContainer DEF Screens, On, Elsewhere
<1>5. Types' /\ password' \in BOOLEAN
  BY <1>1, <1>2, <1>3 DEF Inv, Types, ProvisionTypeOK
<1>6. GivenKept' /\ OthersWhole' /\ Adoption' /\ Creation' /\ Reached' /\ Usable'
  BY <1>1, <1>3, SameContainers, AtRest DEF Inv, Usable
<1>7. QED
  BY <1>2, <1>4, <1>5, <1>6 DEF Inv

\* A page of the settings, on top of another one.
LEMMA SettingsPush ==
  ASSUME Inv, NEW top \in {"hotkey", "explain"}, NEW page \in {"binding", "removal"},
         Rank(top) < Rank(page), On(top), Push(page),
         UNCHANGED <<provisionVars, flow, password, vaults, result, settings>>
  PROVE  Inv'
<1>1. pc = "none"
  BY OnOne DEF Inv, Screens, On
<1>2. flow \in FinalState
  <2>1. Len(pages) \in 1 .. Len(pages) /\ pages[Len(pages)] \in Final
    BY PagesFacts DEF On, Last, Final, Inv, Types
  <2>2. QED
    BY <2>1 DEF Inv, Stack
<1>3. pages' \in Seq(Page) /\ pages' # <<>> /\ Last(pages') = page /\ Stack'
  <2>1. top \in Page /\ page \in Page
    BY DEF Page
  <2>2. QED
    BY <1>2, <2>1, Pushed DEF Inv
<1>4. Screens'
  BY <1>1, <1>3, OnOne DEF Inv, Screens, On, provisionVars, Elsewhere
<1>5. QED
  BY <1>1, <1>3, <1>4, WizardInv DEF provisionVars, Inv, Types, ProvisionTypeOK

LEMMA HotkeyContinueInv == ASSUME Inv, HotkeyContinue PROVE Inv'
<1>1. Rank("hotkey") < Rank("binding")
  BY DEF Rank
<1>2. QED
  BY <1>1, SettingsPush DEF HotkeyContinue

LEMMA ExplainContinueInv == ASSUME Inv, ExplainContinue PROVE Inv'
<1>1. Rank("explain") < Rank("removal")
  BY DEF Rank
<1>2. QED
  BY <1>1, SettingsPush DEF ExplainContinue

LEMMA HotkeyAppliedInv == ASSUME Inv, HotkeyApplied PROVE Inv'
<1>1. /\ On("binding") /\ pages # <<>> /\ pc = "none"
      /\ UNCHANGED <<provisionVars, password, vaults, result>>
  BY OnOne DEF Inv, Screens, On, HotkeyApplied
<1>2. settings' \in SUBSET {"hotkey", "removal"}
  BY DEF HotkeyApplied, Inv, Types
<1>3. CASE flow = "hotkey_setup"
  <2>1. flow' = "usb_removal_configuration" /\ Replace("explain")
    BY <1>3 DEF HotkeyApplied
  <2>2. pages' \in Seq(Page) /\ pages' # <<>> /\ Last(pages') = "explain" /\ Stack'
    <3>1. Rank("binding") <= Rank("explain") /\ "binding" \in Page /\ "explain" \in Page
          /\ flow' \in FinalState
      BY <2>1 DEF Rank, Page, FinalState
    <3>2. QED
      BY <1>1, <2>1, <3>1, Replaced DEF Inv
  <2>3. Screens'
    BY <1>1, <2>2, OnOne DEF Inv, Screens, On, provisionVars, Elsewhere
  <2>4. flow \in FinalState /\ flow' \in FlowState
    BY <1>3, <2>1 DEF FinalState, FlowState
  <2>5. QED
    BY <1>1, <1>2, <2>2, <2>3, <2>4, WizardInv
       DEF provisionVars, Inv, Types, ProvisionTypeOK
<1>4. CASE flow # "hotkey_setup"
  <2>1. UNCHANGED flow /\ pages' = Front(pages) /\ ~On("commit")
    BY <1>1, <1>4, OnOne DEF HotkeyApplied
  <2>2. QED
    BY <1>1, <1>2, <2>1, PopInv
<1>5. QED
  BY <1>3, <1>4

LEMMA Closed ==
  ASSUME pages' = <<>>, flow' \in FinalState => pc' = "none",
         draft'.at \in Container \/ (pc' = "none" /\ flow' = "usb_selection")
  PROVE  pages' \in Seq(Page) /\ Stack' /\ Screens'
BY DEF Stack, Screens, On, Elsewhere

LEMMA RegisterFoundInv == ASSUME Inv, RegisterFound PROVE Inv'
<1> USE DEF RegisterFound, provisionVars
<1>1. pc = "none" /\ here.json \in VaultId
  BY OnOne DEF Inv, Screens, On
<1>2. pages' \in Seq(Page) /\ Stack' /\ Screens'
  BY <1>1, Closed DEF Inv, Screens, Elsewhere
<1>3. vaults' \in SUBSET VaultId /\ vaults \subseteq vaults'
  BY <1>1 DEF Inv, Types
<1>4. QED
  BY <1>1, <1>2, <1>3, WizardInv DEF Inv, Types, ProvisionTypeOK

LEMMA FinishInv == ASSUME Inv, Finish PROVE Inv'
<1> USE DEF Finish, provisionVars
<1>1. pc = "none"
  BY OnOne DEF Inv, Screens, On
<1>2. flow \in FinalState
  <2>1. Len(pages) \in 1 .. Len(pages) /\ pages[Len(pages)] \in Final
    BY PagesFacts DEF On, Last, Final, Inv, Types
  <2>2. QED
    BY <2>1 DEF Inv, Stack
<1>3. pages' \in Seq(Page) /\ Stack' /\ Screens'
  BY <1>1, OnOne, Closed DEF Inv, Screens, Elsewhere, On
<1>4. flow' \in FlowState /\ settings' \in SUBSET {"hotkey", "removal"}
  BY DEF FlowState, Inv, Types
<1>5. QED
  BY <1>1, <1>2, <1>3, <1>4, WizardInv DEF Inv, Types, ProvisionTypeOK

\* The window is gone, but the worker may go on.
LEMMA CloseInv == ASSUME Inv, Close PROVE Inv'
<1> USE DEF Close, provisionVars
<1>1. pages' \in Seq(Page) /\ Stack' /\ Screens'
  BY Closed DEF Inv, Screens, Elsewhere
<1>2. Types' /\ password' \in BOOLEAN
  BY <1>1 DEF Inv, Types, ProvisionTypeOK
<1>3. GivenKept' /\ OthersWhole' /\ Usable'
  BY SameContainers, UsableKept DEF Inv
<1>4. Adoption' /\ Creation' /\ Reached'
  BY DEF Inv, Adoption, Creation, Reached, here, UserDb, Opens
<1>5. QED
  BY <1>1, <1>2, <1>3, <1>4 DEF Inv

LEMMA QuitInv == ASSUME Inv, Quit PROVE Inv'
<1> USE DEF Quit, Stop, Goto, unmoved
<1>1. pages' \in Seq(Page) /\ Stack' /\ Screens'
  BY Closed DEF Inv, Screens, Elsewhere
<1>2. Types' /\ password' \in BOOLEAN
  BY <1>1 DEF Inv, Types, ProvisionTypeOK
<1>3. GivenKept' /\ OthersWhole' /\ Usable'
  BY SameContainers, UsableKept DEF Inv
<1>4. QED
  BY <1>1, <1>2, <1>3, AtRest DEF Inv

LEMMA SignInInv == ASSUME Inv, SignIn PROVE Inv'
<1> USE DEF SignIn, files
<1>1. pc = "none" /\ pages' = <<"usb">> /\ flow' = "first_run"
  OBVIOUS
<1>2. draft' \in DraftType
  BY AshAssumption, Apart DEF DraftType, Inv, Types, ProvisionTypeOK
<1>3. /\ pages' \in Seq(Page) /\ Len(pages') = 1 /\ pages'[1] = "usb"
      /\ pages' # <<>> /\ Last(pages') = "usb"
  BY <1>1 DEF Page, Last
<1>4. Stack'
  <2> SUFFICES ASSUME NEW i \in 1 .. Len(pages')
               PROVE  /\ i <= Rank(pages'[i])
                      /\ i = 1 => pages'[i] = "usb"
                      /\ i < Len(pages') =>
                           pages'[i] \in {"usb", "choice", "password", "localkey",
                                          "hotkey", "explain"}
                      /\ pages'[i] \in Final => flow' \in FinalState
    BY DEF Stack
  <2>1. i = 1
    BY <1>3
  <2>2. QED
    BY <1>3, <2>1 DEF Rank, Final
<1>5. flow' \in FlowState \ FinalState
  BY <1>1 DEF FlowState, FinalState
<1>6. Screens'
  <2>1. draft'.at \in Container
    BY AshAssumption DEF Inv, Types, ProvisionTypeOK
  <2>2. QED
    BY <1>1, <1>3, <1>5, <2>1 DEF Screens, On, Elsewhere
<1>7. QED
  BY <1>1, <1>2, <1>3, <1>4, <1>5, <1>6, WizardInv DEF DraftType, Inv, Types

-----------------------------------------------------------------------------
(* The invariant holds, and what follows from it.                          *)

LEMMA InitInv == Init => Inv
<1> SUFFICES ASSUME Init PROVE Inv
  OBVIOUS
<1> USE DEF Init, ProvisionInit
<1>1. Empty \in Files /\ 0 \in VaultId
  BY ConstantsAssumption DEF Empty, Files, Key, VaultId
<1>2. UserDb \in Database
  BY DEF UserDb, Database, Key
<1>3. Foreign \in Files /\ Foreign.db = UserDb
      /\ Foreign.key = (IF userKey = "inside" THEN User ELSE Nothing)
  <2>1. PICK k \in Key : k = IF userKey = "inside" THEN User ELSE Nothing
    BY DEF Key
  <2>2. Foreign = [Empty EXCEPT !.db = UserDb, !.key = k]
    BY <2>1 DEF Foreign
  <2>3. QED
    BY <1>1, <1>2, <2>1, <2>2 DEF Files
<1>4. Whole(0) \in Files
  <2>1. PICK d : d = [secret |-> 0, key |-> 0, entries |-> TRUE]
    OBVIOUS
  <2>2. d \in Database
    BY <1>1, <2>1 DEF Database, Key
  <2>3. Whole(0) = [Empty EXCEPT !.db = d, !.key = 0, !.json = 0, !.slot = 0,
                                 !.roster = TRUE]
    BY <2>1 DEF Whole
  <2>4. QED
    BY <1>1, <2>2, <2>3 DEF Files, Key
<1>5. PICK f \in {Foreign, Whole(0)} :
        usb = [c \in Directory |-> IF c = given THEN f ELSE Empty]
  OBVIOUS
<1>6. Types
  <2>1. usb \in [Directory -> Files]
    BY <1>1, <1>3, <1>4, <1>5
  <2>2. pages \in Seq(Page)
    BY DEF Page
  <2>3. draft \in DraftType
    BY Apart DEF DraftType, KeyPlace
  <2>4. faults \in 0 .. MaxFaults
    BY ConstantsAssumption
  <2>5. QED
    BY <1>1, <2>1, <2>2, <2>3, <2>4 DEF Types, ProvisionTypeOK, DraftType, FlowState
<1>7. Stack
  <2>1. Len(pages) = 1 /\ pages[1] = "usb"
    OBVIOUS
  <2> SUFFICES ASSUME NEW i \in 1 .. Len(pages)
               PROVE  /\ i <= Rank(pages[i])
                      /\ i = 1 => pages[i] = "usb"
                      /\ i < Len(pages) =>
                           pages[i] \in {"usb", "choice", "password", "localkey",
                                         "hotkey", "explain"}
                      /\ pages[i] \in Final => flow \in FinalState
    BY DEF Stack
  <2>2. i = 1
    BY <2>1
  <2>3. QED
    BY <2>1, <2>2 DEF Rank, Final
<1>8. Screens
  BY DEF Screens, On, Last, FinalState, Elsewhere
<1>9. GivenKept
  <2>1. given # Nothing => usb[given] = f
    BY <1>5, Apart
  <2>2. QED
    BY <1>3, <2>1 DEF GivenKept
<1>10. OthersWhole
  BY <1>5, Apart DEF OthersWhole, Empty
<1>11. Adoption /\ Creation /\ Reached /\ Usable
  BY DEF Adoption, Creation, Reached, Committed, Changing, Undoing, Writing, Usable,
         FinalState
<1>12. QED
  BY <1>6, <1>7, <1>8, <1>9, <1>10, <1>11 DEF Inv

LEMMA WizardStep == ASSUME Inv, Wizard PROVE Inv'
BY ContinueInv, PreparedInv, PrepareFailsInv, RegisterFoundInv, AdoptInv,
   CreateInsteadInv, PasswordContinueInv, ChooseInv, HotkeyContinueInv,
   HotkeyAppliedInv, ExplainContinueInv, FinishInv, BackInv, CloseInv, QuitInv,
   SignInInv
   DEF Wizard

LEMMA CommitStep == ASSUME Inv, Commit PROVE Inv'
BY CheckInv, RefuseInv, BackupInv, OpenExistingInv, WrongCredentialsInv, WriteInv,
   ManifestInv, PublishInv, UndoInv, UndoHomeInv, UnlockInv, ReopenInv, RegisterInv,
   CommitDoneInv, CommitFailedInv
   DEF Commit, Provision

LEMMA FaultStep ==
  ASSUME Inv, (ProvisionFault /\ UNCHANGED wizardVars) \/ FailTail
  PROVE  Inv'
BY FailCreateInv, FailBackupInv, FailAdoptInv, FailOutsideInv, FailUndoInv, FailTailInv
   DEF ProvisionFault

LEMMA InvStep == Inv /\ [Next]_vars => Inv'
<1> SUFFICES ASSUME Inv, [Next]_vars PROVE Inv'
  OBVIOUS
<1>1. CASE UNCHANGED vars
  <2> USE <1>1 DEF vars, provisionVars, wizardVars
  <2>1. Types' /\ password' \in BOOLEAN
    BY DEF Inv, Types, ProvisionTypeOK
  <2>2. Stack' /\ Screens' /\ GivenKept' /\ OthersWhole' /\ Usable'
    BY SameContainers, UsableKept DEF Inv, Stack, Screens, On, here, Elsewhere
  <2>3. Adoption' /\ Creation' /\ Reached'
    BY DEF Inv, Adoption, Creation, Reached, here, UserDb, Opens
  <2>4. QED
    BY <2>1, <2>2, <2>3 DEF Inv
<1>2. CASE Next
  BY <1>2, WizardStep, CommitStep, FaultStep DEF Next
<1>3. QED
  BY <1>1, <1>2

LEMMA InvAlways == Spec => []Inv
<1>1. QED
  BY InitInv, InvStep, PTL DEF Spec

\* Every variable keeps its type, and the wizard is at most seven pages deep
\* whatever is clicked.
THEOREM TypeCorrect == Spec => []TypeOK
<1>1. Inv => TypeOK
  <2> SUFFICES ASSUME Inv PROVE TypeOK
    OBVIOUS
  <2>1. Len(pages) <= 7
    <3>1. CASE pages = <<>>
      BY <3>1
    <3>2. CASE pages # <<>>
      <4>1. Len(pages) \in 1 .. Len(pages) /\ pages[Len(pages)] \in Page
        BY <3>2, PagesFacts DEF Inv, Types
      <4>2. Len(pages) <= Rank(pages[Len(pages)]) /\ Len(pages) \in Nat
        BY <4>1, PagesFacts DEF Inv, Types, Stack
      <4>3. Rank(pages[Len(pages)]) \in 1 .. 7
        BY <4>1 DEF Rank, Page
      <4>4. QED
        BY <4>2, <4>3
    <3>3. QED
      BY <3>1, <3>2
  <2>2. QED
    BY <2>1 DEF Inv, Types, TypeOK
<1>2. QED
  BY <1>1, InvAlways, PTL

\* The passwords that were on the USB stay within reach whatever fails.
THEOREM EntriesAreKept == Spec => []EntriesSurvive
<1>1. Inv => EntriesSurvive
  <2> SUFFICES ASSUME Inv, given # Nothing
               PROVE  Reachable(given, usb[given].db) \/ Reachable(given, usb[given].backup)
    BY DEF EntriesSurvive
  <2>1. CASE usb[given] = Whole(0)
    <3>1. PICK d : d = [secret |-> 0, key |-> 0, entries |-> TRUE]
      OBVIOUS
    <3>2. Whole(0) = [Empty EXCEPT !.db = d, !.key = 0, !.json = 0, !.slot = 0,
                                   !.roster = TRUE]
      BY <3>1 DEF Whole
    <3>3. Whole(0).db = d /\ Whole(0).slot = 0 /\ Whole(0).key = 0
      BY <3>2 DEF Empty
    <3>4. d \in Database /\ d.entries /\ d.secret = 0 /\ d.key = 0 /\ 0 # User
      BY <3>1, ConstantsAssumption DEF Database, Key, VaultId
    <3>5. QED
      BY <2>1, <3>3, <3>4 DEF Reachable
  <2>2. CASE usb[given] # Whole(0)
    <3>1. (userKey = "inside" => usb[given].key = User)
          /\ UserDb \in {usb[given].db, usb[given].backup}
      BY <2>2 DEF Inv, GivenKept
    <3>2. UserDb \in Database /\ UserDb.entries /\ UserDb.secret = User
          /\ (userKey = "none" => UserDb.key = Nothing)
          /\ userKey \in KeyPlace
      BY FilesFacts DEF UserDb, Inv, Types, ProvisionTypeOK
    <3>3. Reachable(given, UserDb)
      BY <3>1, <3>2 DEF Reachable, KeyPlace
    <3>4. QED
      BY <3>1, <3>3
  <2>3. QED
    BY <2>1, <2>2
<1>2. QED
  BY <1>1, InvAlways, PTL

\* create_new_vault: a vault that the wizard created under a name opens, wherever
\* a creation stops or fails; its hidden directory may stay and has no name.
THEOREM NamedVaultsAreWhole == Spec => []NamedVaultsOpen
<1>1. Inv => NamedVaultsOpen
  <2>1. Empty.json \notin Attempt
    BY ConstantsAssumption DEF Empty, Attempt, VaultId
  <2>2. QED
    BY <2>1 DEF Inv, OthersWhole, NamedVaultsOpen
<1>2. QED
  BY <1>1, InvAlways, PTL

\* After a complete undo an adoption has changed nothing but the copy.
THEOREM UndoIsExact == Spec => []UndoneIsUntouched
<1>1. Inv => UndoneIsUntouched
  <2> SUFFICES ASSUME Inv, pc = "undo_home", draft.adopt
               PROVE  usb[draft.at] = [before EXCEPT !.backup = here.backup]
    BY DEF UndoneIsUntouched
  <2>1. here \in Files /\ before \in Files
    BY FilesFacts DEF Inv
  <2>2. /\ here.db = before.db /\ here.key = before.key /\ here.json = before.json
        /\ here.slot = before.slot /\ here.device = before.device
    BY DEF Inv, Adoption, Undoing
  <2>3. here.roster = before.roster
    BY DEF Inv, Adoption
  <2>4. here = [before EXCEPT !.backup = here.backup]
    BY <2>1, <2>2, <2>3 DEF Files
  <2>5. QED
    BY <2>4 DEF here
<1>2. QED
  BY <1>1, InvAlways, PTL

\* From the commit on the registered vault opens with the password.
THEOREM CommitsAreUsable == Spec => []CommittedIsUsable
<1>1. Inv => CommittedIsUsable
  BY DEF Inv, Usable, FinalState, CommittedIsUsable
<1>2. QED
  BY <1>1, InvAlways, PTL

=============================================================================
