-------------------------------- MODULE Shortcuts ------------------------------
(***************************************************************************)
(* The keyboard shortcut (shortcuts.py, _shortcut and _settings_update in  *)
(* broker_operations.py): one marked block in the user's bindings.lua,     *)
(* which the compositor loads, and the menu icon that may be hidden while  *)
(* the shortcut works.                                                     *)
(*                                                                         *)
(* A change is many steps between which the user edits the file, the       *)
(* compositor loads it and the broker dies.  A file's identity (inode and  *)
(* times) differs after every write, so ver stands for it.                 *)
(***************************************************************************)
EXTENDS Naturals

CONSTANTS
    Writers,     \* broker processes
    Combos,      \* key combinations
    MaxRequests, \* bound: confirmed changes
    MaxEdits,    \* bound: edits by the user
    MaxFaults    \* bound: failing writes and commands, and crashes

NoCombo == "none"
Damaged == "damaged"
NoWriter == "nobody"

ASSUME ShortcutBounds ==
    /\ {NoCombo, Damaged} \cap Combos = {} /\ NoWriter \notin Writers
    /\ {MaxRequests, MaxEdits, MaxFaults} \subseteq Nat

VARIABLES
    file,     \* bindings.lua: the user's edit it has, our block, his bindings
    active,   \* the bindings the compositor has loaded
    icon,     \* the preference showMenuBar
    lock,     \* who has flocked .rock-arch-shortcut.lock
    revision, \* the revision the user of each broker was shown
    task,     \* the change each broker is at
    answer,   \* the latest answer of each
    shown,    \* whether the panel shows a shortcut that works; "gone" is history:
              \* it shows one that has been taken out of the file since
    requests, edits, faults, \* how many so far
    raced,    \* history: an edit came between a check and the replacement
    unseen,   \* history: an edit came between a replacement and reading it back
    excused   \* history: the icon is hidden, and was while another broker was at a
              \* change or from a panel whose shortcut was gone, or the user edited since

counters == <<requests, edits, faults>>
history == <<raced, unseen, excused>>
vars == <<file, active, icon, lock, revision, task, answer, shown, counters, history>>

Idle == [at |-> "idle"]
At(w, step) == task[w].at = step
Free(w) == At(w, "idle")

\* What a file makes the compositor bind; with errors it may keep the old.
Binds(f) == [managed |-> IF f.block \in Combos THEN f.block ELSE NoCombo,
             manual |-> f.manual, taken |-> f.taken, errors |-> f.broken]
Loads(f) == IF f.broken THEN {Binds(f), [active EXCEPT !.errors = TRUE]} ELSE {Binds(f)}

File == [ver : Nat, text : 0..MaxEdits, block : Combos \cup {NoCombo, Damaged},
         manual : Combos \cup {NoCombo}, taken : SUBSET Combos, broken : BOOLEAN]
Bindings == [managed : Combos \cup {NoCombo}, manual : Combos \cup {NoCombo},
             taken : SUBSET Combos, errors : BOOLEAN]
\* A change to NoCombo is a removal.
Task == {Idle} \cup [at : {"lock", "read"}, combo : Combos \cup {NoCombo}]
        \cup [at : {"decide", "backup", "check", "replace", "written"},
              combo : Combos \cup {NoCombo}, before : File]
        \cup [at : {"reload", "verify", "undo", "restore", "reloadBack"},
              combo : Combos \cup {NoCombo}, before : File, written : Nat]

Answers == {"none", "refused", "unread", "saved", "rollback_conflict",
            "rollback_failed", "change_rolled_back"}

Views == {"none", "works", "gone"}

ChangeTypeOK ==
    /\ file \in File /\ active \in Bindings /\ icon \in BOOLEAN
    /\ lock \in Writers \cup {NoWriter}
    /\ task \in [Writers -> Task]
    /\ answer \in [Writers -> Answers]
    /\ \A w \in Writers : lock = w <=> task[w].at \notin {"idle", "lock"}
    /\ requests \in 0..MaxRequests /\ edits \in 0..MaxEdits /\ faults \in 0..MaxFaults
    /\ raced \in BOOLEAN /\ unseen \in BOOLEAN /\ excused \in BOOLEAN

ShortcutTypeOK == ChangeTypeOK /\ shown \in Views

Init ==
    /\ \E block \in Combos \cup {NoCombo}, taken \in SUBSET Combos :
         file = [ver |-> 0, text |-> 0, block |-> block, manual |-> NoCombo,
                 taken |-> taken \ {block}, broken |-> FALSE]
    /\ active = [managed |-> file.block, manual |-> NoCombo, taken |-> file.taken, errors |-> FALSE]
    /\ icon = TRUE /\ lock = NoWriter
    /\ revision = [w \in Writers |-> <<>>] /\ task = [w \in Writers |-> Idle]
    /\ answer = [w \in Writers |-> "none"] /\ shown = "none"
    /\ requests = 0 /\ edits = 0 /\ faults = 0
    /\ raced = FALSE /\ unseen = FALSE /\ excused = FALSE

Fault == faults < MaxFaults /\ faults' = faults + 1 /\ UNCHANGED <<requests, edits>>

--------------------------------------------------------------------------------
(* Inspection.                                                             *)

\* Mutant: ours need not be the only binding of the combination.
Works_Shared(combo, managed) == (IF managed THEN active.managed ELSE active.manual) = combo

\* _active: our binding, and no other on the same keys.
Works(combo, managed) ==
    /\ (IF managed THEN active.managed ELSE active.manual) = combo
    /\ (IF managed THEN active.manual ELSE active.managed) # combo
    /\ combo \notin active.taken

HasShortcut(f) == f.block # NoCombo \/ f.manual # NoCombo

\* A shortcut that is shown, once the file is f.
Since(view, f) == IF view = "works" /\ ~HasShortcut(f) THEN "gone" ELSE view

\* _managed: whether the markers of our block are as we write them.
Managed(f) == f.block # Damaged

Current(f) ==
    IF f.block # NoCombo THEN f.block
    ELSE IF f.manual # NoCombo /\ Works(f.manual, FALSE) THEN f.manual ELSE NoCombo

CurrentWorks(f) ==
    Managed(f) /\ Current(f) # NoCombo /\ Works(Current(f), f.block # NoCombo)

Configured(f, combo) == Current(f) = combo /\ CurrentWorks(f)
Conflict(combo) == combo \in active.taken \cup {active.managed, active.manual}

\* What the revision is a digest of.
Revision(f) ==
    <<f.text, f.block, f.manual, f.taken, f.broken, active.managed, active.manual, active.taken>>

\* What the panel makes of a status (RockArchShortcut.qml, accept): the status
\* of a file that cannot be inspected names no shortcut either.
View(f) == IF CurrentWorks(f) THEN "works" ELSE "none"

\* Asked for by a command, or by the panel, which shows the answer once it
\* arrives: until then it is as if a command had asked.
Status(w) ==
    /\ Free(w)
    /\ \/ /\ Managed(file) /\ revision' = [revision EXCEPT ![w] = Revision(file)]
          /\ UNCHANGED shown
       \/ /\ revision' = [revision EXCEPT ![w] = IF Managed(file) THEN Revision(file) ELSE <<>>]
          /\ shown' = View(file)
    /\ UNCHANGED <<file, active, icon, lock, task, answer, counters, history>>

--------------------------------------------------------------------------------
(* The menu icon.                                                          *)

\* _settings_update, for commands: hidden only while a shortcut works.
HideIcon(w) ==
    /\ Free(w) /\ icon /\ CurrentWorks(file)
    /\ icon' = FALSE /\ excused' = (\E v \in Writers : ~Free(v))
    /\ UNCHANGED <<file, active, lock, revision, task, answer, shown, counters, raced, unseen>>

\* toggleMenuBarPreference goes by the shortcut that the panel shows, and
\* _preferences_update does not look at it again.
PanelHidesIcon(w) ==
    /\ Free(w) /\ icon /\ shown # "none"
    /\ icon' = FALSE /\ excused' = (shown = "gone" \/ \E v \in Writers : ~Free(v))
    /\ UNCHANGED <<file, active, lock, revision, task, answer, shown, counters, raced, unseen>>

\* Both: to show it is always allowed.
ShowIcon(w) ==
    /\ Free(w) /\ icon' = TRUE /\ excused' = FALSE
    /\ UNCHANGED <<file, active, lock, revision, task, answer, shown, counters, raced, unseen>>

--------------------------------------------------------------------------------
(* A change.                                                               *)

Go(w, step) == task' = [task EXCEPT ![w].at = step] /\ UNCHANGED <<answer, lock>>

Answer(w, text) ==
    /\ task' = [task EXCEPT ![w] = Idle] /\ answer' = [answer EXCEPT ![w] = text]
    /\ lock' = IF lock = w THEN NoWriter ELSE lock

\* Mutant: the icon stays hidden when the shortcut is removed.
IconFor_Install(combo) == icon

\* _shortcut: the icon comes back before the shortcut goes.
IconFor(combo) == icon \/ combo = NoCombo

Request(w, combo) ==
    /\ Free(w) /\ requests < MaxRequests /\ requests' = requests + 1
    /\ answer' = [answer EXCEPT ![w] = "none"]
    /\ \/ /\ icon' = IconFor(combo)
          /\ task' = [task EXCEPT ![w] = [at |-> "lock", combo |-> combo]]
       \/ combo = NoCombo /\ UNCHANGED <<icon, task>> \* the preferences cannot be written
    /\ excused' = (excused /\ ~icon')
    /\ UNCHANGED <<file, active, lock, revision, shown, edits, faults, raced, unseen>>

\* Inspected once before, then LOCK_NB: nobody waits for another broker.
Lock(w) ==
    /\ At(w, "lock")
    /\ \/ /\ lock = NoWriter /\ Managed(file)
          /\ lock' = w /\ task' = [task EXCEPT ![w].at = "read"] /\ UNCHANGED <<answer, counters>>
       \/ ~(lock = NoWriter /\ Managed(file)) /\ Answer(w, "refused") /\ UNCHANGED counters
       \/ Fault /\ Answer(w, "refused")
    /\ UNCHANGED <<file, active, icon, history>>

\* _inspect, first part: the file.
Read(w) ==
    /\ At(w, "read")
    /\ IF ~Managed(file) THEN Answer(w, "refused")
       ELSE /\ task' = [task EXCEPT ![w] = [at |-> "decide", combo |-> @.combo, before |-> file]]
            /\ UNCHANGED <<answer, lock>>
    /\ UNCHANGED <<file, active, icon, counters, history>>

\* The second part: the bindings; and what _change makes of both.
Allowed(w) ==
    LET f == task[w].before  combo == task[w].combo IN
    /\ ~active.errors /\ revision[w] = Revision(f)
    /\ IF combo = NoCombo THEN f.block # NoCombo
       ELSE /\ ~Configured(f, combo) /\ ~Conflict(combo)
            /\ f.block = NoCombo => Current(f) = NoCombo

Decide(w) ==
    /\ At(w, "decide")
    /\ \/ Allowed(w) /\ Go(w, "backup") /\ UNCHANGED counters
       \/ ~Allowed(w) /\ Answer(w, "refused") /\ UNCHANGED counters
       \/ Fault /\ Answer(w, "refused")
    /\ UNCHANGED <<file, active, icon, history>>

Backup(w) ==
    /\ At(w, "backup")
    /\ \/ Go(w, "check") /\ UNCHANGED counters
       \/ Fault /\ Answer(w, "refused")
    /\ UNCHANGED <<file, active, icon, history>>

\* _replace, first part: the new file is written beside the old one, which
\* must still be the one that was read.
Check(w) ==
    /\ At(w, "check")
    /\ \/ file.ver = task[w].before.ver /\ Go(w, "replace") /\ UNCHANGED counters
       \/ file.ver # task[w].before.ver /\ Answer(w, "refused") /\ UNCHANGED counters
       \/ Fault /\ Answer(w, "refused")
    /\ UNCHANGED <<file, active, icon, history>>

Replace(w) ==
    /\ At(w, "replace")
    /\ file' = [task[w].before EXCEPT !.ver = file.ver + 1, !.block = task[w].combo]
    /\ Go(w, "written")
    /\ UNCHANGED <<active, icon, counters, history>>

\* The last part: what is there now is taken for what was written; if it
\* cannot be read, the request ends here.
ReadBack(w) ==
    /\ At(w, "written")
    /\ \/ /\ task' = [task EXCEPT ![w] = [at |-> "reload", combo |-> @.combo,
                                          before |-> @.before, written |-> file.ver]]
          /\ UNCHANGED <<answer, lock, counters>>
       \/ Fault /\ Answer(w, "unread")
    /\ UNCHANGED <<file, active, icon, history>>

Reload(w) ==
    /\ At(w, "reload")
    /\ \/ active' \in Loads(file) /\ Go(w, "verify") /\ UNCHANGED counters
       \/ Fault /\ Go(w, "undo") /\ UNCHANGED active
    /\ UNCHANGED <<file, icon, history>>

Done(w) ==
    /\ ~active.errors /\ Managed(file)
    /\ IF task[w].combo = NoCombo THEN active.managed = NoCombo
       ELSE Configured(file, task[w].combo)

\* One of the fifteen looks; the last or an error leads to the rollback.
\* Looks that find nothing yet, and are not the last, change nothing.
Verify(w) ==
    /\ At(w, "verify")
    /\ \/ Done(w) /\ Answer(w, "saved") /\ UNCHANGED counters
       \/ ~Done(w) /\ Go(w, "undo") /\ UNCHANGED counters
       \/ Fault /\ Go(w, "undo")
    /\ UNCHANGED <<file, active, icon, history>>

\* Mutant: whatever is there is replaced.
MayUndo_Always(w) == TRUE

MayUndo(w) == file.ver = task[w].written

\* _replace again: only what this request has written is replaced.
UndoCheck(w) ==
    /\ At(w, "undo")
    /\ \/ MayUndo(w) /\ Go(w, "restore") /\ UNCHANGED counters
       \/ ~MayUndo(w) /\ Answer(w, "rollback_conflict") /\ UNCHANGED counters
       \/ Fault /\ Answer(w, "rollback_conflict")
    /\ UNCHANGED <<file, active, icon, history>>

\* Mutant: only our block is taken out again.
Restored_NoBlock(w) == [task[w].before EXCEPT !.ver = file.ver + 1, !.block = NoCombo]

Restored(w) == [task[w].before EXCEPT !.ver = file.ver + 1]

Restore(w) ==
    /\ At(w, "restore") /\ file' = Restored(w)
    /\ \/ Go(w, "reloadBack") /\ UNCHANGED counters
       \/ Fault /\ Answer(w, "rollback_conflict") \* it cannot be read back
    /\ UNCHANGED <<active, icon, history>>

ReloadBack(w) ==
    /\ At(w, "reloadBack")
    /\ \/ /\ active' \in Loads(file) /\ UNCHANGED counters
          /\ Answer(w, IF active'.errors THEN "rollback_failed" ELSE "change_rolled_back")
       \/ Fault /\ Answer(w, "rollback_failed") /\ UNCHANGED active
    /\ UNCHANGED <<file, icon, history>>

\* A revision is sent with one request; its answer has a new one, as if a
\* status had been asked for next.
Unsent(w) ==
    [revision EXCEPT ![w] = IF task'[w].at \in {"lock", "read", "decide"} THEN @ ELSE <<>>]

Crash(w) ==
    /\ ~Free(w) /\ Fault /\ Answer(w, "none") /\ revision' = Unsent(w)
    /\ UNCHANGED <<file, active, icon, shown, history>>

--------------------------------------------------------------------------------
(* Everybody else.                                                         *)

\* The user saves the file: he may drop our block and bind keys, or damage the
\* block, or make a mistake elsewhere. (Bound: one edit changes his own shortcut
\* or the keys that are taken, which any may be at the start.)
UserEdit ==
    /\ edits < MaxEdits /\ edits' = edits + 1
    /\ \E block \in {file.block, NoCombo, Damaged}, manual \in Combos \cup {NoCombo},
          taken \in SUBSET Combos, broken \in BOOLEAN :
         /\ block = Damaged \/ broken => manual = file.manual /\ taken = file.taken
         /\ broken => block = file.block
         /\ manual # file.manual => taken = file.taken
         /\ file' = [ver |-> file.ver + 1, text |-> edits', block |-> block,
                     manual |-> manual, taken |-> taken, broken |-> broken]
    /\ raced' = (raced \/ \E w \in Writers : task[w].at \in {"replace", "restore"})
    /\ unseen' = (unseen \/ \E w \in Writers : At(w, "written"))
    /\ excused' = ~icon /\ shown' = Since(shown, file')
    /\ UNCHANGED <<active, icon, lock, revision, task, answer, requests, faults>>

\* The compositor loads the file whenever it likes.
CompositorLoads ==
    /\ active' \in Loads(file)
    /\ UNCHANGED <<file, icon, lock, revision, task, answer, shown, counters, history>>

ChangeStep(w) ==
    \/ Lock(w) \/ Read(w) \/ Decide(w) \/ Backup(w) \/ Check(w) \/ Replace(w) \/ ReadBack(w)
    \/ Reload(w) \/ Verify(w) \/ UndoCheck(w) \/ Restore(w) \/ ReloadBack(w)

WriterStep(w) == ChangeStep(w) /\ shown' = Since(shown, file') /\ revision' = Unsent(w)

Next ==
    \/ \E w \in Writers :
         \/ Status(w) \/ HideIcon(w) \/ PanelHidesIcon(w) \/ ShowIcon(w)
         \/ WriterStep(w) \/ Crash(w)
         \/ \E combo \in Combos \cup {NoCombo} : Request(w, combo)
    \/ UserEdit \/ CompositorLoads

Spec == Init /\ [][Next]_vars

--------------------------------------------------------------------------------
(* Properties.                                                             *)

\* What the user saves stays in the file, however changes are made, fail and
\* are rolled back, unless he saves it in the instant between a check and the
\* replacement, or before the replacement is read back.
EditsAreKept == file.text = edits \/ raced \/ unseen

\* A change that is refused has changed nothing, and one that was rolled back
\* leaves the shortcut that was there, unless the file was edited meanwhile.
FailedChangesLeaveShortcut ==
    [][\A w \in Writers :
         /\ answer[w] = "none" /\ answer'[w] \in {"refused", "change_rolled_back"}
         /\ "before" \in DOMAIN task[w] /\ task[w].before.text = edits
         => file'.block = task[w].before.block]_vars

\* A change is saved only when one binding has the keys and it summons Rock
\* Arch, whatever was edited and loaded while the change was made: our block,
\* or the one the user has put in its place.
SavedShortcutIsAlone ==
    [][\A w \in Writers :
         answer[w] = "none" /\ answer'[w] = "saved" /\ task[w].combo # NoCombo
         => /\ (active.managed = task[w].combo) # (active.manual = task[w].combo)
            /\ task[w].combo \notin active.taken]_vars

\* While the icon is hidden the file has a shortcut, unless the user edited it,
\* or another broker was changing it when the icon was hidden, or the shortcut
\* that the panel went by had been taken out since it was told of it: no removal,
\* crash or failure takes both away otherwise.
IconOrShortcut == icon \/ excused \/ HasShortcut(file)

================================================================================
