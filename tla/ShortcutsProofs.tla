---------------------------- MODULE ShortcutsProofs ----------------------------
(***************************************************************************)
(* Proofs about the keyboard shortcut, for any number of brokers, key      *)
(* combinations, changes, edits by the user, crashes and failing steps.    *)
(***************************************************************************)
EXTENDS Shortcuts, TLAPS

Before == {"idle", "lock", "read"}
Begun(w) == task[w].at \notin Before

(* The text a change has read is still the user's latest, or an edit came  *)
(* where nobody can see it.                                                *)
Fresh(w) == task[w].before.text = edits \/ raced \/ unseen

(* What the step of a change knows of the file: what it has read is never  *)
(* newer than the user's latest edit; a file with the identity that was    *)
(* read is the file that was read, and one with the identity that was      *)
(* written still has nothing the change would undo.                        *)
ReadFits(w) ==
    Begun(w) =>
        /\ task[w].before.text <= edits
        /\ task[w].at \in {"decide", "backup", "check"} =>
             /\ task[w].before.ver <= file.ver
             /\ task[w].before.ver = file.ver => task[w].before = file
             /\ task[w].before.ver # file.ver => task[w].before.text < edits
        /\ task[w].at \in {"replace", "written", "restore"} => Fresh(w)
        /\ task[w].at = "replace" =>
             task[w].before.block = file.block \/ task[w].before.text < edits
        /\ task[w].at \in {"reload", "verify", "undo"} =>
             /\ task[w].written <= file.ver
             /\ task[w].written = file.ver => Fresh(w)
        /\ task[w].at = "reloadBack" =>
             task[w].before.block = file.block \/ task[w].before.text < edits

(* A hidden icon that was neither hidden during a change nor followed by   *)
(* an edit was hidden over a shortcut: no removal has begun since, and     *)
(* whatever has been read since has a shortcut.                            *)
IconFits(w) ==
    icon \/ excused \/
        (~Free(w) => /\ task[w].combo # NoCombo
                     /\ Begun(w) => HasShortcut(task[w].before))

ShortcutInv ==
    /\ ChangeTypeOK
    /\ EditsAreKept /\ IconOrShortcut /\ file.text <= edits
    /\ \A w \in Writers : ReadFits(w) /\ IconFits(w)

(* What the panel shows as working is still in the file.                   *)
PanelFits == shown \in Views /\ (shown = "works" => HasShortcut(file))

SafeInv == ShortcutInv /\ PanelFits
-----------------------------------------------------------------------------
(* Pieces of steps.                                                        *)

LEMMA TaskShapes ==
    ASSUME NEW t \in Task
    PROVE  /\ t.at \notin {"idle"} => t.combo \in Combos \cup {NoCombo}
           /\ t.at \notin Before => t.before \in File
           /\ t.at \in {"reload", "verify", "undo", "restore", "reloadBack"} => t.written \in Nat
           /\ "before" \in DOMAIN t => t.at \notin Before
           /\ t.at \in {"idle", "lock", "read", "decide", "backup", "check", "replace", "written",
                        "reload", "verify", "undo", "restore", "reloadBack"}
BY DEF Task, Idle, Before

LEMMA FaultTyped ==
    ASSUME faults \in 0..MaxFaults, Fault
    PROVE  faults' \in 0..MaxFaults
BY ShortcutBounds DEF Fault

LEMMA BindsTyped ==
    ASSUME NEW f \in File
    PROVE  Binds(f) \in Bindings
BY ShortcutBounds DEF File, Bindings, Binds

LEMMA LoadsTyped ==
    ASSUME file \in File, active \in Bindings
    PROVE  Loads(file) \subseteq Bindings
<1>1. Binds(file) \in Bindings
    BY BindsTyped
<1>2. [active EXCEPT !.errors = TRUE] \in Bindings
    BY DEF Bindings
<1> QED BY <1>1, <1>2 DEF Loads

LEMMA ShortcutInit == Init => ShortcutInv
<1> SUFFICES ASSUME Init PROVE ShortcutInv
    OBVIOUS
<1>1. file \in File
    BY ShortcutBounds DEF Init, File
<1>2. active \in Bindings
    <2>1. file.block \in Combos \cup {NoCombo} /\ file.taken \in SUBSET Combos
        BY DEF Init
    <2> QED BY <2>1 DEF Init, Bindings
<1>3. task \in [Writers -> Task] /\ \A w \in Writers : task[w].at = "idle"
    BY DEF Init, Task, Idle
<1>4. ChangeTypeOK
    <2>1. answer \in [Writers -> Answers]
        BY DEF Init, Answers
    <2>2. \A w \in Writers : lock # w
        BY ShortcutBounds DEF Init
    <2>3. 0 \in 0..MaxRequests /\ 0 \in 0..MaxEdits /\ 0 \in 0..MaxFaults
        BY ShortcutBounds
    <2> QED BY <1>1, <1>2, <1>3, <2>1, <2>2, <2>3 DEF Init, ChangeTypeOK 
<1>5. \A w \in Writers : ReadFits(w) /\ IconFits(w)
    BY <1>3 DEF Init, ReadFits, IconFits, Begun, Before
<1>6. EditsAreKept /\ IconOrShortcut /\ file.text <= edits
    BY DEF Init, EditsAreKept, IconOrShortcut
<1> QED BY <1>4, <1>5, <1>6 DEF ShortcutInv
-----------------------------------------------------------------------------
(* A step of one broker.  The others that have read the file hold the lock *)
(* too, so there are none when this one may write.                         *)
LEMMA OneHolder ==
    ASSUME ShortcutInv, NEW w \in Writers, NEW v \in Writers, v # w, lock \in {w, NoWriter}
    PROVE  ~Begun(v)
<1>1. lock # v
    BY ShortcutBounds
<1> QED BY <1>1 DEF ShortcutInv, ChangeTypeOK, Begun, Before

LEMMA StepFits ==
    ASSUME ShortcutInv, NEW w \in Writers, NEW t \in Task, task' = [task EXCEPT ![w] = t],
           answer' \in [Writers -> Answers],
           lock' = IF t.at \notin {"idle", "lock"} THEN w ELSE IF lock = w THEN NoWriter ELSE lock,
           t.at \notin {"idle", "lock"} => lock \in {w, NoWriter},
           file' \in File, active' \in Bindings, faults' \in 0..MaxFaults,
           requests' \in 0..MaxRequests,
           file' = file \/ lock = w,
           UNCHANGED <<edits, raced, unseen>>,
           UNCHANGED <<icon, excused>> \/ (icon' = TRUE /\ excused' = FALSE),
           file'.text = edits \/ raced \/ unseen, file'.text <= edits,
           ReadFits(w)', IconFits(w)', IconOrShortcut'
    PROVE  ShortcutInv'
<1> USE DEF ShortcutInv
<1>1. task' \in [Writers -> Task] /\ task'[w] = t /\ \A v \in Writers : v # w => task'[v] = task[v]
    BY DEF ChangeTypeOK
<1>2. \A v \in Writers : lock' = v <=> task'[v].at \notin {"idle", "lock"}
    <2>1. \A v \in Writers : lock = v <=> task[v].at \notin {"idle", "lock"}
        BY DEF ChangeTypeOK
    <2>2. \A v \in Writers : v # w => (lock' = v <=> lock = v)
        BY ShortcutBounds
    <2>3. lock' = w <=> t.at \notin {"idle", "lock"}
        BY ShortcutBounds
    <2> QED BY <1>1, <2>1, <2>2, <2>3
<1>3. ChangeTypeOK'
    <2>1. lock' \in Writers \cup {NoWriter}
        BY DEF ChangeTypeOK
    <2> QED BY <1>1, <1>2, <2>1 DEF ChangeTypeOK
<1>4. EditsAreKept'
    BY DEF EditsAreKept
<1>5. ASSUME NEW v \in Writers PROVE ReadFits(v)' /\ IconFits(v)'
    <2>1. CASE v = w
        BY <2>1
    <2>2. CASE v # w
        <3>1. task'[v] = task[v]
            BY <1>1, <2>2
        <3>2. IconFits(v)'
            BY <3>1 DEF IconFits, Free, At, Begun, HasShortcut
        <3>3. CASE file' = file
            BY <3>1, <3>2, <3>3 DEF ReadFits, Begun, Fresh
        <3>4. CASE lock = w
            BY <3>1, <3>2, <3>4, <2>2, OneHolder DEF ReadFits, Begun
        <3> QED BY <3>3, <3>4
    <2> QED BY <2>1, <2>2
<1> QED BY <1>3, <1>4, <1>5

LEMMA InvTypes ==
    ASSUME ShortcutInv
    PROVE  /\ file \in File /\ active \in Bindings /\ icon \in BOOLEAN
           /\ lock \in Writers \cup {NoWriter} /\ task \in [Writers -> Task]
           /\ answer \in [Writers -> Answers]
           /\ requests \in 0..MaxRequests /\ edits \in 0..MaxEdits /\ faults \in 0..MaxFaults
           /\ \A w \in Writers : /\ lock = w <=> task[w].at \notin {"idle", "lock"}
                                 /\ ReadFits(w) /\ IconFits(w)
           /\ file.text = edits \/ raced \/ unseen
           /\ file.text <= edits
           /\ icon \/ excused \/ HasShortcut(file)
BY DEF ShortcutInv, ChangeTypeOK, EditsAreKept, IconOrShortcut, HasShortcut

(* The end of a request.                                                   *)
LEMMA AnswerFits ==
    ASSUME ShortcutInv, NEW w \in Writers, NEW text \in Answers, Answer(w, text),
           file' \in File, active' \in Bindings, faults' \in 0..MaxFaults,
           file' = file \/ lock = w, UNCHANGED <<icon, requests, edits, raced, unseen, excused>>,
           file'.text = edits \/ raced \/ unseen, file'.text <= edits, IconOrShortcut'
    PROVE  ShortcutInv'
<1>1. Idle \in Task /\ Idle.at = "idle"
    BY DEF Task, Idle
<1>2. task' = [task EXCEPT ![w] = Idle] /\ answer' \in [Writers -> Answers]
    BY InvTypes DEF Answer
<1>3. task'[w].at = "idle"
    BY <1>1, <1>2, InvTypes
<1>4. ReadFits(w)' /\ IconFits(w)'
    BY <1>3 DEF ReadFits, IconFits, Free, At, Begun, Before
<1>5. lock' = IF lock = w THEN NoWriter ELSE lock
    BY DEF Answer
<1> QED BY <1>1, <1>2, <1>4, <1>5, InvTypes, StepFits

LEMMA AnswerOnly ==
    ASSUME ShortcutInv, NEW w \in Writers, NEW text \in Answers, Answer(w, text),
           Fault \/ UNCHANGED counters, UNCHANGED <<file, icon, history>>, active' \in Bindings
    PROVE  ShortcutInv'
<1>1. faults' \in 0..MaxFaults /\ UNCHANGED <<requests, edits, raced, unseen, excused>>
    BY InvTypes, FaultTyped DEF Fault, counters, history
<1>2. IconOrShortcut'
    BY <1>1 DEF ShortcutInv, IconOrShortcut
<1> QED BY <1>1, <1>2, InvTypes, AnswerFits

(* The next step of a request that has read the file.                      *)
Early == {"decide", "backup", "check", "replace", "written"}
Late == {"reload", "verify", "undo", "restore", "reloadBack"}

LEMMA GoTyped ==
    ASSUME ShortcutInv, NEW w \in Writers, NEW step,
           \/ task[w].at \in Early /\ step \in Early
           \/ task[w].at \in Late /\ step \in Late
    PROVE  LET t == [task[w] EXCEPT !.at = step] IN
           /\ t \in Task /\ t.at = step /\ t.combo = task[w].combo
           /\ t.before = task[w].before
           /\ step \in Late => t.written = task[w].written
<1>1. task[w] \in Task
    BY InvTypes
<1>2. CASE task[w].at \in Early /\ step \in Early
    <2>1. task[w] \in [at : Early, combo : Combos \cup {NoCombo}, before : File]
        BY <1>1, <1>2 DEF Task, Idle, Early
    <2> QED BY <1>2, <2>1 DEF Task, Early, Late
<1>3. CASE task[w].at \in Late /\ step \in Late
    <2>1. task[w] \in [at : Late, combo : Combos \cup {NoCombo}, before : File, written : Nat]
        BY <1>1, <1>3 DEF Task, Idle, Late
    <2> QED BY <1>3, <2>1 DEF Task, Early, Late
<1> QED BY <1>2, <1>3

LEMMA GoFits ==
    ASSUME ShortcutInv, NEW w \in Writers, NEW step, Go(w, step),
           \/ task[w].at \in Early /\ step \in Early
           \/ task[w].at \in Late /\ step \in Late,
           Fault \/ UNCHANGED counters, UNCHANGED <<icon, history>>,
           file' \in File, active' \in Bindings,
           file'.text = edits \/ raced \/ unseen, file'.text <= edits, IconOrShortcut',
           /\ step \in {"decide", "backup", "check"} =>
                task[w].at \in {"decide", "backup", "check"} /\ UNCHANGED file
           /\ step \in {"replace", "written", "restore"} => Fresh(w)
           /\ step \in {"replace", "reloadBack"} =>
                task[w].before.block = file'.block \/ task[w].before.text < edits
           /\ step \in {"reload", "verify", "undo"} =>
                task[w].at \in {"reload", "verify", "undo"} /\ UNCHANGED file
    PROVE  ShortcutInv'
<1> DEFINE t == [task[w] EXCEPT !.at = step]
<1>1. /\ t \in Task /\ t.at = step /\ t.combo = task[w].combo
      /\ t.before = task[w].before /\ (step \in Late => t.written = task[w].written)
    BY GoTyped
<1>2. task' = [task EXCEPT ![w] = t] /\ task'[w] = t
    BY InvTypes DEF Go
<1>3. Begun(w) /\ step \notin Before /\ lock = w
    BY InvTypes DEF Begun, Before, Early, Late
<1>4. faults' \in 0..MaxFaults /\ UNCHANGED <<requests, edits, raced, unseen, excused, lock, answer>>
    BY InvTypes, FaultTyped DEF Fault, counters, history, Go
<1>5. IconFits(w)'
    BY <1>1, <1>2, <1>3, <1>4, InvTypes DEF IconFits, Begun, Free, At, Before, HasShortcut
<1>6. ReadFits(w)'
    <2> HIDE DEF t
    <2>1. ReadFits(w)
        BY InvTypes
    <2>2. task[w].before.text <= edits
        BY <2>1, <1>3 DEF ReadFits
    <2>3. step \in {"decide", "backup", "check"} =>
             /\ task[w].before.ver <= file.ver
             /\ task[w].before.ver = file.ver => task[w].before = file
             /\ task[w].before.ver # file.ver => task[w].before.text < edits
        BY <2>1, <1>3 DEF ReadFits
    <2>4. step \in {"reload", "verify", "undo"} =>
             /\ task[w].written <= file.ver
             /\ task[w].written = file.ver => Fresh(w)
        BY <2>1, <1>3 DEF ReadFits
    <2>5. Fresh(w)' <=> Fresh(w)
        BY <1>1, <1>2, <1>4 DEF Fresh
    <2> QED BY <1>1, <1>2, <1>4, <2>2, <2>3, <2>4, <2>5 DEF ReadFits, Late
<1>7. step \notin {"idle", "lock"}
    BY <1>3 DEF Before
<1> QED BY <1>1, <1>2, <1>3, <1>4, <1>5, <1>6, <1>7, InvTypes, StepFits
-----------------------------------------------------------------------------
(* The steps of a request.                                                 *)

LEMMA RequestFits ==
    ASSUME ShortcutInv, NEW w \in Writers, NEW combo \in Combos \cup {NoCombo},
           Request(w, combo)
    PROVE  ShortcutInv'
<1>1. requests' \in 0..MaxRequests /\ faults' \in 0..MaxFaults /\ answer' \in [Writers -> Answers]
    BY InvTypes, ShortcutBounds DEF Request, Answers
<1>2. UNCHANGED <<file, active, lock, edits, faults, raced, unseen>> /\ lock # w
      /\ excused' = (excused /\ ~icon') /\ excused \in BOOLEAN /\ icon \in BOOLEAN
    BY InvTypes DEF Request, Free, At, ShortcutInv, ChangeTypeOK
<1>3. CASE icon' = IconFor(combo) /\ task' = [task EXCEPT ![w] = [at |-> "lock", combo |-> combo]]
    <2> DEFINE t == [at |-> "lock", combo |-> combo]
    <2>1. t \in Task /\ t.at = "lock" /\ t.combo = combo
        BY DEF Task
    <2> HIDE DEF t
    <2>2. task' = [task EXCEPT ![w] = t] /\ task'[w] = t
        BY <1>3, InvTypes DEF t
    <2>3. /\ combo # NoCombo \/ icon' = TRUE
          /\ UNCHANGED <<icon, excused>> \/ (icon' = TRUE /\ excused' = FALSE)
        BY <1>2, <1>3 DEF IconFor
    <2>4. ReadFits(w)' /\ IconFits(w)'
        BY <2>1, <2>2, <2>3 DEF ReadFits, IconFits, Begun, Before
    <2>5. IconOrShortcut'
        BY <1>2, <2>3 DEF ShortcutInv, IconOrShortcut
    <2> QED BY <1>1, <1>2, <2>1, <2>2, <2>3, <2>4, <2>5, InvTypes, StepFits
<1>4. CASE UNCHANGED <<icon, task>>
    <2>1. ChangeTypeOK'
        BY <1>1, <1>2, <1>4 DEF ShortcutInv, ChangeTypeOK
    <2>2. icon \/ UNCHANGED excused
        BY <1>2, <1>4
    <2> QED BY <1>2, <1>4, <2>1, <2>2 DEF ShortcutInv, EditsAreKept, IconOrShortcut, ReadFits, IconFits,
              Begun, Free, At, Fresh, HasShortcut
<1> QED BY <1>3, <1>4 DEF Request

LEMMA LockFits ==
    ASSUME ShortcutInv, NEW w \in Writers, Lock(w)
    PROVE  ShortcutInv'
<1>1. UNCHANGED <<file, active, icon, history>> /\ task[w].at = "lock"
    BY DEF Lock, At
<1>2. CASE lock = NoWriter /\ lock' = w /\ task' = [task EXCEPT ![w].at = "read"]
           /\ UNCHANGED <<answer, counters>>
    <2> DEFINE t == [task[w] EXCEPT !.at = "read"]
    <2>1. t \in Task /\ t.at = "read" /\ t.combo = task[w].combo
        <3>1. task[w] \in Task
            BY InvTypes
        <3>2. task[w] \in [at : {"lock", "read"}, combo : Combos \cup {NoCombo}]
            BY <1>1, <3>1 DEF Task, Idle
        <3> QED BY <3>2 DEF Task
    <2> HIDE DEF t
    <2>2. task' = [task EXCEPT ![w] = t] /\ task'[w] = t
        BY <1>2, InvTypes DEF t
    <2>3. UNCHANGED <<faults, requests, edits, raced, unseen, excused>>
        BY <1>1, <1>2 DEF counters, history
    <2>4. ReadFits(w)' /\ IconFits(w)'
        BY <1>1, <2>1, <2>2, <2>3, InvTypes DEF ReadFits, IconFits, Begun, Before, Free, At
    <2>5. IconOrShortcut'
        BY <1>1, <2>3 DEF ShortcutInv, IconOrShortcut
    <2> QED BY <1>1, <1>2, <2>1, <2>2, <2>3, <2>4, <2>5, InvTypes, StepFits
<1>3. CASE Answer(w, "refused") /\ (Fault \/ UNCHANGED counters)
    BY <1>1, <1>3, InvTypes, AnswerOnly DEF Answers
<1> QED BY <1>2, <1>3 DEF Lock

LEMMA ReadStepFits ==
    ASSUME ShortcutInv, NEW w \in Writers, Read(w)
    PROVE  ShortcutInv'
<1>1. UNCHANGED <<file, active, icon, counters, history>> /\ task[w].at = "read"
    BY DEF Read, At
<1>2. CASE Answer(w, "refused")
    BY <1>1, <1>2, InvTypes, AnswerOnly DEF Answers
<1>3. CASE /\ task' = [task EXCEPT ![w] = [at |-> "decide", combo |-> task[w].combo, before |-> file]]
           /\ UNCHANGED <<answer, lock>>
    <2> DEFINE t == [at |-> "decide", combo |-> task[w].combo, before |-> file]
    <2>1. t \in Task /\ t.at = "decide" /\ t.combo = task[w].combo /\ t.before = file
        <3>1. task[w].combo \in Combos \cup {NoCombo} /\ file \in File
            BY <1>1, InvTypes, TaskShapes
        <3> QED BY <3>1 DEF Task
    <2> HIDE DEF t
    <2>2. task' = [task EXCEPT ![w] = t] /\ task'[w] = t
        BY <1>3, InvTypes DEF t
    <2>3. UNCHANGED <<faults, requests, edits, raced, unseen, excused>> /\ lock = w
        BY <1>1, InvTypes DEF counters, history
    <2>4. file.text <= edits
        BY InvTypes
    <2>5. ReadFits(w)'
        BY <1>1, <2>1, <2>2, <2>3, <2>4, InvTypes DEF ReadFits, File
    <2>6. IconFits(w)'
        BY <1>1, <2>1, <2>2, <2>3, InvTypes DEF IconFits, Free, At, Begun, Before, HasShortcut
    <2>7. IconOrShortcut'
        BY <1>1, <2>3 DEF ShortcutInv, IconOrShortcut
    <2> QED BY <1>1, <1>3, <2>1, <2>2, <2>3, <2>5, <2>6, <2>7, InvTypes, StepFits
<1> QED BY <1>2, <1>3 DEF Read

(* A step that changes neither the file nor the bindings.                  *)
LEMMA QuietGo ==
    ASSUME ShortcutInv, NEW w \in Writers, NEW step, Go(w, step),
           \/ task[w].at \in Early /\ step \in Early
           \/ task[w].at \in Late /\ step \in Late,
           Fault \/ UNCHANGED counters, UNCHANGED <<file, icon, history>>, active' \in Bindings,
           /\ step \in {"decide", "backup", "check"} =>
                task[w].at \in {"decide", "backup", "check"}
           /\ step \in {"replace", "written", "restore"} => Fresh(w)
           /\ step \in {"replace", "reloadBack"} =>
                task[w].before.block = file.block \/ task[w].before.text < edits
           /\ step \in {"reload", "verify", "undo"} =>
                task[w].at \in {"reload", "verify", "undo"}
    PROVE  ShortcutInv'
<1>1. IconOrShortcut'
    BY DEF ShortcutInv, IconOrShortcut, history
<1> QED BY <1>1, InvTypes, GoFits

LEMMA DecideFits ==
    ASSUME ShortcutInv, NEW w \in Writers, Decide(w) \/ Backup(w)
    PROVE  ShortcutInv'
<1>1. UNCHANGED <<file, active, icon, history>> /\ task[w].at \in {"decide", "backup"}
    BY DEF Decide, Backup, At
<1>2. CASE (Go(w, "backup") \/ Go(w, "check")) /\ UNCHANGED counters
    BY <1>1, <1>2, InvTypes, QuietGo DEF Early
<1>3. CASE Answer(w, "refused") /\ (Fault \/ UNCHANGED counters)
    BY <1>1, <1>3, InvTypes, AnswerOnly DEF Answers
<1> QED BY <1>2, <1>3 DEF Decide, Backup

LEMMA CheckFits ==
    ASSUME ShortcutInv, NEW w \in Writers, Check(w)
    PROVE  ShortcutInv'
<1>1. UNCHANGED <<file, active, icon, history>> /\ task[w].at = "check"
    BY DEF Check, At
<1>2. CASE file.ver = task[w].before.ver /\ Go(w, "replace") /\ UNCHANGED counters
    <2>1. task[w].before = file
        BY <1>1, <1>2, InvTypes DEF ReadFits, Begun, Before
    <2>2. Fresh(w)
        BY <2>1, InvTypes DEF Fresh
    <2> QED BY <1>1, <1>2, <2>1, <2>2, InvTypes, QuietGo DEF Early
<1>3. CASE Answer(w, "refused") /\ (Fault \/ UNCHANGED counters)
    BY <1>1, <1>3, InvTypes, AnswerOnly DEF Answers
<1> QED BY <1>2, <1>3 DEF Check

LEMMA ReplaceFits ==
    ASSUME ShortcutInv, NEW w \in Writers, Replace(w)
    PROVE  ShortcutInv'
<1>1. UNCHANGED <<active, icon, history, counters>> /\ task[w].at = "replace" /\ Go(w, "written")
    BY DEF Replace, At
<1>2. /\ task[w].before \in File /\ task[w].combo \in Combos \cup {NoCombo}
      /\ task[w].before.text <= edits /\ Fresh(w) /\ Begun(w) /\ ~Free(w)
    BY <1>1, InvTypes, TaskShapes DEF ReadFits, Begun, Before, Free, At
<1>3. file' = [task[w].before EXCEPT !.ver = file.ver + 1, !.block = task[w].combo]
    BY DEF Replace
<1>4. /\ file' \in File /\ file'.text = task[w].before.text
      /\ file'.block = task[w].combo
    <2>1. task[w].combo \in Combos \cup {NoCombo, Damaged}
        BY <1>2
    <2>2. file.ver + 1 \in Nat
        BY InvTypes DEF File
    <2> QED BY <1>2, <1>3, <2>1, <2>2 DEF File
<1>5. IconOrShortcut'
    <2>1. icon \/ excused \/ task[w].combo # NoCombo
        BY <1>2, InvTypes DEF IconFits
    <2>2. file'.block # NoCombo \/ icon \/ excused
        BY <1>2, <1>4, <2>1, ShortcutBounds
    <2> QED BY <1>1, <2>2 DEF IconOrShortcut, HasShortcut, history
<1>6. file'.text = edits \/ raced \/ unseen
    BY <1>2, <1>4 DEF Fresh
<1> QED BY <1>1, <1>2, <1>4, <1>5, <1>6, InvTypes, GoFits DEF Early

LEMMA ReadBackFits ==
    ASSUME ShortcutInv, NEW w \in Writers, ReadBack(w)
    PROVE  ShortcutInv'
<1>1. UNCHANGED <<file, active, icon, history>> /\ task[w].at = "written"
    BY DEF ReadBack, At
<1>2. CASE Answer(w, "unread") /\ Fault
    BY <1>1, <1>2, InvTypes, AnswerOnly DEF Answers
<1>3. CASE /\ task' = [task EXCEPT ![w] = [at |-> "reload", combo |-> task[w].combo,
                                           before |-> task[w].before, written |-> file.ver]]
           /\ UNCHANGED <<answer, lock, counters>>
    <2> DEFINE t == [at |-> "reload", combo |-> task[w].combo,
                     before |-> task[w].before, written |-> file.ver]
    <2>1. /\ t \in Task /\ t.at = "reload" /\ t.combo = task[w].combo /\ t.before = task[w].before
          /\ t.written = file.ver /\ file.ver \in Nat
        <3>1. task[w].combo \in Combos \cup {NoCombo} /\ task[w].before \in File
            BY <1>1, InvTypes, TaskShapes DEF Before
        <3>2. file.ver \in Nat
            BY InvTypes DEF File
        <3> QED BY <3>1, <3>2 DEF Task
    <2> HIDE DEF t
    <2>2. task' = [task EXCEPT ![w] = t] /\ task'[w] = t
        BY <1>3, InvTypes DEF t
    <2>3. UNCHANGED <<faults, requests, edits, raced, unseen, excused>> /\ lock = w
        BY <1>1, <1>3, InvTypes DEF counters, history
    <2>4. ReadFits(w) /\ Begun(w) /\ ~Free(w)
        BY <1>1, InvTypes DEF Begun, Before, Free, At
    <2>5. Fresh(w) /\ task[w].before.text <= edits
        BY <1>1, <2>4 DEF ReadFits
    <2>6. ReadFits(w)'
        BY <1>1, <2>1, <2>2, <2>3, <2>5 DEF ReadFits, Fresh
    <2>7. IconFits(w)'
        BY <1>1, <2>1, <2>2, <2>3, <2>4, InvTypes DEF IconFits, Free, At, Begun, HasShortcut
    <2>8. IconOrShortcut'
        BY <1>1, <2>3 DEF ShortcutInv, IconOrShortcut
    <2> QED BY <1>1, <1>3, <2>1, <2>2, <2>3, <2>6, <2>7, <2>8, InvTypes, StepFits
<1> QED BY <1>2, <1>3 DEF ReadBack

LEMMA VerifyFits ==
    ASSUME ShortcutInv, NEW w \in Writers, Reload(w) \/ Verify(w)
    PROVE  ShortcutInv'
<1>1. UNCHANGED <<file, icon, history>> /\ task[w].at \in {"reload", "verify"}
    BY DEF Reload, Verify, At
<1>2. active' \in Bindings
    BY InvTypes, LoadsTyped DEF Reload, Verify
<1>3. CASE (Go(w, "verify") \/ Go(w, "undo")) /\ (Fault \/ UNCHANGED counters)
    BY <1>1, <1>2, <1>3, InvTypes, QuietGo DEF Late
<1>4. CASE Answer(w, "saved") /\ UNCHANGED counters
    BY <1>1, <1>2, <1>4, InvTypes, AnswerOnly DEF Answers
<1> QED BY <1>3, <1>4 DEF Reload, Verify

LEMMA UndoFits ==
    ASSUME ShortcutInv, NEW w \in Writers, UndoCheck(w)
    PROVE  ShortcutInv'
<1>1. UNCHANGED <<file, active, icon, history>> /\ task[w].at = "undo"
    BY DEF UndoCheck, At
<1>2. CASE MayUndo(w) /\ Go(w, "restore") /\ UNCHANGED counters
    <2>1. Fresh(w)
        BY <1>1, <1>2, InvTypes DEF ReadFits, Begun, Before, MayUndo
    <2> QED BY <1>1, <1>2, <2>1, InvTypes, QuietGo DEF Late
<1>3. CASE Answer(w, "rollback_conflict") /\ (Fault \/ UNCHANGED counters)
    BY <1>1, <1>3, InvTypes, AnswerOnly DEF Answers
<1> QED BY <1>2, <1>3 DEF UndoCheck

LEMMA RestoreFits ==
    ASSUME ShortcutInv, NEW w \in Writers, Restore(w)
    PROVE  ShortcutInv'
<1>1. UNCHANGED <<active, icon, history>> /\ task[w].at = "restore" /\ file' = Restored(w)
    BY DEF Restore, At
<1>2. /\ task[w].before \in File /\ task[w].before.text <= edits /\ Fresh(w)
      /\ Begun(w) /\ ~Free(w) /\ lock = w
    BY <1>1, InvTypes, TaskShapes DEF ReadFits, Begun, Before, Free, At
<1>3. /\ file' \in File /\ file'.text = task[w].before.text /\ file'.block = task[w].before.block
      /\ file'.manual = task[w].before.manual
    BY <1>1, <1>2, InvTypes DEF Restored, File
<1>4. IconOrShortcut'
    <2>1. icon \/ excused \/ HasShortcut(task[w].before)
        BY <1>2, InvTypes DEF IconFits
    <2> QED BY <1>1, <1>3, <2>1 DEF IconOrShortcut, HasShortcut, history
<1>5. file'.text = edits \/ raced \/ unseen
    BY <1>2, <1>3 DEF Fresh
<1>6. CASE Go(w, "reloadBack") /\ UNCHANGED counters
    BY <1>1, <1>2, <1>3, <1>4, <1>5, <1>6, InvTypes, GoFits DEF Late
<1>7. CASE Answer(w, "rollback_conflict") /\ Fault
    <2>1. faults' \in 0..MaxFaults /\ UNCHANGED <<requests, edits, raced, unseen, excused>>
        BY <1>1, <1>7, InvTypes, FaultTyped DEF Fault, history
    <2> QED BY <1>1, <1>2, <1>3, <1>4, <1>5, <1>7, <2>1, InvTypes, AnswerFits DEF Answers
<1> QED BY <1>6, <1>7 DEF Restore

LEMMA EndFits ==
    ASSUME ShortcutInv, NEW w \in Writers, ReloadBack(w) \/ Crash(w)
    PROVE  ShortcutInv'
<1>1. UNCHANGED <<file, icon, history>> /\ active' \in Bindings /\ (Fault \/ UNCHANGED counters)
    BY InvTypes, LoadsTyped DEF ReloadBack, Crash
<1>2. \E text \in Answers : Answer(w, text)
    BY DEF ReloadBack, Crash, Answers
<1> QED BY <1>1, <1>2, AnswerOnly
-----------------------------------------------------------------------------
(* Everything else.                                                        *)

LEMMA IdleFits ==
    ASSUME ShortcutInv, CompositorLoads \/ \E w \in Writers : Status(w) \/ ShowIcon(w)
    PROVE  ShortcutInv'
<1>1. /\ UNCHANGED <<file, lock, task, answer, requests, edits, faults, raced, unseen>>
      /\ UNCHANGED <<icon, excused>> \/ (icon' = TRUE /\ excused' = FALSE)
      /\ active' \in Bindings
    <2>1. icon \in BOOLEAN /\ active \in Bindings /\ file \in File
        BY InvTypes
    <2>2. CASE CompositorLoads
        BY <2>1, <2>2, LoadsTyped DEF CompositorLoads, counters, history
    <2>3. ASSUME NEW w \in Writers, Status(w)
          PROVE  UNCHANGED <<file, lock, task, answer, requests, edits, faults, raced, unseen, excused,
                             icon, active>>
        BY <2>3 DEF Status, counters, history
    <2>4. ASSUME NEW w \in Writers, ShowIcon(w)
          PROVE  /\ icon' = TRUE /\ excused' = FALSE
                 /\ UNCHANGED <<file, lock, task, answer, requests, edits, faults, raced,
                                unseen, active>>
        BY <2>4 DEF ShowIcon, counters
    <2> QED BY <2>1, <2>2, <2>3, <2>4
<1>2. ChangeTypeOK'
    BY <1>1 DEF ShortcutInv, ChangeTypeOK
<1>3. EditsAreKept' /\ IconOrShortcut' /\ (file.text <= edits)'
    BY <1>1 DEF ShortcutInv, EditsAreKept, IconOrShortcut
<1>4. \A v \in Writers : ReadFits(v)' /\ IconFits(v)'
    BY <1>1, InvTypes DEF ReadFits, IconFits, Begun, Free, At, Fresh, HasShortcut
<1> QED BY <1>2, <1>3, <1>4 DEF ShortcutInv

(* A command looks at the file; the panel has been told of a shortcut that *)
(* is still there, or the hiding is excused.                               *)
LEMMA HideFits ==
    ASSUME SafeInv, NEW w \in Writers, HideIcon(w) \/ PanelHidesIcon(w)
    PROVE  ShortcutInv'
<1> USE DEF SafeInv
<1>1. /\ UNCHANGED <<file, active, lock, task, answer, requests, edits, faults, raced, unseen>>
      /\ icon' = FALSE /\ excused' \in BOOLEAN
      /\ (\E v \in Writers : ~Free(v)) => excused'
    BY DEF HideIcon, PanelHidesIcon, counters
<1>2. HasShortcut(file) \/ excused'
    <2>1. CASE HideIcon(w)
        BY <2>1 DEF HideIcon, CurrentWorks, Current, HasShortcut
    <2>2. CASE PanelHidesIcon(w)
        BY <2>2 DEF PanelHidesIcon, PanelFits, Views
    <2> QED BY <2>1, <2>2
<1>3. ChangeTypeOK'
    BY <1>1 DEF ShortcutInv, ChangeTypeOK
<1>4. EditsAreKept' /\ IconOrShortcut' /\ (file.text <= edits)'
    BY <1>1, <1>2 DEF ShortcutInv, EditsAreKept, IconOrShortcut, HasShortcut
<1>5. \A v \in Writers : ReadFits(v)'
    BY <1>1, InvTypes DEF ReadFits, Begun, Fresh
<1>6. \A v \in Writers : IconFits(v)'
    BY <1>1 DEF IconFits, Free, At
<1> QED BY <1>3, <1>4, <1>5, <1>6 DEF ShortcutInv

LEMMA UserEditFits ==
    ASSUME ShortcutInv, UserEdit
    PROVE  ShortcutInv'
<1>1. /\ edits' = edits + 1 /\ edits' \in 0..MaxEdits /\ edits \in Nat
      /\ raced' \in BOOLEAN /\ unseen' \in BOOLEAN /\ (icon' \/ excused')
      /\ UNCHANGED <<active, icon, lock, revision, task, answer, requests, faults>>
    <2>1. icon' \/ excused'
        BY DEF UserEdit
    <2> QED BY <2>1, InvTypes, ShortcutBounds DEF UserEdit
<1>2. file' \in File /\ file'.text = edits' /\ file'.ver = file.ver + 1 /\ file.ver \in Nat
    <2>1. file \in File
        BY InvTypes
    <2>2. PICK block \in {file.block, NoCombo, Damaged}, manual \in Combos \cup {NoCombo},
               taken \in SUBSET Combos, broken \in BOOLEAN :
            file' = [ver |-> file.ver + 1, text |-> edits', block |-> block,
                     manual |-> manual, taken |-> taken, broken |-> broken]
        BY DEF UserEdit
    <2>3. block \in Combos \cup {NoCombo, Damaged} /\ file.ver \in Nat
        BY <2>1 DEF File
    <2> QED BY <1>1, <2>2, <2>3 DEF File
<1>3. ChangeTypeOK'
    <2>1. excused' \in BOOLEAN
        BY DEF UserEdit
    <2> QED BY <1>1, <1>2, <2>1 DEF ShortcutInv, ChangeTypeOK
<1>4. EditsAreKept' /\ IconOrShortcut' /\ (file.text <= edits)'
    BY <1>1, <1>2 DEF EditsAreKept, IconOrShortcut
<1>5. ASSUME NEW v \in Writers PROVE ReadFits(v)' /\ IconFits(v)'
    <2>1. raced' \/ task[v].at \notin {"replace", "restore"}
        BY DEF UserEdit
    <2>2. unseen' \/ task[v].at # "written"
        BY DEF UserEdit, At
    <2>3. (raced => raced') /\ (unseen => unseen')
        BY DEF UserEdit
    <2>4. CASE Begun(v)
        <3>1. task[v].before \in File /\ (task[v].at \in {"reload", "verify", "undo"} => task[v].written \in Nat)
            BY <2>4, InvTypes, TaskShapes DEF Begun, Before
        <3>2. task[v].before.ver \in Nat /\ task[v].before.text \in Nat
            BY <3>1, ShortcutBounds DEF File
        <3>3. ReadFits(v)
            BY InvTypes
        <3> QED BY <1>1, <1>2, <2>1, <2>2, <2>3, <2>4, <3>1, <3>2, <3>3 DEF ReadFits, IconFits, Begun, Fresh
    <2>5. CASE ~Begun(v)
        BY <1>1, <2>5 DEF ReadFits, IconFits, Begun
    <2> QED BY <2>4, <2>5
<1> QED BY <1>3, <1>4, <1>5 DEF ShortcutInv

LEMMA ChangeNext ==
    ASSUME SafeInv, [Next]_vars
    PROVE  ShortcutInv'
<1> USE DEF SafeInv
<1>1. CASE UNCHANGED vars
    BY <1>1 DEF vars, counters, history, ShortcutInv, ChangeTypeOK, EditsAreKept, IconOrShortcut,
        ReadFits, IconFits, Begun, Free, At, Fresh, HasShortcut
<1>2. ASSUME NEW w \in Writers, WriterStep(w) \/ Crash(w) PROVE ShortcutInv'
    BY <1>2, LockFits, ReadStepFits, DecideFits, CheckFits, ReplaceFits, ReadBackFits, VerifyFits,
        UndoFits, RestoreFits, EndFits DEF WriterStep, ChangeStep
<1>3. ASSUME NEW w \in Writers, Status(w) \/ HideIcon(w) \/ PanelHidesIcon(w) \/ ShowIcon(w)
      PROVE  ShortcutInv'
    BY <1>3, IdleFits, HideFits
<1>4. ASSUME NEW w \in Writers, NEW combo \in Combos \cup {NoCombo}, Request(w, combo)
      PROVE  ShortcutInv'
    BY <1>4, RequestFits
<1>5. CASE UserEdit
    BY <1>5, UserEditFits
<1>6. CASE CompositorLoads
    BY <1>6, IdleFits
<1> QED BY <1>1, <1>2, <1>3, <1>4, <1>5, <1>6 DEF Next

LEMMA PanelNext ==
    ASSUME SafeInv, [Next]_vars
    PROVE  PanelFits'
<1> USE DEF SafeInv, PanelFits
<1>1. CASE UNCHANGED <<file, shown>>
    BY <1>1 DEF HasShortcut
<1>2. CASE shown' = Since(shown, file')
    BY <1>2 DEF Since, Views
<1>3. CASE UNCHANGED file /\ shown' = View(file)
    BY <1>3 DEF View, Views, CurrentWorks, Current, HasShortcut
<1>4. ASSUME NEW w \in Writers, Status(w)
      PROVE  UNCHANGED <<file, shown>> \/ (UNCHANGED file /\ shown' = View(file))
    BY <1>4 DEF Status
<1>5. ASSUME NEW w \in Writers,
             HideIcon(w) \/ PanelHidesIcon(w) \/ ShowIcon(w) \/ Crash(w)
                \/ \E combo \in Combos \cup {NoCombo} : Request(w, combo)
      PROVE  UNCHANGED <<file, shown>>
    BY <1>5 DEF HideIcon, PanelHidesIcon, ShowIcon, Crash, Request
<1> QED BY <1>1, <1>2, <1>3, <1>4, <1>5 DEF Next, WriterStep, UserEdit, CompositorLoads, vars
-----------------------------------------------------------------------------
(* Theorems.                                                               *)

(* The inductive invariant.                                                *)
THEOREM ShortcutSafe == Spec => []SafeInv
<1>1. Init => SafeInv
    BY ShortcutInit DEF Init, SafeInv, PanelFits, Views
<1>2. SafeInv /\ [Next]_vars => SafeInv'
    BY ChangeNext, PanelNext DEF SafeInv
<1> QED BY <1>1, <1>2, PTL DEF Spec

(* Every state is well typed, and the lock is held by exactly the change   *)
(* between taking and giving it back (shortcuts.py:358).                   *)
THEOREM ShortcutTyped == Spec => []ShortcutTypeOK
<1>1. SafeInv => ShortcutTypeOK
    BY DEF SafeInv, ShortcutInv, PanelFits, ShortcutTypeOK
<1> QED BY <1>1, ShortcutSafe, PTL

(* What the user saves stays in the file, however many changes are made,   *)
(* fail and are rolled back (shortcuts.py:417), unless it is saved in one  *)
(* of the two windows the code leaves open.                                *)
THEOREM EditsKept == Spec => []EditsAreKept
<1>1. SafeInv => EditsAreKept
    BY DEF SafeInv, ShortcutInv
<1> QED BY <1>1, ShortcutSafe, PTL

(* While the icon is hidden the file has a shortcut, whether a command hid *)
(* it (broker_operations.py:542) or the panel did (:551), unless the user  *)
(* edited the file since, or it was hidden while a broker was changing the *)
(* shortcut or from a panel that was not told that it had been taken out.  *)
THEOREM IconOrShortcutStays == Spec => []IconOrShortcut
<1>1. SafeInv => IconOrShortcut
    BY DEF SafeInv, ShortcutInv
<1> QED BY <1>1, ShortcutSafe, PTL

(* Only a step of the request itself gives its answer.                     *)
LEMMA AnswerStep ==
    ASSUME ShortcutInv, [Next]_vars, NEW w \in Writers,
           answer'[w] # answer[w], answer'[w] # "none"
    PROVE  ChangeStep(w) /\ Answer(w, answer'[w])
<1>1. answer \in [Writers -> Answers]
    BY InvTypes
<1>2. ASSUME NEW v \in Writers, ChangeStep(v)
      PROVE  UNCHANGED answer \/ \E text : Answer(v, text)
    BY <1>2 DEF ChangeStep, Go, Lock, Read, Decide, Backup, Check, Replace, ReadBack, Reload,
        Verify, UndoCheck, Restore, ReloadBack
<1>3. ASSUME NEW v \in Writers, NEW text, Answer(v, text)
      PROVE  v = w /\ text = answer'[w]
    BY <1>1, <1>3 DEF Answer
<1>4. ASSUME NEW v \in Writers, Crash(v) PROVE FALSE
    BY <1>3, <1>4 DEF Crash
<1>5. ASSUME NEW v \in Writers, NEW combo \in Combos \cup {NoCombo}, Request(v, combo)
      PROVE  FALSE
    BY <1>1, <1>5 DEF Request
<1>6. UNCHANGED vars \/ UserEdit \/ CompositorLoads
        \/ (\E v \in Writers : Status(v) \/ HideIcon(v) \/ PanelHidesIcon(v) \/ ShowIcon(v)) => UNCHANGED answer
    BY DEF vars, UserEdit, CompositorLoads, Status, HideIcon, PanelHidesIcon, ShowIcon
<1>7. PICK v \in Writers : ChangeStep(v)
    BY <1>4, <1>5, <1>6 DEF Next, WriterStep
<1> QED BY <1>2, <1>3, <1>7

LEMMA FailureKept ==
    ASSUME ShortcutInv, [Next]_vars, NEW w \in Writers,
           answer[w] = "none", answer'[w] \in {"refused", "change_rolled_back"},
           "before" \in DOMAIN task[w], task[w].before.text = edits
    PROVE  file'.block = task[w].before.block
<1>1. /\ task[w].at \notin Before /\ task[w].before \in File /\ ReadFits(w) /\ Begun(w)
      /\ edits \in Nat
    BY InvTypes, TaskShapes, ShortcutBounds DEF Begun
<1>2. ChangeStep(w) /\ Answer(w, answer'[w])
    BY AnswerStep
<1>3. ASSUME NEW text, Answer(w, text) PROVE text = answer'[w]
    BY <1>3, InvTypes DEF Answer
<1>4. ASSUME NEW step, Go(w, step) PROVE FALSE
    BY <1>4 DEF Go
<1>5. CASE Decide(w) \/ Backup(w) \/ Check(w)
    <2>1. UNCHANGED file /\ task[w].at \in {"decide", "backup", "check"}
        BY <1>5 DEF Decide, Backup, Check, At
    <2>2. task[w].before = file
        BY <1>1, <2>1 DEF ReadFits
    <2> QED BY <2>1, <2>2
<1>6. CASE ReloadBack(w)
    <2>1. UNCHANGED file /\ task[w].at = "reloadBack"
        BY <1>6 DEF ReloadBack, At
    <2> QED BY <1>1, <2>1 DEF ReadFits
<1>7. ~Lock(w) /\ ~Read(w)
    BY <1>1 DEF Lock, Read, At, Before
<1>8. ~Replace(w) /\ ~ReadBack(w) /\ ~Reload(w) /\ ~Verify(w) /\ ~UndoCheck(w) /\ ~Restore(w)
    BY <1>3, <1>4 DEF Replace, ReadBack, Reload, Verify, UndoCheck, Restore
<1> QED BY <1>2, <1>5, <1>6, <1>7, <1>8 DEF ChangeStep

(* A change that is refused or rolled back leaves the shortcut that was    *)
(* there (shortcuts.py:417), unless the file was edited meanwhile.         *)
THEOREM FailuresKeepShortcut == Spec => FailedChangesLeaveShortcut
<1>1. SafeInv /\ [Next]_vars =>
        [\A w \in Writers :
           /\ answer[w] = "none" /\ answer'[w] \in {"refused", "change_rolled_back"}
           /\ "before" \in DOMAIN task[w] /\ task[w].before.text = edits
           => file'.block = task[w].before.block]_vars
    BY FailureKept DEF SafeInv
<1> QED BY <1>1, ShortcutSafe, PTL DEF Spec, FailedChangesLeaveShortcut

LEMMA SavedAlone ==
    ASSUME ShortcutInv, [Next]_vars, NEW w \in Writers,
           answer[w] = "none", answer'[w] = "saved", task[w].combo # NoCombo
    PROVE  /\ (active.managed = task[w].combo) # (active.manual = task[w].combo)
           /\ task[w].combo \notin active.taken
<1>1. ChangeStep(w) /\ Answer(w, "saved")
    BY AnswerStep
<1>2. ASSUME NEW text, Answer(w, text) PROVE text = "saved"
    BY <1>2, InvTypes DEF Answer
<1>3. ASSUME NEW step, Go(w, step) PROVE FALSE
    BY <1>3 DEF Go
<1>4. ~Lock(w) /\ ~Decide(w) /\ ~Backup(w) /\ ~Check(w) /\ ~Replace(w) /\ ~ReadBack(w)
      /\ ~Reload(w) /\ ~UndoCheck(w) /\ ~Restore(w) /\ ~Read(w)
    BY <1>2, <1>3 DEF Lock, Read, Decide, Backup, Check, Replace, ReadBack, Reload, UndoCheck, Restore
<1>5. ~ReloadBack(w)
    BY <1>2 DEF ReloadBack
<1>6. Verify(w)
    BY <1>1, <1>4, <1>5 DEF ChangeStep
<1>7. Done(w)
    BY <1>2, <1>3, <1>6 DEF Verify
<1>8. Configured(file, task[w].combo)
    BY <1>7 DEF Done
<1> QED BY <1>8 DEF Configured, CurrentWorks, Works

(* A change is saved only when one binding has the keys, ours or the one   *)
(* the user put in its place (shortcuts.py:336).                           *)
THEOREM SavedIsAlone == Spec => SavedShortcutIsAlone
<1>1. SafeInv /\ [Next]_vars =>
        [\A w \in Writers :
           answer[w] = "none" /\ answer'[w] = "saved" /\ task[w].combo # NoCombo
           => /\ (active.managed = task[w].combo) # (active.manual = task[w].combo)
              /\ task[w].combo \notin active.taken]_vars
    BY SavedAlone DEF SafeInv
<1> QED BY <1>1, ShortcutSafe, PTL DEF Spec, SavedShortcutIsAlone
================================================================================
