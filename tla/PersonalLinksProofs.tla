-------------------------- MODULE PersonalLinksProofs --------------------------
(***************************************************************************)
(* Proofs about Personal Links, for any number of accounts, urls, records, *)
(* drafts, requests of the panel, commands and changes of Rock.            *)
(*                                                                         *)
(* LinkTypes says what each variable holds, and of every draft what its    *)
(* records have to do with its owner (GoodDraft).  ReadInv says what the   *)
(* reads of a commit so far have shown, as long as nothing happened in     *)
(* Rock meanwhile: the theorems about single writes follow from it.        *)
(* SayInv says in which one place a request is, and what the lines, the    *)
(* answers and the late writes have to do with what happened and what the  *)
(* user knows: the refinement follows from it.                             *)
(***************************************************************************)
EXTENDS PersonalLinks, Integers, SequenceTheorems, FiniteSetTheorems, WellFoundedInduction, TLAPS

Section == [id : Nat, owner : Accounts, name : Int]
Link == [id : Nat, owner : Accounts, section : Nat, url : Urls]
Line == [op : {"prepare", "commit"}, kind : Kinds, id : Confirmations, draft : Nat,
         target : Nat, url : Urls]
PanelLine == {l \in Line : l.id \in Requests}
Numbers == SUBSET Nat
Answer == [id : Requests, draft : Nat, offered : Numbers,
           state : {"done", "found", "draft", "error", "uncertain", "bare"}]
Panel == [phase : {"closed", "loading", "form", "saving"}, kind : Kinds, request : Nat,
          draft : Nat, target : Nat, offered : Numbers]
Draft == [number : Confirmations, kind : Kinds, owner : Accounts, offered : Numbers,
          target : Nat, shown : SUBSET (Section \cup Link), contents : Numbers]
(* What is shown of a deletion belongs to whoever asked for it, and a      *)
(* section that has to be empty was.                                       *)
GoodDraft == {d \in Draft : /\ \A r \in d.shown : r.owner = d.owner
                            /\ d.kind = "delete-empty" => d.contents = {}}
Steps == {"begin", "account", "sections", "record", "contents", "create", "created", "look",
          "write", "verify"}
Task == [step : Steps, live : BOOLEAN, line : Line, grants : SUBSET Actions,
         owner : Accounts \cup {0}, draft : SUBSET GoodDraft, place : Nat, made : Nat,
         raced : BOOLEAN]
Write == [id : Confirmations, owner : Accounts, url : Urls, kind : Kinds,
          counts : BOOLEAN, name : Int, place : Nat]

Outcomes == {"unasked", "open", "done", "not_done", "found", "unknown"}
PanelTyped ==
    /\ panel \in Panel /\ revision \in 0 .. MaxRequests /\ commands \in 0 .. MaxCommands
    /\ told \in [Confirmations -> Outcomes]
ConnectionTyped ==
    /\ queue \in Seq(PanelLine) /\ socket \in {"up", "down", "failed"}
    /\ wire \in [{"live", "lost"} -> Seq(PanelLine)] /\ answers \in Seq(Answer)
TaskTyped ==
    task # NoTask =>
        /\ task \in Task
        /\ task.step # "begin" => \E d \in GoodDraft : task.draft = {d}
        /\ task.step \notin {"begin", "account"} => task.owner \in Accounts
ManagerTyped ==
    /\ TaskTyped
    /\ additions \in Seq(GoodDraft) /\ deletions \in Seq(GoodDraft)
RockTyped ==
    /\ account \in Accounts /\ sections \subseteq Section /\ links \subseteq Link
    /\ last \in Nat /\ late \subseteq Write /\ changes \in Nat
    /\ times \in [Confirmations -> Nat]
LinkTypes == PanelTyped /\ ConnectionTyped /\ ManagerTyped /\ RockTyped
-----------------------------------------------------------------------------
(* What the reads of a commit have shown.                                  *)

(* Which step belongs to what kind of request.                             *)
StepsFit ==
    /\ task.step # "begin" => task.line.op = "commit"
    /\ task.step \in {"create", "created"} => task.line.kind \in {"link", "section"}
    /\ task.step = "look" => task.line.kind = "link"
    /\ task.step \in {"write", "verify"} => task.line.kind # "section"
    /\ task.step = "record" => task.line.kind \in Deletes
    /\ task.step = "contents" => task.line.kind \in {"delete-section", "delete-empty"}
GrantsFit ==
    /\ Granted(Needs(task.line.kind))
    /\ task.step \in {"create", "created"} => Granted({"addSections"})
OwnerFits(d) ==
    task.step # "account" => d.owner = task.owner /\ (~task.raced => d.owner = account)
(* The record to delete is as it was shown, and a section holds the links  *)
(* that were counted; the link to add is not there.                        *)
TargetFits(d) ==
    /\ task.line.kind \in Deletes /\ task.step \in {"sections", "contents", "write"} =>
         WithId(IF task.line.kind = "delete-link" THEN links ELSE sections, d.target) \subseteq d.shown
    /\ task.line.kind \in {"delete-section", "delete-empty"} /\ task.step = "write" =>
         {l.id : l \in In(d.target)} = d.contents
    /\ task.line.kind = "link" /\ task.step = "write" =>
         \A l \in In(task.place) : l.owner = task.owner => l.url # task.line.url
ReadsFit ==
    \E d \in GoodDraft :
        /\ task.draft = {d} /\ d.kind = task.line.kind
        /\ OwnerFits(d) /\ (~task.raced => TargetFits(d))
TaskReads ==
    task # NoTask => StepsFit /\ (task.step # "begin" => GrantsFit /\ ReadsFit)

(* A number is used once, and by now.                                      *)
NumbersFit ==
    /\ \A l \in links : l.id <= last
    /\ clean \subseteq 0 .. last

ReadInv == TaskReads /\ NumbersFit /\ NoSecondBookmark
-----------------------------------------------------------------------------
(* Who knows what of a confirmation.                                       *)

Members(s) == {s[i] : i \in 1 .. Len(s)}
Ids(s) == {s[i].id : i \in 1 .. Len(s)}
Distinct(s) == \A i, j \in 1 .. Len(s) : s[i].id = s[j].id => i = j
TaskIds == IF task = NoTask THEN {} ELSE {task.line.id}
LateIds == {w.id : w \in late}

(* A request has one line, one task or one answer, in one place; one with  *)
(* a late write has at most an answer that says nothing.                   *)
Apart(q, live, lost, served, as) ==
    /\ Distinct(q) /\ Distinct(live) /\ Distinct(lost) /\ Distinct(as)
    /\ Ids(q) \cap (Ids(live) \cup Ids(lost) \cup served \cup Ids(as)) = {}
    /\ Ids(live) \cap (Ids(lost) \cup served \cup Ids(as)) = {}
    /\ Ids(lost) \cap (served \cup Ids(as)) = {}
    /\ served \cap Ids(as) = {}
OnePlace == Apart(queue, wire["live"], wire["lost"], TaskIds, answers)

Lines == Members(queue) \cup Members(wire["live"]) \cup Members(wire["lost"])

(* What a request asks for has not happened, cannot happen by itself, and  *)
(* the user knows no outcome.                                              *)
Known(id) == IF id \in Requests THEN id <= revision ELSE id <= MaxRequests + commands
Open(id) == told[id] \in {"open", "unknown"}
Pending(l) ==
    /\ Known(l.id) /\ times[l.id] = 0 /\ l.id \notin LateIds
    /\ IF l.op = "commit" THEN Open(l.id) ELSE told[l.id] = "unasked"
LinesFit == \A l \in Lines : Pending(l)

(* The task has written when it verifies.                                  *)
Written == task.step = "verify" \/ (task.step = "created" /\ task.line.kind = "section")
TaskSays ==
    task # NoTask =>
        IF Written THEN /\ Known(task.line.id) /\ Open(task.line.id)
                        /\ times[task.line.id] = 1 /\ task.line.id \notin LateIds
                   ELSE Pending(task.line)

AnswerTrue(a) ==
    /\ Known(a.id)
    /\ a.state = "done" => times[a.id] = 1
    /\ a.state \in {"found", "error"} => times[a.id] = 0
    /\ a.id \in LateIds => a.state = "uncertain"
AnswersFit == \A a \in Members(answers) : AnswerTrue(a)

LateFits ==
    /\ \A w \in late : Known(w.id) /\ Open(w.id) /\ times[w.id] = 0
    /\ \A v, w \in late : v.id = w.id => v = w

(* A request the panel waits for is open, and higher numbers are unused.   *)
PanelFits ==
    /\ panel.phase = "saving" => panel.request \in Requests /\ told[panel.request] = "open"
    /\ \A c \in Confirmations : ~Known(c) => told[c] = "unasked" /\ times[c] = 0

SayInv == OnePlace /\ LinesFit /\ TaskSays /\ AnswersFit /\ LateFits /\ PanelFits
-----------------------------------------------------------------------------
(* The types.                                                              *)

LEMMA Bounds ==
    /\ Asked \subseteq Kinds /\ Deletes \subseteq Kinds
    /\ DraftLimit \in Nat \ {0} /\ SectionLimit \in Nat \ {0} /\ MaxRecords \in Nat \ {0}
    /\ MaxRequests \in Nat /\ MaxCommands \in Nat /\ MaxChanges \in Nat
    /\ Confirmations \subseteq Nat \ {0} /\ Requests \cap Commands = {}
    /\ Requests \subseteq Confirmations /\ Commands \subseteq Confirmations
BY LinkBounds DEF Deletes, Kinds, Confirmations, Requests, Commands

LEMMA LeastNumber ==
    ASSUME NEW T, T \subseteq Nat, T # {}
    PROVE  Min(T) \in T
<1> DEFINE R == OpToRel(<, Nat)
<1>1. IsWellFoundedOn(R, Nat)
    BY NatLessThanWellFounded
<1>2. \A n, k \in Nat : k < n => <<k, n>> \in R
    BY DEF OpToRel
<1> HIDE DEF R
<1>3. PICK n \in T : \A k \in T : ~ (<<k, n>> \in R)
    BY <1>1, WFMin
<1>4. \A k \in T : ~ (k < n)
    BY <1>2, <1>3
<1>5. \A k \in T : n <= k
    BY <1>4
<1> QED BY <1>3, <1>5 DEF Min

LEMMA TypesInit ==
    Init => LinkTypes
<1> SUFFICES ASSUME Init PROVE LinkTypes
    OBVIOUS
<1>1. PanelTyped
    <2>1. ClosedPanel \in Panel
        BY DEF ClosedPanel, Panel, Kinds, Numbers
    <2>2. told \in [Confirmations -> Outcomes]
        BY DEF Init, Outcomes
    <2>3. panel = ClosedPanel /\ revision = 0 /\ commands = 0
        BY DEF Init
    <2>4. 0 \in 0 .. MaxRequests /\ 0 \in 0 .. MaxCommands
        BY Bounds
    <2> QED BY <2>1, <2>2, <2>3, <2>4 DEF PanelTyped
<1>2. ConnectionTyped
    BY DEF Init, ConnectionTyped
<1>3. ManagerTyped
    BY DEF Init, ManagerTyped, TaskTyped
<1>4. RockTyped
    <2>1. /\ account \in Accounts /\ late = {} /\ changes = 0
          /\ times = [c \in Confirmations |-> 0]
          /\ sections \in {{}, {[id |-> 1, owner |-> account, name |-> 1]}}
        BY DEF Init
    <2>2. [id |-> 1, owner |-> account, name |-> 1] \in Section
        BY <2>1 DEF Section
    <2>3. sections \subseteq Section
        BY <2>1, <2>2
    <2>4. IsFiniteSet(sections) /\ Cardinality(sections) \in Nat
        <3>1. CASE sections = {}
            BY <3>1, FS_EmptySet
        <3>2. CASE sections # {}
            <4>1. PICK x : sections = {x}
                BY <2>1, <3>2
            <4> QED BY <4>1, FS_Singleton
        <3> QED BY <3>1, <3>2
    <2>5. links \subseteq Link /\ last \in Nat
        <3>1. CASE links = {} /\ last = Cardinality(sections)
            BY <2>4, <3>1
        <3>2. CASE \E u \in Urls : links = {[id |-> 2, owner |-> account, section |-> 1, url |-> u]}
                   /\ last = 2
            BY <2>1, <3>2 DEF Link
        <3> QED BY <3>1, <3>2 DEF Init
    <2> QED BY <2>1, <2>3, <2>5 DEF RockTyped
<1> QED BY <1>1, <1>2, <1>3, <1>4 DEF LinkTypes

LEMMA Still ==
    ASSUME LinkTypes
    PROVE  /\ UNCHANGED clientVars => PanelTyped'
           /\ UNCHANGED connectionVars => ConnectionTyped'
           /\ UNCHANGED managerVars => UNCHANGED <<additions, deletions>>
           /\ UNCHANGED task => TaskTyped'
           /\ TaskTyped' /\ UNCHANGED managerVars => ManagerTyped'
           /\ UNCHANGED rockVars => RockTyped'
BY DEF LinkTypes, PanelTyped, ConnectionTyped, ManagerTyped, TaskTyped, RockTyped, clientVars,
    connectionVars, managerVars, rockVars, recordVars

LEMMA ToldTyped ==
    ASSUME told \in [Confirmations -> Outcomes], NEW id \in Confirmations, NEW o,
           told' = [told EXCEPT ![id] = o], o \in Outcomes \/ o = told[id]
    PROVE  told' \in [Confirmations -> Outcomes]
OBVIOUS

(* What the panel sends.                                                   *)
LEMMA SendTyped ==
    ASSUME LinkTypes, NEW waiting \in Seq(PanelLine), NEW op \in {"prepare", "commit"},
           NEW target \in Nat, NEW u \in Urls, panel' \in Panel, Send(waiting, op, target, u)
    PROVE  /\ ConnectionTyped' /\ ManagerTyped' /\ RockTyped'
           /\ revision' = revision + 1 /\ revision + 1 \in Requests
           /\ revision' \in 0 .. MaxRequests /\ commands' \in 0 .. MaxCommands
<1> DEFINE line == [op |-> op, kind |-> panel'.kind, id |-> revision + 1,
                    draft |-> panel.draft, target |-> target, url |-> u]
<1>1. revision' = revision + 1 /\ revision + 1 \in Requests /\ revision + 1 \in Confirmations
    BY Bounds DEF Send, LinkTypes, PanelTyped, Requests, Confirmations
<1>2. line \in PanelLine
    BY <1>1 DEF PanelLine, Line, Panel, LinkTypes, PanelTyped
<1>3. /\ UNCHANGED <<commands, socket, answers, task, managerVars, rockVars>>
      /\ IF socket = "up"
           THEN queue' = <<>> /\ wire' = [wire EXCEPT !["live"] = @ \o Append(waiting, line)]
           ELSE queue' = Append(waiting, line) /\ UNCHANGED wire
    BY DEF Send
<1> HIDE DEF line
<1>4. Append(waiting, line) \in Seq(PanelLine)
    BY <1>2
<1>5. wire["live"] \o Append(waiting, line) \in Seq(PanelLine)
    BY <1>4, ConcatProperties DEF LinkTypes, ConnectionTyped
<1>6. ConnectionTyped'
    <2>1. CASE socket = "up"
        <3>1. queue' = <<>> /\ wire' = [wire EXCEPT !["live"] = wire["live"] \o Append(waiting, line)]
            BY <1>3, <2>1
        <3>2. wire' \in [{"live", "lost"} -> Seq(PanelLine)]
            BY <1>5, <3>1 DEF LinkTypes, ConnectionTyped
        <3> QED BY <1>3, <3>1, <3>2 DEF LinkTypes, ConnectionTyped
    <2>2. CASE socket # "up"
        BY <1>3, <1>4, <2>2 DEF LinkTypes, ConnectionTyped
    <2> QED BY <2>1, <2>2
<1>7. ManagerTyped' /\ RockTyped'
    BY <1>3 DEF LinkTypes, ManagerTyped, TaskTyped, RockTyped, managerVars, rockVars, recordVars
<1>8. revision' \in 0 .. MaxRequests /\ commands' \in 0 .. MaxCommands
    BY <1>1, <1>3, Bounds DEF LinkTypes, PanelTyped, Requests
<1> QED BY <1>1, <1>6, <1>7, <1>8

LEMMA PanelTypes ==
    ASSUME LinkTypes, PanelStep
    PROVE  LinkTypes'
<1>1. CASE Begin
    <2>1. PICK k \in Asked \ {"delete-empty"}, u \in Urls :
          \E n \in IF k \in Deletes THEN 1 .. last ELSE {0} :
             /\ panel' = [ClosedPanel EXCEPT !.phase = "loading", !.kind = k, !.target = n,
                                             !.request = revision + 1]
             /\ Send(<<>>, "prepare", n, u)
        BY <1>1 DEF Begin
    <2>0. (IF k \in Deletes THEN 1 .. last ELSE {0}) \subseteq Nat
        BY DEF LinkTypes, RockTyped
    <2>2. PICK n \in Nat :
             /\ panel' = [ClosedPanel EXCEPT !.phase = "loading", !.kind = k, !.target = n,
                                             !.request = revision + 1]
             /\ Send(<<>>, "prepare", n, u)
        BY <2>0, <2>1
    <2>3. panel' \in Panel /\ <<>> \in Seq(PanelLine)
        <3>1. k \in Kinds /\ revision + 1 \in Nat /\ {} \in Numbers
            BY Bounds DEF LinkTypes, PanelTyped, Numbers
        <3>2. panel' = [ClosedPanel EXCEPT !.phase = "loading", !.kind = k, !.target = n,
                                           !.request = revision + 1]
            BY <2>2
        <3>3. panel' \in Panel
            BY <3>1, <3>2 DEF ClosedPanel, Panel
        <3> QED BY <3>3
    <2>4. UNCHANGED told
        BY <1>1 DEF Begin
    <2> QED BY <2>2, <2>3, <2>4, SendTyped DEF LinkTypes, PanelTyped
<1>2. CASE Reload
    <2>1. PICK u \in Urls : Send(queue, "prepare", panel.target, u)
        BY <1>2 DEF Reload
    <2>2. panel' \in Panel /\ UNCHANGED told /\ panel.target \in Nat
        <3>1. revision + 1 \in Nat /\ {} \in Numbers
            BY Bounds DEF LinkTypes, PanelTyped, Numbers
        <3> QED BY <1>2, <3>1 DEF Reload, Panel, LinkTypes, PanelTyped
    <2> QED BY <2>1, <2>2, SendTyped DEF LinkTypes, PanelTyped, ConnectionTyped
<1>3. CASE Save
    <2>1. /\ panel' = [panel EXCEPT !.phase = "saving", !.request = revision + 1]
          /\ told' = [told EXCEPT ![revision + 1] = "open"]
          /\ \E u \in Urls, n \in CASE panel.kind = "link" -> panel.offered
                                    [] panel.kind = "section" -> Names
                                    [] OTHER -> {0} :
                Send(queue, "commit", n, u)
        BY <1>3 DEF Save
    <2>2. PICK u \in Urls, n \in Nat : Send(queue, "commit", n, u)
        <3>1. (CASE panel.kind = "link" -> panel.offered
                 [] panel.kind = "section" -> Names
                 [] OTHER -> {0}) \subseteq Nat
            BY DEF Names, LinkTypes, PanelTyped, Panel, Numbers
        <3> QED BY <2>1, <3>1
    <2>3. panel' \in Panel
        <3>1. revision + 1 \in Nat
            BY Bounds DEF LinkTypes, PanelTyped
        <3> QED BY <2>1, <3>1 DEF Panel, LinkTypes, PanelTyped
    <2>4. /\ ConnectionTyped' /\ ManagerTyped' /\ RockTyped'
          /\ revision' \in 0 .. MaxRequests /\ commands' \in 0 .. MaxCommands
        BY <2>2, <2>3, SendTyped DEF LinkTypes, ConnectionTyped
    <2>5. told' \in [Confirmations -> Outcomes]
        BY <2>1 DEF LinkTypes, PanelTyped, Outcomes
    <2> QED BY <2>3, <2>4, <2>5 DEF LinkTypes, PanelTyped
<1>4. CASE Close
    <2>1. ClosedPanel \in Panel
        BY DEF ClosedPanel, Panel, Kinds, Numbers
    <2>2. /\ panel' = ClosedPanel /\ queue' = <<>>
          /\ UNCHANGED <<revision, commands, told, socket, wire, answers, task, managerVars, rockVars>>
        BY <1>4 DEF Close
    <2>3. PanelTyped'
        BY <2>1, <2>2 DEF LinkTypes, PanelTyped
    <2>4. ConnectionTyped'
        <3>1. <<>> \in Seq(PanelLine)
            OBVIOUS
        <3> QED BY <2>2, <3>1 DEF LinkTypes, ConnectionTyped
    <2> QED BY <2>2, <2>3, <2>4, Still DEF LinkTypes
<1>5. CASE Receive
    <2>1. answers # <<>> /\ Head(answers) \in Answer /\ Tail(answers) \in Seq(Answer)
        BY <1>5, HeadTailProperties DEF Receive, LinkTypes, ConnectionTyped
    <2>2. PICK a \in Answer : a = Head(answers)
        BY <2>1
    <2>3. \A o \in {"unknown", "not_done", "done", "found"} :
             Tell(o) => told' \in [Confirmations -> Outcomes]
        BY DEF Tell, LinkTypes, PanelTyped, Outcomes
    <2>4. ClosedPanel \in Panel /\ Interrupted(panel) \in Panel
        BY DEF ClosedPanel, Panel, Kinds, Numbers, Interrupted, LinkTypes, PanelTyped
    <2>5. \/ panel' = Interrupted(panel) /\ Tell("unknown")
          \/ UNCHANGED <<panel, told>>
          \/ panel' = ClosedPanel /\ Tell("done")
          \/ panel' = ClosedPanel /\ Tell("found")
          \/ /\ panel' = [panel EXCEPT !.phase = "form", !.draft = a.draft, !.offered = a.offered]
             /\ UNCHANGED told
          \/ /\ panel' = [panel EXCEPT !.phase = "form", !.draft = 0]
             /\ Tell("unknown") \/ Tell("not_done")
        BY <1>5, <2>2 DEF Receive
    <2>6. PanelTyped'
        <3>1. UNCHANGED <<revision, commands>>
            BY <1>5 DEF Receive
        <3>2. panel' \in Panel
            <4>1. [panel EXCEPT !.phase = "form", !.draft = a.draft, !.offered = a.offered] \in Panel
                BY DEF Panel, Answer, LinkTypes, PanelTyped
            <4>2. [panel EXCEPT !.phase = "form", !.draft = 0] \in Panel
                BY DEF Panel, LinkTypes, PanelTyped
            <4> QED BY <2>4, <2>5, <4>1, <4>2 DEF LinkTypes, PanelTyped
        <3>3. told' \in [Confirmations -> Outcomes]
            BY <2>3, <2>5 DEF LinkTypes, PanelTyped
        <3> QED BY <3>1, <3>2, <3>3 DEF LinkTypes, PanelTyped
    <2>7. UNCHANGED <<queue, socket, wire, task, managerVars, rockVars>> /\ answers' = Tail(answers)
        BY <1>5 DEF Receive
    <2> QED BY <2>1, <2>6, <2>7 DEF LinkTypes, ConnectionTyped, ManagerTyped, TaskTyped, RockTyped,
                managerVars, rockVars, recordVars
<1> QED BY <1>1, <1>2, <1>3, <1>4, <1>5 DEF PanelStep
(* The connection and the command line.                                    *)

LEMMA DownTyped ==
    ASSUME LinkTypes, Down
    PROVE  /\ wire' \in [{"live", "lost"} -> Seq(PanelLine)] /\ answers' \in Seq(Answer)
           /\ TaskTyped'
<1>1. wire["live"] \in Seq(PanelLine) /\ wire["lost"] \in Seq(PanelLine)
    BY DEF LinkTypes, ConnectionTyped
<1>2. wire["lost"] \o wire["live"] \in Seq(PanelLine)
    BY <1>1, ConcatProperties
<1>3. wire' \in [{"live", "lost"} -> Seq(PanelLine)] /\ answers' \in Seq(Answer)
    <2>1. /\ answers' = <<>>
          /\ wire' = [wire EXCEPT !["live"] = <<>>, !["lost"] = wire["lost"] \o wire["live"]]
        BY DEF Down
    <2>2. wire \in [{"live", "lost"} -> Seq(PanelLine)] /\ <<>> \in Seq(PanelLine) /\ <<>> \in Seq(Answer)
        BY DEF LinkTypes, ConnectionTyped
    <2> QED BY <1>2, <2>1, <2>2
<1>4. CASE task = NoTask
    BY <1>3, <1>4 DEF Down, TaskTyped
<1>5. CASE task # NoTask
    <2>1. task \in Task /\ TaskTyped
        BY <1>5 DEF LinkTypes, ManagerTyped, TaskTyped
    <2>2. PICK b \in BOOLEAN : task' = [task EXCEPT !.live = b]
        <3>1. task' = [task EXCEPT !.live = (task.live /\ task.line.id \in Commands)]
            BY <1>5 DEF Down
        <3>2. (task.live /\ task.line.id \in Commands) \in BOOLEAN
            OBVIOUS
        <3> QED BY <3>1, <3>2
    <2>3. task' \in Task /\ task'.step = task.step /\ task'.draft = task.draft /\ task'.owner = task.owner
        BY <2>1, <2>2 DEF Task
    <2> QED BY <1>3, <1>5, <2>1, <2>3 DEF TaskTyped
<1> QED BY <1>4, <1>5

LEMMA StartedTyped ==
    ASSUME NEW line \in Line, NEW live \in BOOLEAN, NEW grants \in SUBSET Actions, NEW t,
           t = Started(line, live, grants)
    PROVE  /\ t \in Task /\ t # NoTask /\ t.step = "begin" /\ t.line = line /\ t.grants = grants
           /\ t.draft = {} /\ t.owner = 0 /\ ~t.raced
<1>1. t.step = "begin" /\ t.line = line /\ t.grants = grants /\ t.draft = {} /\ t.owner = 0 /\ ~t.raced
    BY DEF Started
<1>2. t # NoTask
    BY <1>1 DEF NoTask
<1>3. t \in Task
    <2>1. {} \in SUBSET GoodDraft /\ "begin" \in Steps /\ 0 \in Accounts \cup {0} /\ FALSE \in BOOLEAN
        BY DEF Steps
    <2>2. t = [step |-> "begin", live |-> live, line |-> line, grants |-> grants, owner |-> 0,
               draft |-> {}, place |-> 0, made |-> 0, raced |-> FALSE]
        BY DEF Started
    <2> HIDE DEF GoodDraft, Steps
    <2> QED BY <2>1, <2>2 DEF Task
<1> QED BY <1>1, <1>2, <1>3

LEMMA ConnectionTypes ==
    ASSUME LinkTypes, ConnectionStep
    PROVE  LinkTypes'
<1>1. CASE Connect
    <2>1. PICK n \in 0 .. Len(queue) :
            /\ queue' = SubSeq(queue, n + 1, Len(queue))
            /\ socket' = IF n = Len(queue) THEN "up" ELSE "failed"
            /\ wire' = [wire EXCEPT ![IF n = Len(queue) THEN "live" ELSE "lost"] =
                                        @ \o SubSeq(queue, 1, n)]
        BY <1>1 DEF Connect
    <2>2. queue \in Seq(PanelLine) /\ Len(queue) \in Nat /\ n \in Nat /\ n <= Len(queue)
        BY DEF LinkTypes, ConnectionTyped
    <2>3. SubSeq(queue, n + 1, Len(queue)) \in Seq(PanelLine) /\ SubSeq(queue, 1, n) \in Seq(PanelLine)
        BY <2>2, SubSeqProperties
    <2>4. PICK c \in {"live", "lost"} : wire' = [wire EXCEPT ![c] = wire[c] \o SubSeq(queue, 1, n)]
        BY <2>1
    <2>5. wire[c] \in Seq(PanelLine)
        BY DEF LinkTypes, ConnectionTyped
    <2>6. wire[c] \o SubSeq(queue, 1, n) \in Seq(PanelLine)
        BY <2>3, <2>5, ConcatProperties
    <2>7. UNCHANGED <<clientVars, answers, task, managerVars, rockVars>>
        BY <1>1 DEF Connect
    <2>8. ConnectionTyped'
        BY <2>1, <2>3, <2>4, <2>6, <2>7 DEF LinkTypes, ConnectionTyped
    <2> QED BY <2>7, <2>8 DEF LinkTypes, PanelTyped, ManagerTyped, TaskTyped, RockTyped, clientVars,
                managerVars, rockVars, recordVars
<1>2. CASE Disconnect
    BY <1>2, DownTyped DEF Disconnect, LinkTypes, PanelTyped, ConnectionTyped, ManagerTyped, RockTyped,
        clientVars, managerVars, rockVars, recordVars
<1>3. CASE ConnectionFailed
    <2>1. /\ Down /\ socket' = "down" /\ queue' = <<>> /\ panel' = Interrupted(panel)
          /\ Tell("unknown") /\ UNCHANGED <<revision, commands, managerVars, rockVars>>
        BY <1>3 DEF ConnectionFailed
    <2>2. Interrupted(panel) \in Panel
        BY DEF Interrupted, Panel, LinkTypes, PanelTyped
    <2>3. told' \in [Confirmations -> Outcomes]
        BY <2>1 DEF Tell, LinkTypes, PanelTyped, Outcomes
    <2> QED BY <2>1, <2>2, <2>3, DownTyped DEF LinkTypes, PanelTyped, ConnectionTyped, ManagerTyped,
                RockTyped, managerVars, rockVars, recordVars
<1> QED BY <1>1, <1>2, <1>3 DEF ConnectionStep

LEMMA CommandTypes ==
    ASSUME LinkTypes, CommandStep
    PROVE  LinkTypes'
<1>1. CASE Command
    <2>1. PICK op \in {"prepare", "commit"}, k \in Asked, n \in 0 .. MaxRecords, u \in Urls,
               d \in 0 .. MaxRequests + commands :
          \E grants \in SUBSET (IF k \in Deletes THEN {"deleteLinks", "deleteSections"}
                                                ELSE {"addLinks", "addSections"}) :
            /\ (d = 0) = (op = "prepare") /\ d \notin Requests
            /\ op = "prepare" => grants = {} /\ n \in IF k \in Deletes THEN 1 .. last ELSE {0}
            /\ op = "commit" /\ k \in Deletes => n = 0
            /\ LET line == [op |-> op, kind |-> k, id |-> MaxRequests + commands + 1,
                            draft |-> d, target |-> n, url |-> u] IN
                /\ task' = Started(line, TRUE, grants)
                /\ told' = [told EXCEPT ![line.id] = IF op = "commit" THEN "open" ELSE @]
        BY <1>1 DEF Command
    <2> DEFINE line == [op |-> op, kind |-> k, id |-> MaxRequests + commands + 1,
                        draft |-> d, target |-> n, url |-> u]
    <2>2. /\ commands < MaxCommands /\ commands' = commands + 1
          /\ UNCHANGED <<panel, revision, connectionVars, managerVars, rockVars>>
        BY <1>1 DEF Command
    <2>3. MaxRequests + commands + 1 \in Commands /\ commands' \in 0 .. MaxCommands
        BY <2>2, Bounds DEF LinkTypes, PanelTyped, Commands
    <2>4. k \in Kinds /\ n \in Nat /\ d \in Nat /\ MaxRequests + commands + 1 \in Confirmations
        BY <2>3, Bounds DEF LinkTypes, PanelTyped
    <2>5. line \in Line /\ line.id = MaxRequests + commands + 1
        BY <2>4 DEF Line
    <2>6. PICK grants \in SUBSET Actions :
            /\ task' = Started(line, TRUE, grants)
            /\ told' = [told EXCEPT ![line.id] = IF op = "commit" THEN "open" ELSE @]
        BY <2>1 DEF Actions
    <2> HIDE DEF line
    <2>7. TaskTyped'
        <3>1. task' \in Task /\ task'.step = "begin"
            <4>1. PICK live \in BOOLEAN : task' = Started(line, live, grants)
                BY <2>6
            <4>2. line \in Line
                BY <2>5
            <4> QED BY <4>1, <4>2, StartedTyped
        <3> QED BY <3>1 DEF TaskTyped
    <2>8. told' \in [Confirmations -> Outcomes]
        <3> DEFINE o == IF op = "commit" THEN "open" ELSE told[line.id]
        <3>1. told' = [told EXCEPT ![line.id] = o]
            BY <2>6
        <3>2. o \in Outcomes \/ o = told[line.id]
            BY DEF Outcomes
        <3>3. line.id \in Confirmations
            BY <2>4, <2>5
        <3> HIDE DEF o
        <3> QED BY <3>1, <3>2, <3>3, ToldTyped DEF LinkTypes, PanelTyped
    <2> QED BY <2>2, <2>3, <2>7, <2>8 DEF LinkTypes, PanelTyped, ConnectionTyped, ManagerTyped,
                RockTyped, connectionVars, managerVars, rockVars, recordVars
<1>2. CASE CommandTimeout
    <2>1. /\ task # NoTask /\ task' = [task EXCEPT !.live = FALSE]
          /\ told' = [told EXCEPT ![task.line.id] = IF @ = "open" THEN "unknown" ELSE @]
          /\ UNCHANGED <<panel, revision, commands, connectionVars, managerVars, rockVars>>
        BY <1>2 DEF CommandTimeout
    <2>2. task \in Task /\ TaskTyped
        BY <2>1 DEF LinkTypes, ManagerTyped, TaskTyped
    <2>3. task' \in Task /\ task'.step = task.step /\ task'.draft = task.draft /\ task'.owner = task.owner
        BY <2>1, <2>2 DEF Task
    <2>4. TaskTyped'
        BY <2>1, <2>2, <2>3 DEF TaskTyped
    <2>5. told' \in [Confirmations -> Outcomes]
        <3> DEFINE o == IF told[task.line.id] = "open" THEN "unknown" ELSE told[task.line.id]
        <3>1. told' = [told EXCEPT ![task.line.id] = o]
            BY <2>1
        <3>2. o \in Outcomes \/ o = told[task.line.id]
            BY DEF Outcomes
        <3>3. task.line.id \in Confirmations
            BY <2>2 DEF Task, Line
        <3> HIDE DEF o
        <3> QED BY <3>1, <3>2, <3>3, ToldTyped DEF LinkTypes, PanelTyped
    <2> QED BY <2>1, <2>4, <2>5 DEF LinkTypes, PanelTyped, ConnectionTyped, ManagerTyped,
                RockTyped, connectionVars, managerVars, rockVars, recordVars
<1> QED BY <1>1, <1>2 DEF CommandStep
(* The broker.                                                             *)

States == {"done", "found", "draft", "error", "uncertain", "bare"}

LEMMA TaskKnown ==
    ASSUME LinkTypes, task # NoTask
    PROVE  /\ task \in Task /\ task.line \in Line /\ task.line.id \in Confirmations
           /\ task.line.kind \in Kinds /\ task.line.url \in Urls /\ task.line.target \in Nat
           /\ task.line.id \in Requests \/ task.line.id \in Commands
           /\ task.step # "begin" => \E d \in GoodDraft : task.draft = {d}
           /\ task.step \notin {"begin", "account"} => task.owner \in Accounts
BY DEF LinkTypes, ManagerTyped, TaskTyped, Task, Line, Confirmations

LEMMA ReplyTyped ==
    ASSUME LinkTypes, task # NoTask, NEW state \in States, NEW offered \in Numbers,
           Reply(state, offered)
    PROVE  /\ told' \in [Confirmations -> Outcomes] /\ answers' \in Seq(Answer)
           /\ task' = NoTask /\ TaskTyped'
<1> DEFINE id == task.line.id
           a == [id |-> id, state |-> state, offered |-> offered,
                 draft |-> IF state = "draft" THEN id ELSE 0]
<1>1. task' = NoTask /\ TaskTyped'
    BY DEF Reply, TaskTyped
<1>2. id \in Confirmations /\ (id \in Requests \/ id \in Commands)
    BY TaskKnown
<1>3. told \in [Confirmations -> Outcomes] /\ answers \in Seq(Answer)
    BY DEF LinkTypes, PanelTyped, ConnectionTyped
<1>4. CASE id \in Commands
    <2> DEFINE o == IF told[id] # "open" THEN told[id]
                    ELSE CASE state \in {"uncertain", "bare"} -> "unknown"
                           [] state = "error" -> "not_done"
                           [] state \in {"done", "found"} -> state
                           [] OTHER -> told[id]
    <2>1. told' = [told EXCEPT ![id] = o] /\ answers' = answers
        BY <1>4 DEF Reply
    <2>2. o \in Outcomes \/ o = told[id]
        BY DEF Outcomes, States
    <2> QED BY <1>1, <1>2, <1>3, <2>1, <2>2, ToldTyped
<1>5. CASE id \notin Commands
    <2>1. UNCHANGED told /\ answers' = IF task.live THEN Append(answers, a) ELSE answers
        BY <1>5 DEF Reply
    <2>2. id \in Requests /\ id \in Nat
        BY <1>2, <1>5, Bounds
    <2>3. a \in Answer
        BY <2>2 DEF Answer, States
    <2> HIDE DEF a
    <2>4. Append(answers, a) \in Seq(Answer)
        BY <1>3, <2>3
    <2> QED BY <1>1, <1>3, <2>1, <2>4
<1> QED BY <1>4, <1>5
(* Any step of the handler but the first one keeps the draft.              *)
LEMMA SteppedTyped ==
    ASSUME LinkTypes, task # NoTask, task.step # "begin", task' \in Task,
           task'.draft = task.draft, task'.step \notin {"begin", "account"} => task'.owner \in Accounts
    PROVE  TaskTyped'
<1>1. \E d \in GoodDraft : task.draft = {d}
    BY TaskKnown
<1> QED BY <1>1 DEF TaskTyped

LEMMA GotoTyped ==
    ASSUME LinkTypes, task # NoTask, task.step \notin {"begin", "account"},
           NEW step \in Steps \ {"begin", "account"}, Goto(step)
    PROVE  /\ TaskTyped' /\ UNCHANGED <<told, answers>>
           /\ task' \in Task /\ task' # NoTask /\ task' = [task EXCEPT !.step = step]
           /\ task'.step = step /\ task'.line = task.line /\ task'.draft = task.draft
           /\ task'.owner = task.owner /\ task'.grants = task.grants /\ task'.raced = task.raced
           /\ task'.place = task.place /\ task'.made = task.made
<1>1. task \in Task /\ task.owner \in Accounts
    BY TaskKnown
<1>2. task' = [task EXCEPT !.step = step] /\ UNCHANGED <<told, answers>>
    BY DEF Goto
<1>3. /\ task' \in Task
      /\ task'.step = step /\ task'.line = task.line /\ task'.draft = task.draft
      /\ task'.owner = task.owner /\ task'.grants = task.grants /\ task'.raced = task.raced
      /\ task'.place = task.place /\ task'.made = task.made
    BY <1>1, <1>2 DEF Task
<1>4. task' # NoTask
    BY <1>3 DEF NoTask, Steps
<1>5. TaskTyped'
    BY <1>1, <1>3, SteppedTyped
<1> QED BY <1>2, <1>3, <1>4, <1>5

LEMMA StoreTyped ==
    ASSUME NEW drafts \in Seq(GoodDraft), NEW d \in GoodDraft, NEW new \in Store(drafts, d)
    PROVE  new \in Seq(GoodDraft)
<1>1. PICK n \in 0 .. Len(drafts) :
        LET kept == SubSeq(drafts, n + 1, Len(drafts)) IN
        new = Append(IF Len(kept) >= DraftLimit THEN Tail(kept) ELSE kept, d)
    BY DEF Store
<1>2. PICK kept : kept = SubSeq(drafts, n + 1, Len(drafts))
    OBVIOUS
<1>3. kept \in Seq(GoodDraft)
    BY <1>2, SubSeqProperties
<1>4. new = Append(IF Len(kept) >= DraftLimit THEN Tail(kept) ELSE kept, d)
    BY <1>1, <1>2
<1>5. Len(kept) >= DraftLimit => Tail(kept) \in Seq(GoodDraft)
    <2>1. Len(kept) >= DraftLimit => kept # <<>>
        BY <1>3, Bounds
    <2> QED BY <1>3, <2>1, HeadTailProperties
<1>6. (IF Len(kept) >= DraftLimit THEN Tail(kept) ELSE kept) \in Seq(GoodDraft)
    BY <1>3, <1>5
<1> HIDE DEF GoodDraft
<1> QED BY <1>4, <1>6, AppendProperties

LEMMA WithoutTyped ==
    ASSUME NEW drafts \in Seq(GoodDraft)
    PROVE  Without(drafts) \in Seq(GoodDraft)
<1> DEFINE at == {i \in DOMAIN drafts : drafts[i] \in task.draft}
           i == CHOOSE j \in at : TRUE
<1>1. CASE at = {}
    BY <1>1 DEF Without
<1>2. CASE at # {}
    <2>1. i \in at
        BY <1>2
    <2>2. i \in 1 .. Len(drafts) /\ Len(drafts) \in Nat
        BY <2>1
    <2>3. Without(drafts) = SubSeq(drafts, 1, i - 1) \o SubSeq(drafts, i + 1, Len(drafts))
        BY <1>2 DEF Without, RemoveAt
    <2> HIDE DEF i, GoodDraft
    <2>4. SubSeq(drafts, 1, i - 1) \in Seq(GoodDraft)
        BY <2>2, SubSeqProperties
    <2>5. SubSeq(drafts, i + 1, Len(drafts)) \in Seq(GoodDraft)
        BY <2>2, SubSeqProperties
    <2> QED BY <2>3, <2>4, <2>5, ConcatProperties
<1> QED BY <1>1, <1>2

LEMMA ConsumeTyped ==
    ASSUME LinkTypes, Consume
    PROVE  additions' \in Seq(GoodDraft) /\ deletions' \in Seq(GoodDraft)
BY WithoutTyped DEF Consume, LinkTypes, ManagerTyped
(* What a step of the handler has to show: it either answers ...           *)
LEMMA Answered ==
    ASSUME LinkTypes, task # NoTask, NEW state \in States, NEW offered \in Numbers,
           Reply(state, offered), UNCHANGED Unread, RockTyped',
           additions' \in Seq(GoodDraft), deletions' \in Seq(GoodDraft)
    PROVE  LinkTypes' /\ TaskReads'
<1>1. /\ told' \in [Confirmations -> Outcomes] /\ answers' \in Seq(Answer)
      /\ task' = NoTask /\ TaskTyped'
    BY ReplyTyped
<1>2. UNCHANGED <<panel, revision, commands, queue, socket, wire>>
    BY DEF Unread
<1>3. PanelTyped' /\ ConnectionTyped' /\ ManagerTyped'
    BY <1>1, <1>2 DEF LinkTypes, PanelTyped, ConnectionTyped, ManagerTyped
<1> QED BY <1>1, <1>3 DEF LinkTypes, TaskReads

(* ... or goes on to another step, with what that step relies on.          *)
SameRequest ==
    /\ task'.line = task.line /\ task'.draft = task.draft /\ task'.owner = task.owner
    /\ task'.grants = task.grants /\ task'.raced = task.raced
LEMMA WentOn ==
    ASSUME LinkTypes, TaskReads, task # NoTask, task.step \notin {"begin", "account"},
           UNCHANGED Unread, UNCHANGED <<told, answers, account>>, RockTyped',
           additions' \in Seq(GoodDraft), deletions' \in Seq(GoodDraft),
           task' \in Task, task' # NoTask, SameRequest, task'.step \notin {"begin", "account"},
           StepsFit', task'.step \in {"create", "created"} => Granted({"addSections"}),
           ~task.raced => \A d \in task.draft : TargetFits(d) => TargetFits(d)'
    PROVE  LinkTypes' /\ TaskReads'
<1>1. GrantsFit /\ ReadsFit
    BY DEF TaskReads
<1>2. GrantsFit'
    BY <1>1 DEF GrantsFit, Granted, SameRequest
<1>3. PICK d \in GoodDraft :
        /\ task.draft = {d} /\ d.kind = task.line.kind
        /\ OwnerFits(d) /\ (~task.raced => TargetFits(d))
    BY <1>1 DEF ReadsFit
<1>4. OwnerFits(d)'
    BY <1>3 DEF OwnerFits, SameRequest
<1>5. ~task'.raced => TargetFits(d)'
    BY <1>3 DEF SameRequest
<1>6. ReadsFit'
    BY <1>3, <1>4, <1>5 DEF ReadsFit, SameRequest
<1>7. TaskReads'
    BY <1>2, <1>6 DEF TaskReads
<1>8. TaskTyped'
    BY TaskKnown, SteppedTyped DEF SameRequest
<1>9. UNCHANGED <<panel, revision, commands, queue, socket, wire>>
    BY DEF Unread
<1>10. PanelTyped' /\ ConnectionTyped' /\ ManagerTyped'
    BY <1>8, <1>9 DEF LinkTypes, PanelTyped, ConnectionTyped, ManagerTyped
<1> QED BY <1>7, <1>10 DEF LinkTypes
(* Nothing is learnt when only the connection of the request changes.      *)
LEMMA SameReads ==
    ASSUME LinkTypes, TaskReads, task # NoTask, task'.step = task.step, task'.place = task.place,
           SameRequest, UNCHANGED <<account, sections, links>>
    PROVE  TaskReads'
<1>1. StepsFit'
    BY DEF TaskReads, StepsFit, SameRequest
<1>2. CASE task.step = "begin"
    BY <1>1, <1>2 DEF TaskReads
<1>3. CASE task.step # "begin"
    <2>1. GrantsFit /\ ReadsFit
        BY <1>3 DEF TaskReads
    <2>2. GrantsFit'
        BY <2>1 DEF GrantsFit, Granted, SameRequest
    <2>3. PICK d \in GoodDraft :
            /\ task.draft = {d} /\ d.kind = task.line.kind
            /\ OwnerFits(d) /\ (~task.raced => TargetFits(d))
        BY <2>1 DEF ReadsFit
    <2>4. OwnerFits(d)' /\ (~task'.raced => TargetFits(d)')
        BY <2>3 DEF OwnerFits, TargetFits, WithId, In, SameRequest
    <2>5. ReadsFit'
        BY <2>3, <2>4 DEF ReadsFit, SameRequest
    <2> QED BY <1>1, <2>2, <2>5 DEF TaskReads
<1> QED BY <1>2, <1>3

LEMMA TakeLineKeeps ==
    ASSUME LinkTypes, TakeLine
    PROVE  LinkTypes' /\ TaskReads'
<1>0. PICK c \in {"live", "lost"} : \E n \in 1 .. Len(wire[c]) :
        /\ wire' = [wire EXCEPT ![c] = SubSeq(wire[c], n + 1, Len(wire[c]))]
        /\ task' = Started(wire[c][n], c = "live", Actions)
    BY DEF TakeLine
<1>1. PICK n \in 1 .. Len(wire[c]) :
        /\ wire' = [wire EXCEPT ![c] = SubSeq(wire[c], n + 1, Len(wire[c]))]
        /\ task' = Started(wire[c][n], c = "live", Actions)
    BY <1>0
<1>2. UNCHANGED <<clientVars, queue, socket, answers, managerVars, rockVars>>
    BY DEF TakeLine
<1>3. wire[c] \in Seq(PanelLine) /\ wire[c][n] \in PanelLine
    BY <1>1 DEF LinkTypes, ConnectionTyped
<1>4. wire[c][n] \in Line
    BY <1>3 DEF PanelLine
<1>5. PICK live \in BOOLEAN : task' = Started(wire[c][n], live, Actions)
    BY <1>1
<1>6. task' \in Task /\ task'.step = "begin"
    BY <1>4, <1>5, StartedTyped
<1>7. SubSeq(wire[c], n + 1, Len(wire[c])) \in Seq(PanelLine)
    <2>1. Len(wire[c]) \in Nat /\ n \in Nat /\ n <= Len(wire[c])
        BY <1>3
    <2> QED BY <1>3, <2>1, SubSeqProperties
<1>8. ConnectionTyped'
    BY <1>1, <1>2, <1>7 DEF LinkTypes, ConnectionTyped
<1>9. TaskTyped'
    BY <1>6 DEF TaskTyped
<1>10. TaskReads'
    BY <1>6 DEF TaskReads, StepsFit
<1> QED BY <1>2, <1>8, <1>9, <1>10, Still DEF LinkTypes

LEMMA CommandKeeps ==
    ASSUME LinkTypes, TaskReads, CommandStep
    PROVE  TaskReads'
<1>1. CASE Command
    <2>2. task'.step = "begin"
        BY <1>1 DEF Command, Started
    <2> QED BY <2>2 DEF TaskReads, StepsFit
<1>2. CASE CommandTimeout
    <2>1. task # NoTask /\ task' = [task EXCEPT !.live = FALSE] /\ UNCHANGED rockVars
        BY <1>2 DEF CommandTimeout
    <2>2. task'.step = task.step /\ task'.place = task.place /\ SameRequest
        BY <2>1, TaskKnown DEF Task, SameRequest
    <2> QED BY <2>1, <2>2, SameReads DEF rockVars, recordVars
<1> QED BY <1>1, <1>2 DEF CommandStep

LEMMA FailKeeps ==
    ASSUME LinkTypes, Fail
    PROVE  LinkTypes' /\ TaskReads'
<1>1. task # NoTask /\ UNCHANGED <<Unread, managerVars, rockVars>>
    BY DEF Fail, Fails, At
<1>2. PICK state \in States : Reply(state, {})
    BY DEF Fail, Fails, States
<1>3. {} \in Numbers
    BY DEF Numbers
<1> QED BY <1>1, <1>2, <1>3, Still, Answered DEF LinkTypes, ManagerTyped, managerVars

LEMMA DraftOfTask ==
    ASSUME LinkTypes, task # NoTask, NEW offered \in Numbers, NEW shown \in SUBSET (Section \cup Link),
           NEW contents \in Numbers, \A r \in shown : r.owner = account,
           task.line.kind = "delete-empty" => contents = {}
    PROVE  NewDraft(offered, shown, contents) \in GoodDraft
<1> DEFINE d == NewDraft(offered, shown, contents)
<1>1. d = [number |-> task.line.id, kind |-> task.line.kind, owner |-> account,
           offered |-> offered, target |-> IF shown = {} THEN 0 ELSE task.line.target,
           shown |-> shown, contents |-> contents]
    BY DEF NewDraft, Identity
<1>2. /\ task.line.id \in Confirmations /\ task.line.kind \in Kinds /\ account \in Accounts
      /\ (IF shown = {} THEN 0 ELSE task.line.target) \in Nat
    BY TaskKnown DEF LinkTypes, RockTyped
<1> HIDE DEF d
<1>3. d \in Draft /\ d.shown = shown /\ d.owner = account /\ d.kind = task.line.kind /\ d.contents = contents
    BY <1>1, <1>2 DEF Draft
<1> QED BY <1>3 DEF GoodDraft, d

LEMMA PrepareAdditionKeeps ==
    ASSUME LinkTypes, PrepareAddition
    PROVE  LinkTypes' /\ TaskReads'
<1>1. PICK own : own = {s.id : s \in Mine(Identity)}
    OBVIOUS
<1>2. PICK offered : offered = IF task.line.kind = "section" THEN {}
                               ELSE IF own = {} THEN {NewSection} ELSE own
    OBVIOUS
<1>3. /\ task # NoTask /\ task.line.kind # "delete-empty"
      /\ additions' \in Store(additions, NewDraft(offered, {}, {})) /\ Reply("draft", offered)
      /\ UNCHANGED <<Unread, deletions, rockVars>>
    BY <1>1, <1>2 DEF PrepareAddition, At, Is
<1>4. own \in Numbers
    BY <1>1 DEF Mine, Section, LinkTypes, RockTyped, Numbers
<1>5. offered \in Numbers /\ {} \in Numbers
    BY <1>2, <1>4 DEF Numbers, NewSection
<1>6. NewDraft(offered, {}, {}) \in GoodDraft
    BY <1>3, <1>5, DraftOfTask
<1>7. additions' \in Seq(GoodDraft) /\ deletions' \in Seq(GoodDraft)
    BY <1>3, <1>6, StoreTyped DEF LinkTypes, ManagerTyped
<1>8. RockTyped'
    BY <1>3, Still
<1> QED BY <1>3, <1>5, <1>7, <1>8, Answered DEF States

LEMMA PrepareDeletionKeeps ==
    ASSUME LinkTypes, PrepareDeletion
    PROVE  LinkTypes' /\ TaskReads'
<1> DEFINE n == task.line.target
           link == task.line.kind = "delete-link"
           record == WithId(IF link THEN links ELSE sections, n)
           home == {s \in Mine(Identity) : \E r \in record : s.id = IF link THEN r.section ELSE n}
           inside == IF link THEN {} ELSE {l.id : l \in In(n)}
<1>1. /\ task # NoTask /\ \A r \in record : r.owner = account
      /\ task.line.kind = "delete-empty" => Empty(n)
      /\ deletions' \in Store(deletions, NewDraft({}, record \cup home, inside))
      /\ Reply("draft", {}) /\ UNCHANGED <<Unread, additions, rockVars>>
    BY DEF PrepareDeletion, At, Is, Identity
<1>2. record \subseteq Section \cup Link
    BY DEF WithId, LinkTypes, RockTyped
<1>3. home \subseteq Section /\ \A s \in home : s.owner = account
    BY DEF Mine, Identity, LinkTypes, RockTyped
<1>4. inside \in Numbers /\ {} \in Numbers
    BY DEF In, Link, LinkTypes, RockTyped, Numbers
<1>5. task.line.kind = "delete-empty" => inside = {}
    BY <1>1 DEF Empty
<1> HIDE DEF record, home, inside
<1>6. record \cup home \in SUBSET (Section \cup Link) /\ \A r \in record \cup home : r.owner = account
    BY <1>1, <1>2, <1>3
<1>7. NewDraft({}, record \cup home, inside) \in GoodDraft
    BY <1>1, <1>4, <1>5, <1>6, DraftOfTask
<1>8. additions' \in Seq(GoodDraft) /\ deletions' \in Seq(GoodDraft)
    BY <1>1, <1>7, StoreTyped DEF LinkTypes, ManagerTyped
<1>9. RockTyped'
    BY <1>1, Still
<1> QED BY <1>1, <1>4, <1>8, <1>9, Answered DEF States
LEMMA CommitDraftKeeps ==
    ASSUME LinkTypes, CommitDraft
    PROVE  /\ LinkTypes' /\ TaskReads'
           /\ task' # NoTask /\ task'.line = task.line /\ task'.step = "account"
<1>1. PICK d \in ToSet(additions) \cup ToSet(deletions) :
        /\ d.kind = task.line.kind /\ Granted(Needs(d.kind))
        /\ task' = [task EXCEPT !.step = "account", !.draft = {d}]
    BY DEF CommitDraft
<1>2. /\ task # NoTask /\ task.line.op = "commit"
      /\ UNCHANGED <<Unread, told, answers, managerVars, rockVars>>
    BY DEF CommitDraft, At, Is
<1>3. d \in GoodDraft
    BY DEF ToSet, LinkTypes, ManagerTyped
<1>4. /\ task' \in Task /\ task'.step = "account" /\ task'.draft = {d} /\ task'.line = task.line
      /\ task'.grants = task.grants
    <2>1. {d} \in SUBSET GoodDraft /\ "account" \in Steps
        BY <1>3 DEF Steps
    <2> HIDE DEF GoodDraft
    <2> QED BY <1>1, <1>2, <2>1, TaskKnown DEF Task
<1>5. task' # NoTask
    BY <1>4 DEF NoTask
<1>6. TaskTyped'
    BY <1>3, <1>4 DEF TaskTyped
<1>7. TaskReads'
    <2>1. GrantsFit'
        BY <1>1, <1>4 DEF GrantsFit, Granted
    <2>2. OwnerFits(d)' /\ TargetFits(d)'
        BY <1>4 DEF OwnerFits, TargetFits
    <2>3. ReadsFit'
        BY <1>1, <1>3, <1>4, <2>2 DEF ReadsFit
    <2>4. StepsFit'
        BY <1>2, <1>4 DEF StepsFit
    <2> QED BY <2>1, <2>3, <2>4 DEF TaskReads
<1>8. UNCHANGED <<clientVars, connectionVars>>
    BY <1>2 DEF Unread, clientVars, connectionVars
<1> QED BY <1>2, <1>4, <1>5, <1>6, <1>7, <1>8, Still DEF LinkTypes

LEMMA CommitAccountKeeps ==
    ASSUME LinkTypes, TaskReads, CommitAccount
    PROVE  LinkTypes' /\ TaskReads'
<1>1. task # NoTask /\ task.step = "account" /\ UNCHANGED <<Unread, rockVars>>
    BY DEF CommitAccount, At
<1>2. StepsFit /\ GrantsFit /\ ReadsFit
    BY <1>1 DEF TaskReads
<1>3. PICK d \in GoodDraft : task.draft = {d} /\ d.kind = task.line.kind
    BY <1>2 DEF ReadsFit
<1>4. CASE account = d.owner
    <2>1. /\ task' = [task EXCEPT !.owner = account,
                         !.step = IF d.kind \in Deletes THEN "record" ELSE "sections"]
          /\ UNCHANGED <<told, answers, managerVars>>
        BY <1>3, <1>4 DEF CommitAccount, Identity
    <2>2. PICK step \in {"record", "sections"} :
            /\ step = IF d.kind \in Deletes THEN "record" ELSE "sections"
            /\ task' = [task EXCEPT !.owner = account, !.step = step]
        BY <2>1
    <2>3. task \in Task /\ account \in Accounts
        BY <1>1, TaskKnown DEF LinkTypes, RockTyped
    <2>4. /\ task' \in Task /\ task'.step = step /\ task'.owner = account /\ task'.draft = task.draft
          /\ task'.line = task.line /\ task'.grants = task.grants /\ task'.raced = task.raced
        BY <2>2, <2>3 DEF Task, Steps
    <2>5. TaskTyped'
        BY <1>1, <2>3, <2>4, SteppedTyped
    <2>6. StepsFit' /\ GrantsFit'
        BY <1>1, <1>2, <1>3, <2>2, <2>4 DEF StepsFit, GrantsFit, Granted
    <2>7. OwnerFits(d)' /\ TargetFits(d)'
        <3>1. account' = account
            BY <1>1 DEF rockVars
        <3>2. step = "sections" => task.line.kind \notin Deletes
            BY <1>3, <2>2
        <3> QED BY <1>4, <2>4, <3>1, <3>2 DEF OwnerFits, TargetFits, Deletes
    <2>8. ReadsFit'
        BY <1>3, <2>4, <2>7 DEF ReadsFit
    <2>9. UNCHANGED <<clientVars, connectionVars>>
        BY <1>1, <2>1 DEF Unread, clientVars, connectionVars
    <2> QED BY <1>1, <2>1, <2>5, <2>6, <2>8, <2>9, Still DEF LinkTypes, TaskReads
<1>5. CASE account # d.owner
    <2>1. additions' = <<>> /\ deletions' = <<>> /\ Reply("error", {})
        BY <1>3, <1>5 DEF CommitAccount, Identity
    <2>2. {} \in Numbers /\ "error" \in States
        BY DEF Numbers, States
    <2>3. additions' \in Seq(GoodDraft) /\ deletions' \in Seq(GoodDraft)
        BY <2>1
    <2> QED BY <1>1, <2>1, <2>2, <2>3, Still, Answered
<1> QED BY <1>4, <1>5

LEMMA CommitSectionsKeeps ==
    ASSUME LinkTypes, TaskReads, CommitSections
    PROVE  LinkTypes' /\ TaskReads'
<1> DEFINE own == Mine(task.owner)
           chosen == task.line.target
           place == CASE task.line.kind = "section" -> Named(own, chosen)
                      [] task.line.kind = "link" /\ chosen = NewSection -> Named(own, 1)
                      [] OTHER -> WithId(own, chosen)
           number == IF place = {} THEN 0 ELSE Min({s.id : s \in place})
<1>1. /\ task # NoTask /\ task.step = "sections" /\ task.line.kind \in {"link", "section"}
      /\ place = {} /\ task.line.kind = "link" => Granted({"addSections"})
      /\ IF place # {} /\ task.line.kind = "section"
           THEN Reply("found", {})
           ELSE /\ task' = [task EXCEPT !.place = number, !.step = IF place = {} THEN "create" ELSE "look"]
                /\ UNCHANGED <<told, answers>>
      /\ Consume /\ UNCHANGED <<Unread, rockVars>>
    BY DEF CommitSections, At, Is
<1>2. place \subseteq Section
    BY DEF Named, WithId, Mine, LinkTypes, RockTyped
<1>3. number \in Nat
    <2>1. CASE place = {}
        BY <2>1
    <2>2. CASE place # {}
        <3> DEFINE T == {s.id : s \in place}
        <3>1. T \subseteq Nat /\ T # {}
            BY <1>2, <2>2 DEF Section
        <3> HIDE DEF T
        <3>2. Min(T) \in Nat
            BY <3>1, LeastNumber
        <3> QED BY <2>2, <3>2 DEF T
    <2> QED BY <2>1, <2>2
<1> HIDE DEF place, number
<1>4. /\ additions' \in Seq(GoodDraft) /\ deletions' \in Seq(GoodDraft) /\ RockTyped'
      /\ {} \in Numbers /\ "found" \in States
    BY <1>1, ConsumeTyped, Still DEF Numbers, States
<1>5. CASE place # {} /\ task.line.kind = "section"
    BY <1>1, <1>4, <1>5, Answered
<1>6. CASE ~(place # {} /\ task.line.kind = "section")
    <2>1. PICK step \in {"create", "look"} :
            /\ step = IF place = {} THEN "create" ELSE "look"
            /\ task' = [task EXCEPT !.place = number, !.step = step]
        BY <1>1, <1>6
    <2>2. /\ task' \in Task /\ task'.step = step /\ task'.owner = task.owner /\ task'.draft = task.draft
          /\ task'.line = task.line /\ task'.grants = task.grants /\ task'.raced = task.raced
        BY <1>1, <1>3, <2>1, TaskKnown DEF Task, Steps
    <2>3. task' # NoTask
        BY <2>2 DEF NoTask
    <2>4. StepsFit'
        <3>1. task.line.op = "commit"
            BY <1>1 DEF TaskReads, StepsFit
        <3> QED BY <1>1, <1>6, <2>1, <2>2, <3>1 DEF StepsFit
    <2>5. step = "create" => Granted({"addSections"})
        <3>1. CASE task.line.kind = "section"
            BY <1>1, <3>1 DEF TaskReads, GrantsFit, Needs
        <3> QED BY <1>1, <2>1, <3>1
    <2>6. \A d \in task.draft : TargetFits(d)'
        BY <1>1, <2>2 DEF TargetFits, Deletes
    <2>7. UNCHANGED <<told, answers, account>>
        BY <1>1, <1>6 DEF rockVars
    <2> QED BY <1>1, <1>4, <2>2, <2>3, <2>4, <2>5, <2>6, <2>7, WentOn DEF SameRequest
<1> QED BY <1>5, <1>6
LEMMA CommitRecordKeeps ==
    ASSUME LinkTypes, TaskReads, CommitRecord
    PROVE  LinkTypes' /\ TaskReads'
<1>1. /\ task # NoTask /\ task.step = "record" /\ task.line.kind \in Deletes
      /\ UNCHANGED <<Unread, rockVars>>
    BY DEF CommitRecord, At, Is
<1>2. PICK d \in task.draft :
        LET record == WithId(IF d.kind = "delete-link" THEN links ELSE sections, d.target) IN
        IF record = {}
          THEN Consume /\ Reply("found", {})
          ELSE record \subseteq d.shown /\ Goto("sections") /\ UNCHANGED managerVars
    BY DEF CommitRecord
<1>3. PICK record : record = WithId(IF d.kind = "delete-link" THEN links ELSE sections, d.target)
    OBVIOUS
<1>4. RockTyped' /\ {} \in Numbers /\ "found" \in States
    BY <1>1, Still DEF Numbers, States
<1>5. CASE record = {}
    BY <1>1, <1>2, <1>3, <1>4, <1>5, ConsumeTyped, Answered
<1>6. CASE record # {}
    <2>1. record \subseteq d.shown /\ Goto("sections") /\ UNCHANGED managerVars
        BY <1>2, <1>3, <1>6
    <2>2. /\ UNCHANGED <<told, answers>> /\ task' \in Task /\ task' # NoTask /\ SameRequest
          /\ task'.step = "sections"
        BY <1>1, <2>1, GotoTyped DEF Steps, SameRequest
    <2>3. StepsFit'
        <3>1. task.line.op = "commit"
            BY <1>1 DEF TaskReads, StepsFit
        <3> QED BY <2>2, <3>1 DEF StepsFit, SameRequest
    <2>4. \A e \in task.draft : e = d /\ e.kind = task.line.kind
        BY <1>1 DEF TaskReads, ReadsFit
    <2>5. TargetFits(d)'
        <3>1. UNCHANGED <<links, sections>>
            BY <1>1 DEF rockVars, recordVars
        <3>2. WithId(IF task.line.kind = "delete-link" THEN links ELSE sections, d.target)' \subseteq d.shown
            BY <1>3, <2>1, <2>2, <2>4, <3>1 DEF WithId, SameRequest
        <3> QED BY <1>1, <2>2, <3>1, <3>2 DEF TargetFits, SameRequest, Deletes
    <2>6. UNCHANGED account /\ UNCHANGED <<additions, deletions>>
        BY <1>1, <2>1 DEF rockVars, managerVars
    <2> QED BY <1>1, <1>4, <2>2, <2>3, <2>4, <2>5, <2>6, WentOn DEF LinkTypes, ManagerTyped
<1> QED BY <1>5, <1>6

LEMMA CommitScopeKeeps ==
    ASSUME LinkTypes, TaskReads, CommitScope
    PROVE  LinkTypes' /\ TaskReads'
<1>1. /\ task # NoTask /\ task.step = "sections" /\ task.line.kind \in Deletes
      /\ UNCHANGED <<Unread, rockVars>>
      /\ IF task.line.kind = "delete-link" THEN Consume /\ Goto("write")
                                            ELSE Goto("contents") /\ UNCHANGED managerVars
    BY DEF CommitScope, At, Is
<1>2. PICK step \in {"write", "contents"} :
        step = (IF task.line.kind = "delete-link" THEN "write" ELSE "contents") /\ Goto(step)
    BY <1>1
<1>3. /\ UNCHANGED <<told, answers>> /\ task' \in Task /\ task' # NoTask /\ SameRequest
      /\ task'.step = step
    BY <1>1, <1>2, GotoTyped DEF Steps, SameRequest
<1>4. StepsFit'
    <2>1. task.line.op = "commit"
        BY <1>1 DEF TaskReads, StepsFit
    <2> QED BY <1>1, <1>2, <1>3, <2>1 DEF StepsFit, SameRequest, Deletes
<1>5. \A d \in task.draft : TargetFits(d) => TargetFits(d)'
    <2>1. UNCHANGED <<links, sections>>
        BY <1>1 DEF rockVars, recordVars
    <2> QED BY <1>1, <1>2, <1>3, <2>1 DEF TargetFits, SameRequest, WithId, Deletes
<1>6. additions' \in Seq(GoodDraft) /\ deletions' \in Seq(GoodDraft)
    BY <1>1, ConsumeTyped DEF LinkTypes, ManagerTyped, managerVars
<1>7. RockTyped' /\ UNCHANGED account
    BY <1>1, Still DEF rockVars
<1> QED BY <1>1, <1>2, <1>3, <1>4, <1>5, <1>6, <1>7, WentOn

LEMMA CommitContentsKeeps ==
    ASSUME LinkTypes, TaskReads, CommitContents
    PROVE  LinkTypes' /\ TaskReads'
<1>1. /\ task # NoTask /\ task.step = "contents" /\ UNCHANGED <<Unread, rockVars>>
      /\ Consume /\ Goto("write")
    BY DEF CommitContents, At
<1>2. PICK d \in task.draft : IF d.kind = "delete-empty" THEN Empty(d.target)
                                   ELSE {l.id : l \in In(d.target)} = d.contents
    BY DEF CommitContents
<1>3. StepsFit /\ GrantsFit /\ ReadsFit
    BY <1>1 DEF TaskReads
<1>4. task.line.kind \in {"delete-section", "delete-empty"} /\ task.line.op = "commit"
    BY <1>1, <1>3 DEF StepsFit
<1>5. task.draft = {d} /\ d.kind = task.line.kind /\ d \in GoodDraft
    BY <1>3 DEF ReadsFit
<1>6. {l.id : l \in In(d.target)} = d.contents
    <2>1. CASE d.kind = "delete-empty"
        <3>1. In(d.target) = {} /\ d.contents = {}
            BY <1>2, <1>5, <2>1 DEF Empty, GoodDraft
        <3> QED BY <3>1
    <2> QED BY <1>2, <2>1
<1>7. /\ UNCHANGED <<told, answers>> /\ task' \in Task /\ task' # NoTask /\ SameRequest
      /\ task'.step = "write"
    BY <1>1, GotoTyped DEF Steps, SameRequest
<1>8. StepsFit'
    BY <1>4, <1>7 DEF StepsFit, SameRequest
<1>9. TargetFits(d) => TargetFits(d)'
    <2>1. UNCHANGED <<links, sections>>
        BY <1>1 DEF rockVars, recordVars
    <2>2. ({l.id : l \in In(d.target)} = d.contents)'
        BY <1>6, <2>1 DEF In
    <2> QED BY <1>1, <1>4, <1>7, <2>1, <2>2 DEF TargetFits, SameRequest, WithId, Deletes
<1>10. additions' \in Seq(GoodDraft) /\ deletions' \in Seq(GoodDraft)
    BY <1>1, ConsumeTyped
<1>11. RockTyped' /\ UNCHANGED account
    BY <1>1, Still DEF rockVars
<1> QED BY <1>1, <1>5, <1>7, <1>8, <1>9, <1>10, <1>11, WentOn

(* What has been written is read again, or the section looked through.     *)
LEMMA ReadAgainKeeps ==
    ASSUME LinkTypes, TaskReads, SectionCreated \/ LookForLink \/ VerifyLink \/ VerifyDeletion
    PROVE  LinkTypes' /\ TaskReads'
<1>1. /\ task # NoTask /\ task.step \in {"created", "look", "verify"}
      /\ UNCHANGED <<Unread, managerVars, rockVars>>
    BY DEF SectionCreated, LookForLink, VerifyLink, VerifyDeletion, At
<1>2. /\ additions' \in Seq(GoodDraft) /\ deletions' \in Seq(GoodDraft) /\ RockTyped'
      /\ {} \in Numbers /\ UNCHANGED <<account, sections, links>>
    BY <1>1, Still DEF Numbers, LinkTypes, ManagerTyped, managerVars, rockVars, recordVars
<1>3. CASE \E state \in States : Reply(state, {})
    BY <1>1, <1>2, <1>3, Answered
<1>4. ASSUME NEW step \in {"look", "write"}, Goto(step), task.line.kind = "link",
             step = "write" => \A l \in In(task.place) : l.owner = task.owner => l.url # task.line.url
      PROVE  LinkTypes' /\ TaskReads'
    <2>1. /\ UNCHANGED <<told, answers>> /\ task' \in Task /\ task' # NoTask /\ SameRequest
          /\ task'.step = step /\ task'.place = task.place
        BY <1>1, <1>4, GotoTyped DEF Steps, SameRequest
    <2>2. StepsFit'
        <3>1. task.line.op = "commit"
            BY <1>1 DEF TaskReads, StepsFit
        <3> QED BY <1>4, <2>1, <3>1 DEF StepsFit, SameRequest
    <2>3. \A d \in task.draft : TargetFits(d)'
        <3>1. (\A l \in In(task.place) : l.owner = task.owner => l.url # task.line.url)'
                 \/ step = "look"
            BY <1>2, <1>4, <2>1 DEF In, SameRequest
        <3> QED BY <1>4, <2>1, <3>1 DEF TargetFits, SameRequest, Deletes
    <2> QED BY <1>1, <1>2, <1>4, <2>1, <2>2, <2>3, WentOn
<1>5. CASE SectionCreated
    <2>1. \/ \E state \in States : Reply(state, {})
          \/ task.step = "created" /\ task.line.kind # "section" /\ Goto("look")
        <3>1. \/ Reply("uncertain", {}) \/ Reply("done", {})
              \/ task.step = "created" /\ task.line.kind # "section" /\ Goto("look")
            BY <1>5 DEF SectionCreated, At
        <3> QED BY <3>1 DEF States
    <2>2. CASE task.step = "created" /\ task.line.kind # "section" /\ Goto("look")
        <3>1. task.line.kind = "link"
            BY <1>1, <2>2 DEF TaskReads, StepsFit
        <3> QED BY <1>4, <2>2, <3>1
    <2> QED BY <1>3, <2>1, <2>2
<1>6. CASE LookForLink
    <2>1. task.line.kind = "link"
        BY <1>1, <1>6 DEF LookForLink, At, TaskReads, StepsFit
    <2> QED BY <1>3, <1>4, <1>6, <2>1 DEF LookForLink, States
<1>7. CASE VerifyLink \/ VerifyDeletion
    BY <1>3, <1>7 DEF VerifyLink, VerifyDeletion, States
<1> QED BY <1>5, <1>6, <1>7
(* The writes.                                                             *)

LEMMA WritingTyped ==
    ASSUME LinkTypes, TaskReads, task # NoTask, task.step \in {"create", "write"}
    PROVE  /\ Writing \in Write /\ Writing.id = task.line.id /\ Writing.owner = task.owner
           /\ Writing.url = task.line.url
           /\ task.step = "create" => /\ Writing.kind = "section"
                                      /\ Writing.counts = (task.line.kind = "section")
           /\ task.step = "write" => /\ Writing.kind = task.line.kind /\ Writing.counts
                                     /\ task.line.kind \notin Deletes => Writing.place = task.place
                                     /\ task.line.kind \in Deletes =>
                                          \A d \in task.draft : Writing.place = d.target
<1>1. PICK d \in GoodDraft : task.draft = {d}
    BY TaskKnown
<1>2. task \in Task /\ task.owner \in Accounts /\ task.place \in Nat /\ d.target \in Nat
    BY TaskKnown DEF Task, GoodDraft, Draft
<1> DEFINE first == CHOOSE e \in task.draft : TRUE
           kind == IF At("create") THEN "section" ELSE task.line.kind
           counts == At("write") \/ task.line.kind = "section"
           name == IF task.line.kind = "section" THEN task.line.target ELSE 1
           place == IF task.line.kind \in Deletes THEN first.target ELSE task.place
<1>3. Writing = [id |-> task.line.id, owner |-> task.owner, url |-> task.line.url, kind |-> kind,
                 counts |-> counts, name |-> name, place |-> place]
    BY DEF Writing
<1>4. first = d
    BY <1>1
<1> HIDE DEF first
<1>5. kind \in Kinds /\ name \in Int /\ place \in Nat /\ counts \in BOOLEAN
    BY <1>2, <1>4, TaskKnown DEF Kinds
<1>6. /\ task.step = "create" => kind = "section" /\ counts = (task.line.kind = "section")
      /\ task.step = "write" => kind = task.line.kind /\ counts
      /\ task.line.kind \notin Deletes => place = task.place
      /\ task.line.kind \in Deletes => \A e \in task.draft : place = e.target
    BY <1>1, <1>4 DEF At
<1> HIDE DEF kind, counts, name, place
<1>7. Writing \in Write
    BY <1>2, <1>3, <1>5, TaskKnown DEF Write
<1> QED BY <1>3, <1>5, <1>6, <1>7

LEMMA ApplyTyped ==
    ASSUME RockTyped, NEW w \in Write, Apply(w), late' \subseteq Write, UNCHANGED <<account, changes>>
    PROVE  RockTyped'
<1>1. w.owner \in Accounts /\ w.url \in Urls /\ w.name \in Int /\ w.place \in Nat /\ w.kind \in Kinds
    BY DEF Write
<1>2. last' \in Nat
    BY DEF Apply, RockTyped
<1>3. times' \in [Confirmations -> Nat]
    <2>1. CASE w.counts
        <3>1. times' = [times EXCEPT ![w.id] = times[w.id] + 1]
            BY <2>1 DEF Apply
        <3>2. w.id \in Confirmations
            BY DEF Write
        <3> QED BY <3>1, <3>2 DEF RockTyped
    <2>2. CASE ~w.counts
        BY <2>2 DEF Apply, RockTyped
    <2> QED BY <2>1, <2>2
<1>4. sections' \subseteq Section
    <2>1. [id |-> last', owner |-> w.owner, name |-> w.name] \in Section
        BY <1>1, <1>2 DEF Section
    <2>2. \/ UNCHANGED sections \/ sections' = sections \ WithId(sections, w.place)
          \/ sections' = sections \cup {[id |-> last', owner |-> w.owner, name |-> w.name]}
        BY DEF Apply
    <2> QED BY <2>1, <2>2 DEF RockTyped
<1>5. links' \subseteq Link
    <2>1. [id |-> last', owner |-> w.owner, section |-> w.place, url |-> w.url] \in Link
        BY <1>1, <1>2 DEF Link
    <2>2. \/ UNCHANGED links \/ links' = links \ WithId(links, w.place) \/ links' = links \ In(w.place)
          \/ links' = links \cup {[id |-> last', owner |-> w.owner, section |-> w.place, url |-> w.url]}
        BY DEF Apply
    <2> QED BY <2>1, <2>2 DEF RockTyped
<1> QED BY <1>2, <1>3, <1>4, <1>5 DEF RockTyped

LEMMA WriteKeeps ==
    ASSUME LinkTypes, TaskReads, CreateSection \/ WriteRecord
    PROVE  LinkTypes' /\ TaskReads'
<1>1. PICK next \in {"created", "verify"} :
        /\ task # NoTask /\ WriteToRock(next)
        /\ \/ task.step = "create" /\ next = "created"
           \/ task.step = "write" /\ next = "verify"
    BY DEF CreateSection, WriteRecord, At
<1>2. PICK w \in Write : w = Writing
    BY <1>1, WritingTyped
<1>3. UNCHANGED <<Unread, managerVars, account, changes>>
    BY <1>1 DEF WriteToRock
<1>4. additions' \in Seq(GoodDraft) /\ deletions' \in Seq(GoodDraft) /\ {} \in Numbers
    BY <1>3 DEF Numbers, LinkTypes, ManagerTyped, managerVars
<1>5. RockTyped /\ late \subseteq Write
    BY DEF LinkTypes, RockTyped
<1>6. RockTyped'
    <2>1. CASE UNCHANGED late /\ Apply(w)
        BY <1>3, <1>5, <2>1, ApplyTyped
    <2>2. CASE UNCHANGED recordVars /\ late' \in {late, late \cup {w}}
        BY <1>2, <1>3, <1>5, <2>2 DEF RockTyped, recordVars
    <2> QED BY <1>1, <1>2, <2>1, <2>2 DEF WriteToRock
<1>7. CASE \E state \in States : Reply(state, {})
    BY <1>1, <1>3, <1>4, <1>6, <1>7, Answered
<1>8. CASE /\ task' = [task EXCEPT !.step = next, !.made = last',
                            !.place = IF Writing.kind = "section" THEN last' ELSE @]
           /\ UNCHANGED <<told, answers>>
    <2>1. PICK place : place = IF Writing.kind = "section" THEN last' ELSE task.place
        OBVIOUS
    <2>2. task \in Task /\ last' \in Nat /\ place \in Nat
        BY <1>1, <1>6, <2>1, TaskKnown DEF Task, RockTyped
    <2>3. task' = [task EXCEPT !.step = next, !.made = last', !.place = place]
        BY <1>8, <2>1
    <2>4. task' \in Task /\ SameRequest /\ task'.step = next
        BY <2>2, <2>3 DEF Task, Steps, SameRequest
    <2>5. task' # NoTask
        BY <2>4 DEF NoTask
    <2>6. StepsFit'
        BY <1>1, <2>4 DEF TaskReads, StepsFit, SameRequest
    <2>7. next = "created" => Granted({"addSections"})
        BY <1>1 DEF TaskReads, GrantsFit
    <2>8. \A d \in task.draft : TargetFits(d)'
        BY <2>4 DEF TargetFits
    <2> QED BY <1>1, <1>3, <1>4, <1>6, <1>8, <2>4, <2>5, <2>6, <2>7, <2>8, WentOn
<1>9. \/ Reply("uncertain", {}) \/ Reply("error", {})
      \/ /\ task' = [task EXCEPT !.step = next, !.made = last',
                            !.place = IF Writing.kind = "section" THEN last' ELSE @]
         /\ UNCHANGED <<told, answers>>
    BY <1>1 DEF WriteToRock
<1> QED BY <1>7, <1>8, <1>9 DEF States
(* What happens around the broker.                                         *)

LEMMA RaceKeeps ==
    ASSUME LinkTypes, TaskReads, Race
    PROVE  TaskTyped' /\ TaskReads'
<1>1. CASE task = NoTask
    <2>1. task' = NoTask
        BY <1>1 DEF Race
    <2> QED BY <2>1 DEF TaskTyped, TaskReads
<1>2. CASE task # NoTask
    <2>1. task \in Task /\ task' = [task EXCEPT !.raced = TRUE]
        BY <1>2, TaskKnown DEF Race
    <2>2. /\ task' \in Task /\ task'.raced /\ task'.step = task.step /\ task'.line = task.line
          /\ task'.draft = task.draft /\ task'.owner = task.owner /\ task'.grants = task.grants
        BY <2>1 DEF Task
    <2>3. TaskTyped'
        BY <1>2, <2>2, TaskKnown DEF TaskTyped
    <2>4. StepsFit'
        BY <1>2, <2>2 DEF TaskReads, StepsFit
    <2>5. ASSUME task.step # "begin" PROVE GrantsFit' /\ ReadsFit'
        <3>1. GrantsFit /\ ReadsFit
            BY <1>2, <2>5 DEF TaskReads
        <3>2. GrantsFit'
            BY <2>2, <3>1 DEF GrantsFit, Granted
        <3>3. PICK d \in GoodDraft : task.draft = {d} /\ d.kind = task.line.kind /\ OwnerFits(d)
            BY <3>1 DEF ReadsFit
        <3>4. OwnerFits(d)'
            BY <2>2, <3>3 DEF OwnerFits
        <3> QED BY <2>2, <3>2, <3>3, <3>4 DEF ReadsFit
    <2> QED BY <2>2, <2>3, <2>4, <2>5 DEF TaskReads
<1> QED BY <1>1, <1>2

LEMMA BrokerCrashTypes ==
    ASSUME LinkTypes, TaskReads, BrokerCrash
    PROVE  LinkTypes'
<1>1. /\ socket' = IF socket = "up" THEN "failed" ELSE socket
      /\ wire' = [c \in {"live", "lost"} |-> <<>>] /\ answers' = <<>> /\ UNCHANGED queue
      /\ task' = NoTask /\ additions' = <<>> /\ deletions' = <<>>
      /\ UNCHANGED <<panel, revision, commands, account, recordVars, changes>>
    BY DEF BrokerCrash
<1>2. ConnectionTyped'
    <2>1. <<>> \in Seq(PanelLine) /\ <<>> \in Seq(Answer)
        OBVIOUS
    <2> QED BY <1>1, <2>1 DEF LinkTypes, ConnectionTyped
<1>3. ManagerTyped'
    BY <1>1 DEF ManagerTyped, TaskTyped
<1>4. told' \in [Confirmations -> Outcomes]
    <2>1. told' = told \/ /\ task # NoTask /\ told' = [told EXCEPT ![task.line.id] = "unknown"]
        BY DEF BrokerCrash
    <2> QED BY <2>1, TaskKnown DEF LinkTypes, PanelTyped, Outcomes
<1>5. late' \subseteq Write
    <2>1. \/ late' = late
          \/ task # NoTask /\ task.step \in {"create", "write"} /\ late' = late \cup {Writing}
        BY DEF BrokerCrash, At
    <2> QED BY <2>1, WritingTyped DEF LinkTypes, RockTyped
<1> QED BY <1>1, <1>2, <1>3, <1>4, <1>5 DEF LinkTypes, PanelTyped, RockTyped, recordVars

LEMMA RockChangesTypes ==
    ASSUME LinkTypes, RockChanges
    PROVE  RockTyped'
<1>1. /\ account \in Accounts /\ sections \subseteq Section /\ links \subseteq Link
      /\ last \in Nat /\ changes \in Nat
    BY DEF LinkTypes, RockTyped
<1>2. last' \in Nat /\ changes' \in Nat /\ account' \in Accounts /\ UNCHANGED <<late, times>>
    <2>1. changes' = changes + 1 /\ UNCHANGED <<late, times>>
        BY DEF RockChanges
    <2>2. last' = last + 1 \/ last' = last
        BY DEF RockChanges
    <2>3. account' = account \/ account' \in Accounts
        BY DEF RockChanges
    <2> QED BY <1>1, <2>1, <2>2, <2>3
<1>3. sections' \subseteq Section
    <2>1. ASSUME NEW a \in Accounts, NEW n \in Names PROVE [id |-> last', owner |-> a, name |-> n] \in Section
        BY <1>2 DEF Section, Names
    <2>2. ASSUME NEW s \in sections PROVE [s EXCEPT !.name = 3 - s.name] \in Section
        <3>1. s \in Section
            BY <1>1
        <3> QED BY <3>1 DEF Section
    <2>3. \/ UNCHANGED sections
          \/ \E s \in sections : sections' = sections \ {s}
          \/ \E s \in sections : sections' = (sections \ {s}) \cup {[s EXCEPT !.name = 3 - s.name]}
          \/ \E a \in Accounts, n \in Names :
               sections' = sections \cup {[id |-> last', owner |-> a, name |-> n]}
        BY DEF RockChanges
    <2> QED BY <1>1, <2>1, <2>2, <2>3
<1>4. links' \subseteq Link
    <2>1. ASSUME NEW s \in sections, NEW u \in Urls
          PROVE  [id |-> last', owner |-> s.owner, section |-> s.id, url |-> u] \in Link
        <3>1. s.owner \in Accounts /\ s.id \in Nat
            BY <1>1 DEF Section
        <3> QED BY <1>2, <3>1 DEF Link
    <2>2. ASSUME NEW l \in links, NEW s \in sections, NEW u \in Urls
          PROVE  [l EXCEPT !.url = u, !.section = s.id] \in Link
        <3>1. l \in Link /\ s.id \in Nat
            BY <1>1 DEF Section
        <3> QED BY <3>1 DEF Link
    <2>3. \/ links' \subseteq links
          \/ \E s \in sections, u \in Urls :
               links' = links \cup {[id |-> last', owner |-> s.owner, section |-> s.id, url |-> u]}
          \/ \E l \in links, s \in sections, u \in Urls :
               links' = (links \ {l}) \cup {[l EXCEPT !.url = u, !.section = s.id]}
        BY DEF RockChanges
    <2>4. CASE links' \subseteq links
        BY <1>1, <2>4
    <2>5. CASE \E s \in sections, u \in Urls :
                  links' = links \cup {[id |-> last', owner |-> s.owner, section |-> s.id, url |-> u]}
        BY <1>1, <2>1, <2>5
    <2>6. CASE \E l \in links, s \in sections, u \in Urls :
                  links' = (links \ {l}) \cup {[l EXCEPT !.url = u, !.section = s.id]}
        <3>1. PICK l \in links, s \in sections, u \in Urls :
                  links' = (links \ {l}) \cup {[l EXCEPT !.url = u, !.section = s.id]}
            BY <2>6
        <3>2. PICK k \in Link : k = [l EXCEPT !.url = u, !.section = s.id]
            BY <2>2
        <3>3. links' = (links \ {l}) \cup {k}
            BY <3>1, <3>2
        <3> QED BY <1>1, <3>3
    <2> QED BY <2>3, <2>4, <2>5, <2>6
<1> QED BY <1>2, <1>3, <1>4 DEF LinkTypes, RockTyped

LEMMA EnvironmentKeeps ==
    ASSUME LinkTypes, TaskReads, EnvironmentStep
    PROVE  LinkTypes' /\ TaskReads'
<1>1. CASE SetOrigin
    <2>1. /\ additions' = <<>> /\ deletions' = <<>> /\ account' \in Accounts /\ task = NoTask
          /\ UNCHANGED <<clientVars, connectionVars, task, recordVars, late, changes>>
        BY <1>1 DEF SetOrigin
    <2>2. RockTyped'
        BY <2>1 DEF LinkTypes, RockTyped, recordVars
    <2>3. ManagerTyped' /\ TaskReads'
        BY <2>1 DEF ManagerTyped, TaskTyped, TaskReads
    <2> QED BY <2>1, <2>2, <2>3, Still DEF LinkTypes
<1>2. CASE BrokerCrash
    <2>1. task' = NoTask
        BY <1>2 DEF BrokerCrash
    <2> QED BY <1>2, <2>1, BrokerCrashTypes DEF TaskReads
<1>3. CASE LateWrite
    <2>1. PICK w \in late :
            /\ late' = late \ {w}
            /\ IF Possible(w) THEN Apply(w) ELSE UNCHANGED <<sections, links, last, times>>
        BY <1>3 DEF LateWrite
    <2>2. Race /\ UNCHANGED <<clientVars, connectionVars, managerVars, account, changes, clean>>
        BY <1>3 DEF LateWrite
    <2>3. RockTyped /\ w \in Write /\ late' \subseteq Write
        BY <2>1 DEF LinkTypes, RockTyped
    <2>4. RockTyped'
        <3>1. CASE Possible(w)
            BY <2>1, <2>2, <2>3, <3>1, ApplyTyped
        <3>2. CASE ~Possible(w)
            BY <2>1, <2>2, <2>3, <3>2 DEF RockTyped
        <3> QED BY <3>1, <3>2
    <2> QED BY <2>2, <2>4, RaceKeeps, Still DEF LinkTypes
<1>4. CASE RockChanges
    <2>1. Race /\ UNCHANGED <<clientVars, connectionVars, managerVars, late, times>>
        BY <1>4 DEF RockChanges
    <2> QED BY <1>4, <2>1, RockChangesTypes, RaceKeeps, Still DEF LinkTypes
<1> QED BY <1>1, <1>2, <1>3, <1>4 DEF EnvironmentStep

(* The panel and the connection teach the handler nothing.                 *)
LEMMA PanelReads ==
    ASSUME LinkTypes, TaskReads, PanelStep \/ ConnectionStep
    PROVE  TaskReads'
<1>1. UNCHANGED rockVars
    BY DEF PanelStep, Begin, Reload, Save, Close, Receive, Send, ConnectionStep, Connect, Disconnect,
        ConnectionFailed
<1>2. task' = task \/ Down
    BY DEF PanelStep, Begin, Reload, Save, Close, Receive, Send, ConnectionStep, Connect, Disconnect,
        ConnectionFailed
<1>3. CASE task' = task
    <2>1. CASE task = NoTask
        BY <1>3, <2>1 DEF TaskReads
    <2>2. CASE task # NoTask
        BY <1>1, <1>3, <2>2, SameReads DEF SameRequest, rockVars, recordVars
    <2> QED BY <2>1, <2>2
<1>4. CASE Down
    <2>1. CASE task = NoTask
        BY <1>4, <2>1 DEF Down, TaskReads
    <2>2. CASE task # NoTask
        <3>1. task' = [task EXCEPT !.live = (task.live /\ task.line.id \in Commands)]
            BY <1>4, <2>2 DEF Down
        <3>2. PICK b : task' = [task EXCEPT !.live = b]
            BY <3>1
        <3>3. task'.step = task.step /\ task'.place = task.place /\ SameRequest
            BY <2>2, <3>2, TaskKnown DEF Task, SameRequest
        <3> QED BY <1>1, <2>2, <3>3, SameReads DEF rockVars, recordVars
    <2> QED BY <2>1, <2>2
<1> QED BY <1>2, <1>3, <1>4

LEMMA ServeKeeps ==
    ASSUME LinkTypes, TaskReads, ServeStep
    PROVE  LinkTypes' /\ TaskReads'
BY TakeLineKeeps, FailKeeps, PrepareAdditionKeeps, PrepareDeletionKeeps, CommitDraftKeeps,
    CommitAccountKeeps, CommitSectionsKeeps, CommitRecordKeeps, CommitScopeKeeps,
    CommitContentsKeeps, ReadAgainKeeps, WriteKeeps
    DEF ServeStep, PrepareStep, CommitStep

LEMMA StepKeeps ==
    ASSUME LinkTypes, TaskReads, [Next]_vars
    PROVE  LinkTypes' /\ TaskReads'
<1>1. CASE PanelStep \/ ConnectionStep
    BY <1>1, PanelTypes, ConnectionTypes, PanelReads
<1>2. CASE CommandStep
    BY <1>2, CommandTypes, CommandKeeps
<1>3. CASE ServeStep \/ EnvironmentStep
    BY <1>3, ServeKeeps, EnvironmentKeeps
<1>4. CASE UNCHANGED vars
    <2>1. UNCHANGED <<clientVars, connectionVars, task, managerVars, rockVars>>
        BY <1>4 DEF vars
    <2>2. LinkTypes'
        BY <2>1, Still DEF LinkTypes
    <2>3. TaskReads'
        <3>1. CASE task = NoTask
            BY <2>1, <3>1 DEF TaskReads
        <3>2. CASE task # NoTask
            BY <2>1, <3>2, SameReads DEF SameRequest, rockVars, recordVars
        <3> QED BY <3>1, <3>2
    <2> QED BY <2>2, <2>3
<1> QED BY <1>1, <1>2, <1>3, <1>4 DEF Next

LEMMA ReadsInit ==
    Init => TaskReads
BY DEF Init, TaskReads

LEMMA TaskSafe ==
    Spec => [](LinkTypes /\ TaskReads)
<1>1. Init => LinkTypes /\ TaskReads
    BY TypesInit, ReadsInit
<1>2. LinkTypes /\ TaskReads /\ [Next]_vars => (LinkTypes /\ TaskReads)'
    BY StepKeeps
<1> QED BY <1>1, <1>2, PTL DEF Spec

(* Every variable holds what LinkTypes says: the owner of a record is an   *)
(* account, a draft is one of an account with the records it showed, and a *)
(* task past its first step has the one draft its number names.            *)
THEOREM LinksTyped == Spec => []LinkTypes
BY TaskSafe, PTL
-----------------------------------------------------------------------------
(* Single writes.                                                          *)

LEMMA WriteApplies ==
    ASSUME LinkTypes, TaskReads, CreateSection \/ WriteRecord
    PROVE  /\ task # NoTask
           /\ CreateSection => task.step = "create"
           /\ WriteRecord => task.step = "write"
           /\ \/ UNCHANGED recordVars
              \/ /\ Possible(Writing) /\ Apply(Writing)
                 /\ clean' = IF Writing.kind = "link" /\ ~task.raced THEN clean \cup {last'} ELSE clean
BY DEF CreateSection, WriteRecord, At, WriteToRock

(* The write of a task, by its kind.                                       *)
LEMMA WriteDoes ==
    ASSUME LinkTypes, TaskReads, CreateSection \/ WriteRecord, ~ UNCHANGED recordVars
    PROVE  \E d \in GoodDraft :
             /\ task.draft = {d} /\ d.kind = task.line.kind /\ OwnerFits(d)
             /\ ~task.raced => TargetFits(d)
             /\ \/ /\ task.step = "create" /\ UNCHANGED links
                   /\ \E s : sections' = sections \cup {s} /\ s.owner = task.owner
                \/ /\ task.step = "write" /\ task.line.kind = "link" /\ UNCHANGED sections
                   /\ \E l : links' = links \cup {l} /\ l.owner = task.owner
                \/ /\ task.step = "write" /\ task.line.kind = "delete-link" /\ UNCHANGED sections
                   /\ links' = links \ WithId(links, d.target) /\ WithId(links, d.target) # {}
                \/ /\ task.step = "write" /\ task.line.kind \in {"delete-section", "delete-empty"}
                   /\ sections' = sections \ WithId(sections, d.target)
                   /\ links' = links \ In(d.target) /\ WithId(sections, d.target) # {}
<1>1. task # NoTask /\ task.step \in {"create", "write"} /\ Possible(Writing) /\ Apply(Writing)
    BY WriteApplies
<1>2. task \in Task /\ task.line.kind \in Kinds
    BY <1>1, TaskKnown
<1>3. PICK d \in GoodDraft :
        task.draft = {d} /\ d.kind = task.line.kind /\ OwnerFits(d) /\ (~task.raced => TargetFits(d))
    BY <1>1 DEF TaskReads, ReadsFit
<1>4. PICK w \in Write : w = Writing
    BY <1>1, WritingTyped
<1>5. Possible(w) /\ Apply(w) /\ w.owner = task.owner
    BY <1>1, <1>4, WritingTyped
<1>6. CASE task.step = "create"
    <2>1. w.kind = "section"
        BY <1>1, <1>4, <1>6, WritingTyped
    <2>2. UNCHANGED links /\ sections' = sections \cup {[id |-> last', owner |-> w.owner, name |-> w.name]}
        BY <1>5, <2>1 DEF Apply
    <2>3. [id |-> last', owner |-> w.owner, name |-> w.name].owner = task.owner
        BY <1>5
    <2> QED BY <1>3, <1>6, <2>2, <2>3
<1>7. CASE task.step = "write"
    <2>1. /\ w.kind = task.line.kind /\ task.line.kind # "section"
          /\ task.line.kind \in Deletes => w.place = d.target
        BY <1>1, <1>3, <1>4, <1>7, WritingTyped DEF TaskReads, StepsFit
    <2>2. CASE task.line.kind = "link"
        <3>1. UNCHANGED sections /\ links' = links \cup {[id |-> last', owner |-> w.owner,
                                                         section |-> w.place, url |-> w.url]}
            BY <1>5, <2>1, <2>2 DEF Apply
        <3>2. [id |-> last', owner |-> w.owner, section |-> w.place, url |-> w.url].owner = task.owner
            BY <1>5
        <3> QED BY <1>3, <1>7, <2>2, <3>1, <3>2
    <2>3. CASE task.line.kind = "delete-link"
        <3>1. /\ UNCHANGED sections /\ links' = links \ WithId(links, d.target)
              /\ WithId(links, d.target) # {}
            BY <1>5, <2>1, <2>3 DEF Apply, Possible, Deletes
        <3> QED BY <1>3, <1>7, <2>3, <3>1
    <2>4. CASE task.line.kind \in {"delete-section", "delete-empty"}
        <3>1. /\ sections' = sections \ WithId(sections, d.target) /\ links' = links \ In(d.target)
              /\ WithId(sections, d.target) # {}
            BY <1>5, <2>1, <2>4 DEF Apply, Possible, Deletes
        <3> QED BY <1>3, <1>7, <2>4, <3>1
    <2> QED BY <1>2, <2>1, <2>2, <2>3, <2>4 DEF Kinds
<1> QED BY <1>1, <1>6, <1>7

LEMMA DeletedWasShown ==
    ASSUME LinkTypes, TaskReads, WriteRecord, times' # times, task.line.kind \in Deletes, ~task.raced
    PROVE  \E d \in task.draft :
             /\ (links \ links') \cup (sections \ sections') # {}
             /\ \/ (links \ links') \subseteq d.shown /\ sections' = sections
                \/ /\ (sections \ sections') \subseteq d.shown
                   /\ {l.id : l \in links \ links'} = d.contents
<1>1. task.step = "write" /\ ~ UNCHANGED recordVars
    BY WriteApplies DEF recordVars
<1>2. PICK d \in GoodDraft :
        /\ task.draft = {d} /\ TargetFits(d)
        /\ \/ /\ task.line.kind = "delete-link" /\ UNCHANGED sections
              /\ links' = links \ WithId(links, d.target) /\ WithId(links, d.target) # {}
           \/ /\ task.line.kind \in {"delete-section", "delete-empty"}
              /\ sections' = sections \ WithId(sections, d.target)
              /\ links' = links \ In(d.target) /\ WithId(sections, d.target) # {}
    BY <1>1, WriteDoes DEF Deletes
<1>3. CASE task.line.kind = "delete-link"
    <2>1. UNCHANGED sections /\ links' = links \ WithId(links, d.target) /\ WithId(links, d.target) # {}
        BY <1>2, <1>3
    <2>2. links \ links' = WithId(links, d.target)
        BY <2>1 DEF WithId
    <2>3. WithId(links, d.target) \subseteq d.shown
        BY <1>1, <1>2, <1>3 DEF TargetFits
    <2> QED BY <1>2, <2>1, <2>2, <2>3
<1>4. CASE task.line.kind \in {"delete-section", "delete-empty"}
    <2>1. /\ sections' = sections \ WithId(sections, d.target)
          /\ links' = links \ In(d.target) /\ WithId(sections, d.target) # {}
        BY <1>2, <1>4
    <2>2. links \ links' = In(d.target) /\ sections \ sections' = WithId(sections, d.target)
        BY <2>1 DEF WithId, In
    <2>3. WithId(sections, d.target) \subseteq d.shown /\ {l.id : l \in In(d.target)} = d.contents
        BY <1>1, <1>2, <1>4 DEF TargetFits, Deletes
    <2> QED BY <1>2, <2>1, <2>2, <2>3
<1> QED BY <1>2, <1>3, <1>4

(* A deletion deletes what the user was shown, unless somebody changed     *)
(* Rock while the broker was checking.                                     *)
THEOREM DeletesShown == Spec => DeletesWhatWasShown
<1> DEFINE Shown ==
        WriteRecord /\ times' # times /\ task.line.kind \in Deletes /\ ~task.raced =>
          \E d \in task.draft :
             /\ (links \ links') \cup (sections \ sections') # {}
             /\ \/ (links \ links') \subseteq d.shown /\ sections' = sections
                \/ /\ (sections \ sections') \subseteq d.shown
                   /\ {l.id : l \in links \ links'} = d.contents
<1>1. LinkTypes /\ TaskReads => Shown
    BY DeletedWasShown
<1> HIDE DEF Shown
<1>2. [][Shown]_vars => DeletesWhatWasShown
    BY PTL DEF DeletesWhatWasShown, Shown
<1> QED BY <1>1, <1>2, TaskSafe, PTL DEF Spec

LEMMA GrantsSuffice ==
    ASSUME LinkTypes, TaskReads, CreateSection \/ WriteRecord
    PROVE  /\ links' \ links # {} => "addLinks" \in task.grants
           /\ sections' \ sections # {} => "addSections" \in task.grants
           /\ links \ links' # {} /\ ~task.raced => "deleteLinks" \in task.grants
           /\ sections \ sections' # {} => "deleteSections" \in task.grants
<1>1. CASE UNCHANGED recordVars
    BY <1>1 DEF recordVars
<1>2. CASE ~ UNCHANGED recordVars
    <2>1. PICK d \in GoodDraft :
            /\ d.kind = task.line.kind /\ (~task.raced => TargetFits(d))
            /\ \/ /\ task.step = "create" /\ UNCHANGED links
                  /\ \E s : sections' = sections \cup {s} /\ s.owner = task.owner
               \/ /\ task.step = "write" /\ task.line.kind = "link" /\ UNCHANGED sections
                  /\ \E l : links' = links \cup {l} /\ l.owner = task.owner
               \/ /\ task.step = "write" /\ task.line.kind = "delete-link" /\ UNCHANGED sections
                  /\ links' = links \ WithId(links, d.target) /\ WithId(links, d.target) # {}
               \/ /\ task.step = "write" /\ task.line.kind \in {"delete-section", "delete-empty"}
                  /\ sections' = sections \ WithId(sections, d.target)
                  /\ links' = links \ In(d.target) /\ WithId(sections, d.target) # {}
        BY <1>2, WriteDoes
    <2>2. Needs(task.line.kind) \subseteq task.grants
        BY WriteApplies DEF TaskReads, GrantsFit, Granted
    <2>3. CASE task.step = "create" /\ UNCHANGED links /\ sections \subseteq sections'
        BY <2>3, WriteApplies DEF TaskReads, GrantsFit, Granted
    <2>4. CASE task.line.kind = "link" /\ UNCHANGED sections /\ links \subseteq links'
        BY <2>2, <2>4 DEF Needs
    <2>5. CASE task.line.kind = "delete-link" /\ UNCHANGED sections /\ links' \subseteq links
        BY <2>2, <2>5 DEF Needs
    <2>6. CASE /\ task.step = "write" /\ task.line.kind \in {"delete-section", "delete-empty"}
               /\ sections' = sections \ WithId(sections, d.target) /\ links' = links \ In(d.target)
        <3>1. "deleteSections" \in task.grants
            BY <2>2, <2>6 DEF Needs
        <3>2. ASSUME links \ links' # {}, ~task.raced PROVE "deleteLinks" \in task.grants
            <4>1. CASE task.line.kind = "delete-section"
                BY <2>2, <4>1 DEF Needs
            <4>2. CASE task.line.kind = "delete-empty"
                <5>1. {l.id : l \in In(d.target)} = d.contents
                    BY <2>1, <2>6, <3>2 DEF TargetFits
                <5>2. d.contents = {}
                    BY <2>1, <4>2 DEF GoodDraft
                <5>3. In(d.target) = {}
                    BY <5>1, <5>2
                <5> QED BY <2>6, <3>2, <5>3
            <4> QED BY <2>6, <4>1, <4>2
        <3> QED BY <2>6, <3>1, <3>2
    <2>7. \/ task.step = "create" /\ UNCHANGED links /\ sections \subseteq sections'
          \/ task.line.kind = "link" /\ UNCHANGED sections /\ links \subseteq links'
          \/ task.line.kind = "delete-link" /\ UNCHANGED sections /\ links' \subseteq links
          \/ /\ task.step = "write" /\ task.line.kind \in {"delete-section", "delete-empty"}
             /\ sections' = sections \ WithId(sections, d.target) /\ links' = links \ In(d.target)
        BY <2>1
    <2> QED BY <2>3, <2>4, <2>5, <2>6, <2>7
<1> QED BY <1>1, <1>2

(* The command line adds and deletes only what it has been granted, also   *)
(* the section a new link needs and the links in a deleted section.        *)
THEOREM CommandsGranted == Spec => CommandsStayGranted
<1> DEFINE Fine ==
        (CreateSection \/ WriteRecord) /\ task.line.id \in Commands =>
          /\ links' \ links # {} => "addLinks" \in task.grants
          /\ sections' \ sections # {} => "addSections" \in task.grants
          /\ links \ links' # {} /\ ~task.raced => "deleteLinks" \in task.grants
          /\ sections \ sections' # {} => "deleteSections" \in task.grants
<1>1. LinkTypes /\ TaskReads => Fine
    BY GrantsSuffice
<1> HIDE DEF Fine
<1>2. [][Fine]_vars => CommandsStayGranted
    BY PTL DEF CommandsStayGranted, Fine
<1> QED BY <1>1, <1>2, TaskSafe, PTL DEF Spec

LEMMA OwnWritten ==
    ASSUME LinkTypes, TaskReads, CreateSection \/ WriteRecord, ~task.raced
    PROVE  \E d \in task.draft :
             /\ d.owner = account
             /\ \A r \in (links' \ links) \cup (sections \ sections') \cup (sections' \ sections) :
                  r.owner = account
             /\ \A l \in links \ links' :
                  l.owner = account \/ \E s \in sections \ sections' : l.section = s.id
<1>1. task # NoTask /\ task.step \in {"create", "write"}
    BY WriteApplies
<1>2. CASE UNCHANGED recordVars
    <2>1. PICK d \in GoodDraft : task.draft = {d} /\ OwnerFits(d)
        BY <1>1 DEF TaskReads, ReadsFit
    <2>2. d.owner = account
        BY <1>1, <2>1 DEF OwnerFits
    <2> QED BY <1>2, <2>1, <2>2 DEF recordVars
<1>3. CASE ~ UNCHANGED recordVars
    <2>1. PICK d \in GoodDraft :
            /\ task.draft = {d} /\ OwnerFits(d) /\ TargetFits(d)
            /\ \/ /\ task.step = "create" /\ UNCHANGED links
                  /\ \E s : sections' = sections \cup {s} /\ s.owner = task.owner
               \/ /\ task.step = "write" /\ task.line.kind = "link" /\ UNCHANGED sections
                  /\ \E l : links' = links \cup {l} /\ l.owner = task.owner
               \/ /\ task.step = "write" /\ task.line.kind = "delete-link" /\ UNCHANGED sections
                  /\ links' = links \ WithId(links, d.target) /\ WithId(links, d.target) # {}
               \/ /\ task.step = "write" /\ task.line.kind \in {"delete-section", "delete-empty"}
                  /\ sections' = sections \ WithId(sections, d.target)
                  /\ links' = links \ In(d.target) /\ WithId(sections, d.target) # {}
        BY <1>3, WriteDoes
    <2>2. d.owner = account /\ task.owner = account
        BY <1>1, <2>1 DEF OwnerFits
    <2>3. \A r \in d.shown : r.owner = account
        BY <2>1, <2>2 DEF GoodDraft
    <2>4. CASE /\ UNCHANGED links
               /\ \E s : sections' = sections \cup {s} /\ s.owner = task.owner
        BY <2>1, <2>2, <2>4
    <2>5. CASE /\ UNCHANGED sections
               /\ \E l : links' = links \cup {l} /\ l.owner = task.owner
        BY <2>1, <2>2, <2>5
    <2>6. CASE /\ task.step = "write" /\ task.line.kind = "delete-link" /\ UNCHANGED sections
               /\ links' = links \ WithId(links, d.target)
        <3>1. WithId(links, d.target) \subseteq d.shown
            BY <2>1, <2>6 DEF TargetFits, Deletes
        <3>2. links \ links' \subseteq d.shown /\ links' \ links = {}
            BY <2>6, <3>1
        <3>3. sections \ sections' = {} /\ sections' \ sections = {}
            BY <2>6
        <3>4. \A l \in links \ links' : l.owner = account
            BY <2>3, <3>2
        <3>5. \A r \in (links' \ links) \cup (sections \ sections') \cup (sections' \ sections) :
                r.owner = account
            BY <3>2, <3>3
        <3> QED BY <2>1, <2>2, <3>4, <3>5
    <2>7. CASE /\ task.step = "write" /\ task.line.kind \in {"delete-section", "delete-empty"}
               /\ sections' = sections \ WithId(sections, d.target)
               /\ links' = links \ In(d.target) /\ WithId(sections, d.target) # {}
        <3>1. WithId(sections, d.target) \subseteq d.shown
            BY <2>1, <2>7 DEF TargetFits, Deletes
        <3>2. /\ sections \ sections' \subseteq d.shown /\ links' \ links = {}
              /\ sections' \ sections = {}
            BY <2>7, <3>1
        <3>3. PICK s \in WithId(sections, d.target) : TRUE
            BY <2>7
        <3>4. s \in sections \ sections' /\ s.id = d.target
            BY <2>7, <3>3 DEF WithId
        <3>5. \A l \in links \ links' : l.section = s.id
            BY <2>7, <3>4 DEF In
        <3> QED BY <2>1, <2>2, <2>3, <3>2, <3>4, <3>5
    <2> QED BY <2>1, <2>4, <2>5, <2>6, <2>7
<1> QED BY <1>2, <1>3

(* Nothing of another account is added to or deleted, but for links in a   *)
(* section of one's own that is deleted.                                   *)
THEOREM OnlyOwn == Spec => OnlyOwnRecords
<1> DEFINE Own ==
        (CreateSection \/ WriteRecord) /\ ~task.raced =>
          \E d \in task.draft :
             /\ d.owner = account
             /\ \A r \in (links' \ links) \cup (sections \ sections') \cup (sections' \ sections) :
                  r.owner = account
             /\ \A l \in links \ links' :
                  l.owner = account \/ \E s \in sections \ sections' : l.section = s.id
<1>1. LinkTypes /\ TaskReads => Own
    BY OwnWritten
<1> HIDE DEF Own
<1>2. [][Own]_vars => OnlyOwnRecords
    BY PTL DEF OnlyOwnRecords, Own
<1> QED BY <1>1, <1>2, TaskSafe, PTL DEF Spec
-----------------------------------------------------------------------------
(* No link twice.                                                          *)

LEMMA NumbersInit ==
    Init => NumbersFit /\ NoSecondBookmark
<1> SUFFICES ASSUME Init PROVE NumbersFit /\ NoSecondBookmark
    OBVIOUS
<1>1. last \in Nat /\ clean = {}
    BY TypesInit DEF LinkTypes, RockTyped, Init
<1>2. \/ links = {}
      \/ last = 2 /\ \E u \in Urls : links = {[id |-> 2, owner |-> account, section |-> 1, url |-> u]}
    BY DEF Init
<1>3. \A l \in links : l.id <= last
    BY <1>2
<1> QED BY <1>1, <1>3 DEF NumbersFit, NoSecondBookmark

(* A link that is stored last has no link before it that counts it.        *)
LEMMA LinksGrow ==
    ASSUME LinkTypes, NumbersFit, NoSecondBookmark, last' \in {last, last + 1},
           \A l \in links' : l \in links \/ (l.id = last' /\ last' = last + 1),
           \/ clean' = clean
           \/ /\ clean' = clean \cup {last'} /\ last' = last + 1
              /\ \A l, k \in links' : l.id = last' /\ k \in links /\ k.section = l.section
                                                   /\ k.owner = l.owner => k.url # l.url
    PROVE  NumbersFit' /\ NoSecondBookmark'
<1>1. last \in Nat /\ last' \in Nat /\ last <= last' /\ \A l \in links : l.id \in Nat
    BY DEF LinkTypes, RockTyped, Link
<1>2. \A l \in links : l.id <= last
    BY DEF NumbersFit
<1>3. \A l \in links' : l.id \in Nat /\ l.id <= last'
    BY <1>1, <1>2
<1>4. \A n \in clean : n \in Nat /\ n <= last
    BY <1>1 DEF NumbersFit
<1>5. NumbersFit'
    <2>1. \A n \in clean' : n \in Nat /\ n <= last'
        BY <1>1, <1>4
    <2>2. clean' \subseteq 0 .. last'
        BY <1>1, <2>1
    <2> QED BY <1>3, <2>2 DEF NumbersFit
<1>6. ASSUME NEW l \in links', NEW k \in links', l.id \in clean', k.id < l.id,
             k.section = l.section, k.owner = l.owner
      PROVE  k.url # l.url
    <2>1. k \in links
        BY <1>3, <1>6
    <2>2. CASE l \in links /\ l.id \in clean
        BY <1>6, <2>1, <2>2 DEF NoSecondBookmark
    <2>3. CASE l.id \notin clean
        <3>1. clean' = clean \cup {last'} /\ l.id = last'
            BY <1>6, <2>3
        <3>2. clean' # clean
            BY <1>6, <2>3
        <3> QED BY <1>6, <2>1, <3>1, <3>2
    <2>4. CASE l \notin links /\ l.id \in clean
        <3>1. l.id = last + 1 /\ l.id <= last
            BY <1>4, <2>4
        <3> QED BY <1>1, <3>1
    <2> QED BY <2>2, <2>3, <2>4
<1> QED BY <1>5, <1>6 DEF NoSecondBookmark

LEMMA ApplyGrows ==
    ASSUME LinkTypes, NEW w \in Write, Apply(w)
    PROVE  /\ last' \in {last, last + 1}
           /\ w.kind # "link" => links' \subseteq links
           /\ w.kind = "link" =>
                 /\ last' = last + 1
                 /\ \E l : /\ links' = links \cup {l} /\ l.id = last' /\ l.section = w.place
                           /\ l.owner = w.owner /\ l.url = w.url
<1>1. last' = IF w.kind \in Deletes THEN last ELSE last + 1
    BY DEF Apply
<1>2. CASE w.kind = "link"
    <2>1. PICK l : l = [id |-> last', owner |-> w.owner, section |-> w.place, url |-> w.url]
        OBVIOUS
    <2>2. links' = links \cup {l}
        BY <1>2, <2>1 DEF Apply
    <2>3. l.id = last' /\ l.section = w.place /\ l.owner = w.owner /\ l.url = w.url
        BY <2>1
    <2>4. w.kind \notin Deletes
        BY <1>2 DEF Deletes
    <2> QED BY <1>1, <1>2, <2>2, <2>3, <2>4
<1>3. CASE w.kind # "link"
    <2>1. \/ UNCHANGED links \/ links' = links \ WithId(links, w.place) \/ links' = links \ In(w.place)
        BY <1>3 DEF Apply
    <2>2. links' \subseteq links /\ last' \in {last, last + 1}
        BY <1>1, <2>1
    <2> QED BY <1>3, <2>2
<1> QED BY <1>2, <1>3

LEMMA WriteNumbers ==
    ASSUME LinkTypes, ReadInv, CreateSection \/ WriteRecord
    PROVE  NumbersFit' /\ NoSecondBookmark'
<1>0. TaskReads /\ NumbersFit /\ NoSecondBookmark
    BY DEF ReadInv
<1>1. CASE UNCHANGED recordVars
    BY <1>0, <1>1 DEF recordVars, NumbersFit, NoSecondBookmark
<1>2. CASE /\ Possible(Writing) /\ Apply(Writing)
           /\ clean' = IF Writing.kind = "link" /\ ~task.raced THEN clean \cup {last'} ELSE clean
    <2>1. task # NoTask /\ task.step \in {"create", "write"}
        BY <1>0, WriteApplies
    <2>2. PICK w \in Write : w = Writing
        BY <1>0, <2>1, WritingTyped
    <2>3. /\ last' \in {last, last + 1}
          /\ w.kind # "link" => links' \subseteq links
          /\ w.kind = "link" =>
                /\ last' = last + 1
                /\ \E l : /\ links' = links \cup {l} /\ l.id = last' /\ l.section = w.place
                          /\ l.owner = w.owner /\ l.url = w.url
        BY <1>2, <2>2, ApplyGrows
    <2>4. clean' = IF w.kind = "link" /\ ~task.raced THEN clean \cup {last'} ELSE clean
        BY <1>2, <2>2
    <2>5. CASE w.kind # "link"
        <3>1. clean' = clean /\ links' \subseteq links
            BY <2>3, <2>4, <2>5
        <3> QED BY <1>0, <2>3, <3>1, LinksGrow
    <2>6. CASE w.kind = "link"
        <3>1. PICK l : /\ links' = links \cup {l} /\ l.id = last' /\ l.section = w.place
                       /\ l.owner = w.owner /\ l.url = w.url /\ last' = last + 1
            BY <2>3, <2>6
        <3>2. CASE task.raced
            BY <1>0, <2>3, <2>4, <3>1, <3>2, LinksGrow
        <3>3. CASE ~task.raced
            <4>1. task.step = "write" /\ task.line.kind = "link"
                BY <1>0, <2>1, <2>2, <2>6, WritingTyped
            <4>2. /\ l.section = task.place /\ l.owner = task.owner /\ l.url = task.line.url
                BY <1>0, <2>1, <2>2, <3>1, <4>1, WritingTyped DEF Deletes
            <4>3. \A k \in In(task.place) : k.owner = task.owner => k.url # task.line.url
                BY <1>0, <2>1, <3>3, <4>1 DEF TaskReads, ReadsFit, TargetFits
            <4>4. \A k \in links : k.id <= last
                BY <1>0 DEF NumbersFit
            <4>5. last \in Nat
                BY DEF LinkTypes, RockTyped
            <4>6. \A k \in links : k.id # last'
                BY <3>1, <4>4, <4>5
            <4>7. \A j, k \in links' : j.id = last' /\ k \in links /\ k.section = j.section
                                                  /\ k.owner = j.owner => k.url # j.url
                <5> SUFFICES ASSUME NEW j \in links', NEW k \in links, j.id = last',
                                    k.section = j.section, k.owner = j.owner
                             PROVE  k.url # j.url
                    OBVIOUS
                <5>1. j = l
                    BY <3>1, <4>6
                <5>2. k \in In(task.place)
                    BY <4>2, <5>1 DEF In
                <5> QED BY <4>2, <4>3, <5>1, <5>2
            <4>8. clean' = clean \cup {last'}
                BY <2>4, <2>6, <3>3
            <4>9. \A k \in links' : k \in links \/ (k.id = last' /\ last' = last + 1)
                BY <3>1
            <4> QED BY <1>0, <3>1, <4>7, <4>8, <4>9, LinksGrow
        <3> QED BY <3>2, <3>3
    <2> QED BY <2>5, <2>6
<1> QED BY <1>0, <1>1, <1>2, WriteApplies

LEMMA RockChangesNumbers ==
    ASSUME LinkTypes, NumbersFit, NoSecondBookmark, RockChanges
    PROVE  NumbersFit' /\ NoSecondBookmark'
<1>1. last' \in {last, last + 1} /\ last \in Nat
    BY DEF RockChanges, LinkTypes, RockTyped
<1>2. \/ links' \subseteq links /\ clean' = clean
      \/ /\ last' = last + 1 /\ clean' = clean
         /\ \E s \in sections, u \in Urls :
              links' = links \cup {[id |-> last', owner |-> s.owner, section |-> s.id, url |-> u]}
      \/ /\ clean' = {} /\ last' = last
         /\ \E l \in links, s \in sections, u \in Urls :
              links' = (links \ {l}) \cup {[l EXCEPT !.url = u, !.section = s.id]}
    BY DEF RockChanges
<1>3. CASE links' \subseteq links /\ clean' = clean
    BY <1>1, <1>3, LinksGrow
<1>4. CASE /\ last' = last + 1 /\ clean' = clean
           /\ \E s \in sections, u \in Urls :
                links' = links \cup {[id |-> last', owner |-> s.owner, section |-> s.id, url |-> u]}
    <2>0. PICK s \in sections, u \in Urls :
            links' = links \cup {[id |-> last', owner |-> s.owner, section |-> s.id, url |-> u]}
        BY <1>4
    <2>1. PICK l : l = [id |-> last', owner |-> s.owner, section |-> s.id, url |-> u]
        OBVIOUS
    <2>2. links' = links \cup {l} /\ l.id = last'
        BY <2>0, <2>1
    <2> QED BY <1>1, <1>4, <2>2, LinksGrow
<1>5. CASE /\ clean' = {} /\ last' = last
           /\ \E l \in links, s \in sections, u \in Urls :
                links' = (links \ {l}) \cup {[l EXCEPT !.url = u, !.section = s.id]}
    <2>1. PICK l \in links, s \in sections, u \in Urls :
            links' = (links \ {l}) \cup {[l EXCEPT !.url = u, !.section = s.id]}
        BY <1>5
    <2>2. PICK k : k = [l EXCEPT !.url = u, !.section = s.id]
        OBVIOUS
    <2>3. l \in Link
        BY DEF LinkTypes, RockTyped
    <2>4. k.id = l.id
        BY <2>2, <2>3 DEF Link
    <2>5. links' = (links \ {l}) \cup {k}
        BY <2>1, <2>2
    <2>6. \A j \in links' : j.id <= last'
        BY <1>5, <2>4, <2>5 DEF NumbersFit
    <2> QED BY <1>5, <2>6 DEF NumbersFit, NoSecondBookmark
<1> QED BY <1>2, <1>3, <1>4, <1>5

LEMMA NumbersKeep ==
    ASSUME LinkTypes, ReadInv, [Next]_vars
    PROVE  NumbersFit' /\ NoSecondBookmark'
<1>0. NumbersFit /\ NoSecondBookmark
    BY DEF ReadInv
<1>1. CASE UNCHANGED <<links, last, clean>>
    BY <1>0, <1>1 DEF NumbersFit, NoSecondBookmark
<1>2. CASE CreateSection \/ WriteRecord
    BY <1>2, WriteNumbers
<1>3. CASE LateWrite
    <2>1. PICK w \in late :
            IF Possible(w) THEN Apply(w) ELSE UNCHANGED <<sections, links, last, times>>
        BY <1>3 DEF LateWrite
    <2>2. w \in Write /\ UNCHANGED clean
        BY <1>3, <2>1 DEF LateWrite, LinkTypes, RockTyped
    <2>3. CASE Possible(w)
        <3>1. /\ last' \in {last, last + 1}
              /\ \/ links' \subseteq links
                 \/ last' = last + 1 /\ \E l : links' = links \cup {l} /\ l.id = last'
            BY <2>1, <2>2, <2>3, ApplyGrows
        <3>2. \A l \in links' : l \in links \/ (l.id = last' /\ last' = last + 1)
            BY <3>1
        <3> QED BY <1>0, <2>2, <3>1, <3>2, LinksGrow
    <2>4. CASE ~Possible(w)
        <3>1. UNCHANGED <<links, last, clean>>
            BY <2>1, <2>2, <2>4
        <3> QED BY <1>1, <3>1
    <2> QED BY <2>3, <2>4
<1>4. CASE RockChanges
    BY <1>0, <1>4, RockChangesNumbers
<1>5. CASE PanelStep \/ ConnectionStep \/ CommandStep
    <2>1. UNCHANGED <<links, last, clean>>
        BY <1>5 DEF PanelStep, Begin, Reload, Save, Close, Receive, Send, ConnectionStep, Connect,
            Disconnect, ConnectionFailed, CommandStep, Command, CommandTimeout, rockVars, recordVars
    <2> QED BY <1>1, <2>1
<1>6. CASE TakeLine \/ Fail \/ PrepareStep
    <2>1. UNCHANGED <<links, last, clean>>
        BY <1>6 DEF TakeLine, Fail, PrepareStep, PrepareAddition, PrepareDeletion, rockVars, recordVars
    <2> QED BY <1>1, <2>1
<1>7. CASE CommitStep /\ ~CreateSection /\ ~WriteRecord
    <2>1. UNCHANGED <<links, last, clean>>
        BY <1>7 DEF CommitStep, CommitDraft, CommitAccount, CommitSections, CommitRecord, CommitScope,
            CommitContents, SectionCreated, LookForLink, VerifyLink, VerifyDeletion, rockVars, recordVars
    <2> QED BY <1>1, <2>1
<1>8. CASE SetOrigin \/ BrokerCrash
    <2>1. UNCHANGED <<links, last, clean>>
        BY <1>8 DEF SetOrigin, BrokerCrash, recordVars
    <2> QED BY <1>1, <2>1
<1>9. CASE UNCHANGED vars
    <2>1. UNCHANGED <<links, last, clean>>
        BY <1>9 DEF vars, rockVars, recordVars
    <2> QED BY <1>1, <2>1
<1>10. \/ PanelStep \/ ConnectionStep \/ CommandStep \/ ServeStep \/ EnvironmentStep \/ UNCHANGED vars
    BY DEF Next
<1>11. CASE ServeStep
    BY <1>2, <1>6, <1>7, <1>11 DEF ServeStep
<1>12. CASE EnvironmentStep
    BY <1>3, <1>4, <1>8, <1>12 DEF EnvironmentStep
<1> QED BY <1>5, <1>9, <1>10, <1>11, <1>12

LEMMA ReadSafe ==
    Spec => [](LinkTypes /\ ReadInv)
<1>1. Init => LinkTypes /\ ReadInv
    BY TypesInit, ReadsInit, NumbersInit DEF ReadInv
<1>2. LinkTypes /\ ReadInv /\ [Next]_vars => (LinkTypes /\ ReadInv)'
    <2>1. ASSUME LinkTypes, ReadInv, [Next]_vars PROVE LinkTypes' /\ TaskReads'
        BY <2>1, StepKeeps DEF ReadInv
    <2>2. ASSUME LinkTypes, ReadInv, [Next]_vars PROVE ReadInv'
        BY <2>1, <2>2, NumbersKeep DEF ReadInv
    <2> QED BY <2>1, <2>2
<1> QED BY <1>1, <1>2, PTL DEF Spec

(* A link is never stored beside one with the same section and URL.        *)
THEOREM NoSecond == Spec => []NoSecondBookmark
<1>1. ReadInv => NoSecondBookmark
    BY DEF ReadInv
<1> QED BY <1>1, ReadSafe, PTL
-----------------------------------------------------------------------------
(* Lines in sequences.                                                     *)

LEMMA EmptyLines ==
    Members(<<>>) = {} /\ Ids(<<>>) = {} /\ Distinct(<<>>)
BY DEF Members, Ids, Distinct

LEMMA IdsOfMembers ==
    ASSUME NEW S, NEW s \in Seq(S)
    PROVE  Ids(s) = {l.id : l \in Members(s)} /\ Members(s) \subseteq S
BY DEF Members, Ids

LEMMA AppendLines ==
    ASSUME NEW S, NEW s \in Seq(S), NEW e \in S
    PROVE  /\ Append(s, e) \in Seq(S)
           /\ Members(Append(s, e)) = Members(s) \cup {e}
           /\ Ids(Append(s, e)) = Ids(s) \cup {e.id}
           /\ Distinct(s) /\ e.id \notin Ids(s) => Distinct(Append(s, e))
<1> DEFINE t == Append(s, e)
<1>1. t \in Seq(S) /\ Len(t) = Len(s) + 1 /\ t[Len(s) + 1] = e /\ Len(s) \in Nat
      /\ \A i \in 1 .. Len(s) : t[i] = s[i]
    OBVIOUS
<1> HIDE DEF t
<1>2. Members(t) = Members(s) \cup {e}
    BY <1>1 DEF Members
<1>3. Ids(t) = Ids(s) \cup {e.id}
    BY <1>1 DEF Ids
<1>4. Distinct(s) /\ e.id \notin Ids(s) => Distinct(t)
    BY <1>1 DEF Distinct, Ids
<1> QED BY <1>1, <1>2, <1>3, <1>4 DEF t

LEMMA ConcatLines ==
    ASSUME NEW S, NEW s \in Seq(S), NEW u \in Seq(S)
    PROVE  /\ s \o u \in Seq(S)
           /\ Members(s \o u) = Members(s) \cup Members(u)
           /\ Ids(s \o u) = Ids(s) \cup Ids(u)
           /\ Distinct(s) /\ Distinct(u) /\ Ids(s) \cap Ids(u) = {} => Distinct(s \o u)
<1> DEFINE t == s \o u
<1>1. /\ t \in Seq(S) /\ Len(t) = Len(s) + Len(u) /\ Len(s) \in Nat /\ Len(u) \in Nat
      /\ \A i \in 1 .. Len(t) : t[i] = IF i <= Len(s) THEN s[i] ELSE u[i - Len(s)]
    BY ConcatProperties
<1> HIDE DEF t
<1>2. \A i \in 1 .. Len(t) : i <= Len(s) => i \in 1 .. Len(s) /\ t[i] = s[i]
    BY <1>1
<1>3. \A i \in 1 .. Len(t) : ~(i <= Len(s)) => i - Len(s) \in 1 .. Len(u) /\ t[i] = u[i - Len(s)]
    BY <1>1
<1>4. \A i \in 1 .. Len(s) : i \in 1 .. Len(t) /\ t[i] = s[i]
    BY <1>1
<1>5. ASSUME NEW i \in 1 .. Len(u) PROVE i + Len(s) \in 1 .. Len(t) /\ t[i + Len(s)] = u[i]
    <2>1. Len(s) \in Nat /\ Len(u) \in Nat /\ Len(t) = Len(s) + Len(u)
        BY <1>1
    <2>2. i + Len(s) \in 1 .. Len(t) /\ ~(i + Len(s) <= Len(s)) /\ (i + Len(s)) - Len(s) = i
        BY <2>1
    <2> QED BY <1>1, <2>2
<1>6. Members(t) = Members(s) \cup Members(u)
    <2>1. \A i \in 1 .. Len(t) : t[i] \in Members(s) \cup Members(u)
        BY <1>2, <1>3 DEF Members
    <2>2. \A i \in 1 .. Len(s) : s[i] \in Members(t)
        BY <1>4 DEF Members
    <2>3. \A i \in 1 .. Len(u) : u[i] \in Members(t)
        BY <1>5 DEF Members
    <2>4. Members(t) \subseteq Members(s) \cup Members(u)
        BY <2>1 DEF Members
    <2>5. Members(s) \subseteq Members(t) /\ Members(u) \subseteq Members(t)
        BY <2>2, <2>3 DEF Members
    <2> QED BY <2>4, <2>5
<1>7. Ids(t) = Ids(s) \cup Ids(u)
    <2>1. \A i \in 1 .. Len(t) : t[i].id \in Ids(s) \cup Ids(u)
        BY <1>2, <1>3 DEF Ids
    <2>2. \A i \in 1 .. Len(s) : s[i].id \in Ids(t)
        BY <1>4 DEF Ids
    <2>3. \A i \in 1 .. Len(u) : u[i].id \in Ids(t)
        BY <1>5 DEF Ids
    <2>4. Ids(t) \subseteq Ids(s) \cup Ids(u)
        BY <2>1 DEF Ids
    <2>5. Ids(s) \subseteq Ids(t) /\ Ids(u) \subseteq Ids(t)
        BY <2>2, <2>3 DEF Ids
    <2> QED BY <2>4, <2>5
<1>8. ASSUME Distinct(s), Distinct(u), Ids(s) \cap Ids(u) = {} PROVE Distinct(t)
    <2> SUFFICES ASSUME NEW i \in 1 .. Len(t), NEW j \in 1 .. Len(t), t[i].id = t[j].id PROVE i = j
        BY DEF Distinct
    <2>1. CASE i <= Len(s) /\ j <= Len(s)
        BY <1>2, <1>8, <2>1 DEF Distinct
    <2>2. CASE ~(i <= Len(s)) /\ ~(j <= Len(s))
        <3>1. i - Len(s) = j - Len(s)
            BY <1>3, <1>8, <2>2 DEF Distinct
        <3> QED BY <1>1, <3>1
    <2>0. \A k \in 1 .. Len(t) : t[k].id \in IF k <= Len(s) THEN Ids(s) ELSE Ids(u)
        BY <1>2, <1>3 DEF Ids
    <2>3. CASE i <= Len(s) /\ ~(j <= Len(s))
        BY <1>8, <2>0, <2>3
    <2>4. CASE ~(i <= Len(s)) /\ j <= Len(s)
        BY <1>8, <2>0, <2>4
    <2> QED BY <2>1, <2>2, <2>3, <2>4
<1> QED BY <1>1, <1>6, <1>7, <1>8 DEF t

LEMMA SplitLines ==
    ASSUME NEW S, NEW s \in Seq(S), NEW n \in 0 .. Len(s)
    PROVE  LET a == SubSeq(s, 1, n)  b == SubSeq(s, n + 1, Len(s)) IN
           /\ a \in Seq(S) /\ b \in Seq(S)
           /\ Members(a) \cup Members(b) \subseteq Members(s)
           /\ Ids(a) \cup Ids(b) \subseteq Ids(s)
           /\ Distinct(s) => Distinct(a) /\ Distinct(b) /\ Ids(a) \cap Ids(b) = {}
<1> DEFINE a == SubSeq(s, 1, n)  b == SubSeq(s, n + 1, Len(s))
<1>0. Len(s) \in Nat /\ n \in Nat /\ n <= Len(s)
    OBVIOUS
<1>1. a \in Seq(S) /\ Len(a) = n /\ \A i \in 1 .. n : i \in 1 .. Len(s) /\ a[i] = s[i]
    BY <1>0, SubSeqProperties
<1>2. b \in Seq(S) /\ Len(b) = Len(s) - n
    BY <1>0, SubSeqProperties
<1>3. \A i \in 1 .. Len(s) - n : n + i \in 1 .. Len(s) /\ b[i] = s[n + i]
    <2> SUFFICES ASSUME NEW i \in 1 .. Len(s) - n PROVE n + i \in 1 .. Len(s) /\ b[i] = s[n + i]
        OBVIOUS
    <2>1. b[i] = s[(n + 1) + i - 1]
        BY <1>0, SubSeqProperties
    <2> QED BY <1>0, <2>1
<1> HIDE DEF a, b
<1>4. Members(a) \subseteq Members(s) /\ Ids(a) \subseteq Ids(s)
    BY <1>1 DEF Members, Ids
<1>5. Members(b) \subseteq Members(s) /\ Ids(b) \subseteq Ids(s)
    BY <1>2, <1>3 DEF Members, Ids
<1>6. ASSUME Distinct(s) PROVE Distinct(a) /\ Distinct(b) /\ Ids(a) \cap Ids(b) = {}
    <2>1. Distinct(a)
        BY <1>1, <1>6 DEF Distinct
    <2>2. Distinct(b)
        BY <1>0, <1>2, <1>3, <1>6 DEF Distinct
    <2>3. ASSUME NEW i \in 1 .. Len(a), NEW j \in 1 .. Len(b) PROVE a[i].id # b[j].id
        <3>1. i \in 1 .. Len(s) /\ a[i] = s[i] /\ i <= n
            BY <1>0, <1>1
        <3>2. n + j \in 1 .. Len(s) /\ b[j] = s[n + j]
            BY <1>0, <1>2, <1>3
        <3>3. i # n + j
            BY <1>0, <1>2, <3>1
        <3> QED BY <1>6, <3>1, <3>2, <3>3 DEF Distinct
    <2> QED BY <2>1, <2>2, <2>3 DEF Ids
<1> QED BY <1>1, <1>2, <1>4, <1>5, <1>6 DEF a, b

LEMMA TailLines ==
    ASSUME NEW S, NEW s \in Seq(S), s # <<>>
    PROVE  /\ Head(s) \in Members(s) /\ Head(s) \in S /\ Head(s).id \in Ids(s)
           /\ Tail(s) \in Seq(S) /\ Members(Tail(s)) \subseteq Members(s)
           /\ Ids(Tail(s)) \subseteq Ids(s)
           /\ Distinct(s) => Distinct(Tail(s)) /\ Head(s).id \notin Ids(Tail(s))
<1> DEFINE t == Tail(s)
<1>1. /\ t \in Seq(S) /\ Len(s) \in Nat /\ Len(s) > 0 /\ Len(t) = Len(s) - 1 /\ Head(s) = s[1]
      /\ s[1] \in S /\ \A i \in 1 .. Len(t) : t[i] = s[i + 1] /\ i + 1 \in 1 .. Len(s)
    BY HeadTailProperties, EmptySeq
<1> HIDE DEF t
<1>2. Head(s) \in Members(s) /\ Head(s).id \in Ids(s)
    BY <1>1 DEF Members, Ids
<1>3. Members(t) \subseteq Members(s) /\ Ids(t) \subseteq Ids(s)
    <2>1. ASSUME NEW i \in 1 .. Len(t) PROVE t[i] \in Members(s) /\ t[i].id \in Ids(s)
        <3>1. t[i] = s[i + 1] /\ i + 1 \in 1 .. Len(s)
            BY <1>1
        <3> QED BY <3>1 DEF Members, Ids
    <2> QED BY <2>1 DEF Members, Ids
<1>4. ASSUME Distinct(s) PROVE Distinct(t) /\ Head(s).id \notin Ids(t)
    <2>1. \A i, j \in 1 .. Len(t) : t[i].id = t[j].id => i + 1 = j + 1
        BY <1>1, <1>4 DEF Distinct
    <2>2. \A i \in 1 .. Len(t) : t[i].id # s[1].id
        <3>1. 1 \in 1 .. Len(s)
            BY <1>1
        <3>2. \A i \in 1 .. Len(t) : i + 1 # 1
            OBVIOUS
        <3> QED BY <1>1, <1>4, <3>1, <3>2 DEF Distinct
    <2>3. Distinct(t)
        BY <2>1 DEF Distinct
    <2> QED BY <1>1, <2>2, <2>3 DEF Ids
<1> QED BY <1>1, <1>2, <1>3, <1>4 DEF t
-----------------------------------------------------------------------------
(* Who knows what: the panel and the connection.                           *)

LEMMA Places ==
    ASSUME LinkTypes
    PROVE  /\ queue \in Seq(PanelLine) /\ answers \in Seq(Answer)
           /\ wire["live"] \in Seq(PanelLine) /\ wire["lost"] \in Seq(PanelLine)
BY DEF LinkTypes, ConnectionTyped

(* Whatever is somewhere has a number that was given out.                  *)
LEMMA AllKnown ==
    ASSUME LinkTypes, SayInv
    PROVE  /\ \A l \in Lines : l \in PanelLine /\ Pending(l)
           /\ \A id \in Ids(queue) \cup Ids(wire["live"]) \cup Ids(wire["lost"]) \cup Ids(answers) :
                id \in Requests /\ Known(id)
           /\ \A id \in TaskIds \cup LateIds : id \in Confirmations /\ Known(id)
<1>1. \A l \in Lines : l \in PanelLine /\ Pending(l)
    BY Places, IdsOfMembers DEF Lines, SayInv, LinesFit
<1>2. \A id \in Ids(queue) \cup Ids(wire["live"]) \cup Ids(wire["lost"]) :
        id \in Requests /\ Known(id)
    <2>1. \A l \in Lines : l.id \in Requests /\ Known(l.id)
        BY <1>1 DEF PanelLine, Pending
    <2>2. \A id \in Ids(queue) \cup Ids(wire["live"]) \cup Ids(wire["lost"]) :
            \E l \in Lines : id = l.id
        BY DEF Lines, Ids, Members
    <2> QED BY <2>1, <2>2
<1>3. \A id \in Ids(answers) : id \in Requests /\ Known(id)
    <2>1. \A a \in Members(answers) : a.id \in Requests /\ Known(a.id)
        <3>1. Members(answers) \subseteq Answer
            BY Places, IdsOfMembers
        <3>2. \A a \in Members(answers) : Known(a.id)
            BY DEF SayInv, AnswersFit, AnswerTrue
        <3>3. \A a \in Answer : a.id \in Requests
            BY DEF Answer
        <3> QED BY <3>1, <3>2, <3>3
    <2> QED BY <2>1 DEF Ids, Members
<1>4. \A id \in TaskIds : id \in Confirmations /\ Known(id)
    BY TaskKnown DEF TaskIds, SayInv, TaskSays, Pending
<1>5. \A id \in LateIds : id \in Confirmations /\ Known(id)
    BY DEF LateIds, SayInv, LateFits, LinkTypes, RockTyped, Write
<1> QED BY <1>1, <1>2, <1>3, <1>4, <1>5

(* What happens to one request says nothing of another.                    *)
LEMMA OthersStay ==
    ASSUME LinkTypes, NEW id, revision' \in Nat, revision <= revision', commands' \in Nat,
           commands <= commands', LateIds' \subseteq LateIds \cup {id},
           \A c \in Confirmations : c # id => told'[c] = told[c] /\ times'[c] = times[c]
    PROVE  /\ \A l \in Line : Pending(l) /\ l.id # id => Pending(l)'
           /\ \A a \in Answer : AnswerTrue(a) /\ a.id # id => AnswerTrue(a)'
           /\ \A c \in Confirmations : Known(c) => Known(c)'
<1>1. \A c \in Confirmations : Known(c) => Known(c)'
    <2>1. \A c \in Confirmations : c \in Nat
        BY Bounds
    <2>2. revision \in Nat /\ commands \in Nat /\ MaxRequests \in Nat
        BY Bounds DEF LinkTypes, PanelTyped
    <2> QED BY <2>1, <2>2 DEF Known
<1>2. ASSUME NEW l \in Line, Pending(l), l.id # id PROVE Pending(l)'
    <2>1. l.id \in Confirmations
        BY DEF Line
    <2>2. told'[l.id] = told[l.id] /\ times'[l.id] = times[l.id] /\ l.id \notin LateIds'
        BY <1>2, <2>1 DEF Pending
    <2> QED BY <1>1, <1>2, <2>1, <2>2 DEF Pending, Open
<1>3. ASSUME NEW a \in Answer, AnswerTrue(a), a.id # id PROVE AnswerTrue(a)'
    <2>1. a.id \in Confirmations
        BY Bounds DEF Answer
    <2>2. times'[a.id] = times[a.id] /\ (a.id \in LateIds' => a.id \in LateIds)
        BY <1>3, <2>1
    <2> QED BY <1>1, <1>3, <2>1, <2>2 DEF AnswerTrue
<1> QED BY <1>1, <1>2, <1>3

LEMMA SayInit ==
    Init => SayInv
<1> SUFFICES ASSUME Init PROVE SayInv
    OBVIOUS
<1>1. /\ queue = <<>> /\ wire = [c \in {"live", "lost"} |-> <<>>] /\ answers = <<>> /\ task = NoTask
      /\ late = {} /\ panel = ClosedPanel
      /\ told = [c \in Confirmations |-> "unasked"] /\ times = [c \in Confirmations |-> 0]
    BY DEF Init
<1>2. OnePlace
    BY <1>1, EmptyLines DEF OnePlace, Apart, TaskIds
<1>3. LinesFit /\ AnswersFit
    BY <1>1, EmptyLines DEF LinesFit, Lines, AnswersFit
<1>4. TaskSays /\ LateFits
    BY <1>1 DEF TaskSays, LateFits
<1>5. PanelFits
    BY <1>1 DEF PanelFits, ClosedPanel
<1> QED BY <1>2, <1>3, <1>4, <1>5 DEF SayInv

(* When nobody learns or does anything.                                    *)
LEMMA NothingSaid ==
    ASSUME LinkTypes, SayInv, UNCHANGED <<revision, commands, told, late, times>>,
           OnePlace', Lines' \subseteq Lines, Members(answers') \subseteq Members(answers),
           \/ UNCHANGED task
           \/ task # NoTask /\ task' # NoTask /\ task'.line = task.line /\ (Written' <=> Written)
           \/ task' = NoTask
           \/ task' # NoTask /\ task'.line \in Lines /\ task'.step = "begin",
           \/ panel'.phase # "saving" \/ UNCHANGED panel
    PROVE  SayInv'
<1>1. \A c : (Known(c) <=> Known(c)') /\ (Open(c) <=> Open(c)')
    BY DEF Known, Open
<1>2. \A l : Pending(l) <=> Pending(l)'
    BY <1>1 DEF Pending, LateIds
<1>3. \A a : AnswerTrue(a) <=> AnswerTrue(a)'
    BY <1>1 DEF AnswerTrue, LateIds
<1>4. LinesFit' /\ AnswersFit'
    BY <1>2, <1>3 DEF SayInv, LinesFit, AnswersFit
<1>5. TaskSays'
    <2>1. CASE UNCHANGED task
        BY <1>1, <1>2, <2>1 DEF SayInv, TaskSays, Written, LateIds
    <2>2. CASE task # NoTask /\ task' # NoTask /\ task'.line = task.line /\ (Written' <=> Written)
        BY <1>1, <1>2, <2>2 DEF SayInv, TaskSays, LateIds
    <2>3. CASE task' = NoTask
        BY <2>3 DEF TaskSays
    <2>4. CASE task' # NoTask /\ task'.line \in Lines /\ task'.step = "begin"
        <3>1. Pending(task'.line)
            BY <2>4 DEF SayInv, LinesFit
        <3>2. Pending(task.line)'
            BY <1>2, <3>1
        <3> QED BY <2>4, <3>2 DEF TaskSays, Written
    <2> QED BY <2>1, <2>2, <2>3, <2>4
<1>6. LateFits'
    BY <1>1 DEF SayInv, LateFits
<1>7. PanelFits'
    BY <1>1 DEF SayInv, PanelFits
<1> QED BY <1>4, <1>5, <1>6, <1>7 DEF SayInv

(* A new line is sent, or waits with the others for a connection.          *)
LEMMA SendPlaces ==
    ASSUME LinkTypes, OnePlace, NEW line \in PanelLine, NEW waiting \in Seq(PanelLine),
           Ids(waiting) \subseteq Ids(queue), Members(waiting) \subseteq Members(queue),
           Distinct(waiting), UNCHANGED <<task, answers>>,
           line.id \notin Ids(queue) \cup Ids(wire["live"]) \cup Ids(wire["lost"]) \cup TaskIds
                            \cup Ids(answers),
           IF socket = "up"
             THEN queue' = <<>> /\ wire' = [wire EXCEPT !["live"] = @ \o Append(waiting, line)]
             ELSE queue' = Append(waiting, line) /\ UNCHANGED wire
    PROVE  OnePlace' /\ Lines' \subseteq Lines \cup {line}
<1>1. PICK sent \in Seq(PanelLine) :
        /\ sent = Append(waiting, line) /\ Distinct(sent)
        /\ Ids(sent) = Ids(waiting) \cup {line.id} /\ Members(sent) = Members(waiting) \cup {line}
    <2>1. line.id \notin Ids(waiting)
        OBVIOUS
    <2>2. /\ Append(waiting, line) \in Seq(PanelLine) /\ Distinct(Append(waiting, line))
          /\ Members(Append(waiting, line)) = Members(waiting) \cup {line}
          /\ Ids(Append(waiting, line)) = Ids(waiting) \cup {line.id}
        BY <2>1, AppendLines
    <2> QED BY <2>2
<1>2. TaskIds' = TaskIds /\ answers' = answers
    BY DEF TaskIds
<1>3. Distinct(queue) /\ Distinct(wire["live"]) /\ Distinct(wire["lost"]) /\ Distinct(answers)
    BY DEF OnePlace, Apart
<1>4. CASE socket = "up"
    <2>1. PICK live \in Seq(PanelLine) : live = wire["live"] \o sent
        BY Places, ConcatLines
    <2>2. queue' = <<>> /\ wire'["live"] = live /\ wire'["lost"] = wire["lost"]
        BY <1>1, <1>4, <2>1 DEF LinkTypes, ConnectionTyped
    <2>3. Ids(sent) \cap Ids(wire["live"]) = {}
        BY <1>1 DEF OnePlace, Apart
    <2>4. /\ Distinct(live) /\ Ids(live) = Ids(wire["live"]) \cup Ids(sent)
          /\ Members(live) = Members(wire["live"]) \cup Members(sent)
        <3>1. PICK before \in Seq(PanelLine) : before = wire["live"]
            BY Places
        <3>2. Distinct(before) /\ Ids(before) \cap Ids(sent) = {} /\ live = before \o sent
            BY <1>3, <2>1, <2>3, <3>1
        <3>3. /\ Members(before \o sent) = Members(before) \cup Members(sent)
              /\ Ids(before \o sent) = Ids(before) \cup Ids(sent) /\ Distinct(before \o sent)
            <4>1. sent \in Seq(PanelLine) /\ Distinct(sent)
                BY <1>1
            <4> HIDE <1>1
            <4> QED BY <3>2, <4>1, ConcatLines
        <3> QED BY <3>1, <3>2, <3>3
    <2>5. Lines' \subseteq Lines \cup {line}
        BY <1>1, <2>2, <2>4, EmptyLines DEF Lines
    <2>6. OnePlace'
        BY <1>1, <1>2, <1>3, <2>2, <2>4, EmptyLines DEF OnePlace, Apart
    <2> QED BY <2>5, <2>6
<1>5. CASE socket # "up"
    <2>1. queue' = sent /\ UNCHANGED wire
        BY <1>1, <1>5
    <2>2. Lines' \subseteq Lines \cup {line}
        BY <1>1, <2>1 DEF Lines
    <2>3. OnePlace'
        BY <1>1, <1>2, <1>3, <2>1 DEF OnePlace, Apart
    <2> QED BY <2>2, <2>3
<1> QED BY <1>4, <1>5

LEMMA NextNumber ==
    ASSUME LinkTypes, SayInv, revision < MaxRequests
    PROVE  LET r == revision + 1 IN
           /\ r \in Requests /\ r \in Confirmations /\ ~Known(r) /\ r \notin LateIds
           /\ told[r] = "unasked" /\ times[r] = 0
           /\ r \notin Ids(queue) \cup Ids(wire["live"]) \cup Ids(wire["lost"]) \cup TaskIds
                         \cup Ids(answers)
<1>1. revision \in Nat
    BY DEF LinkTypes, PanelTyped
<1>2. revision + 1 \in Requests /\ revision + 1 \in Confirmations
    BY <1>1, Bounds DEF Requests
<1>3. ~Known(revision + 1)
    BY <1>1, <1>2 DEF Known
<1> QED BY <1>2, <1>3, AllKnown DEF SayInv, PanelFits

LEMMA SendSays ==
    ASSUME LinkTypes, SayInv, NEW waiting \in {<<>>, queue}, NEW op \in {"prepare", "commit"},
           NEW target \in Nat, NEW u \in Urls, panel' \in Panel, Send(waiting, op, target, u),
           told' = IF op = "commit" THEN [told EXCEPT ![revision + 1] = "open"] ELSE told,
           panel'.phase = "saving" => op = "commit" /\ panel'.request = revision + 1
    PROVE  SayInv'
<1>0. PICK r : r = revision + 1
    OBVIOUS
<1>a. PICK line : line = [op |-> op, kind |-> panel'.kind, id |-> r,
                          draft |-> panel.draft, target |-> target, url |-> u]
    OBVIOUS
<1>1. /\ revision < MaxRequests /\ revision' = r
      /\ UNCHANGED <<commands, socket, answers, task, managerVars, rockVars>>
      /\ IF socket = "up"
           THEN queue' = <<>> /\ wire' = [wire EXCEPT !["live"] = @ \o Append(waiting, line)]
           ELSE queue' = Append(waiting, line) /\ UNCHANGED wire
    BY <1>0, <1>a DEF Send
<1>2. /\ r \in Requests /\ r \in Confirmations /\ ~Known(r) /\ r \notin LateIds
      /\ told[r] = "unasked" /\ times[r] = 0
      /\ r \notin Ids(queue) \cup Ids(wire["live"]) \cup Ids(wire["lost"]) \cup TaskIds \cup Ids(answers)
    BY <1>0, <1>1, NextNumber
<1>3. line \in PanelLine /\ line.id = r /\ line.op = op
    BY <1>a, <1>2 DEF PanelLine, Line, Panel, LinkTypes, PanelTyped
<1>4. /\ waiting \in Seq(PanelLine) /\ Ids(waiting) \subseteq Ids(queue)
      /\ Members(waiting) \subseteq Members(queue) /\ Distinct(waiting)
    <2>1. CASE waiting = queue
        BY <2>1, Places DEF SayInv, OnePlace, Apart
    <2>2. CASE waiting = <<>>
        <3>1. <<>> \in Seq(PanelLine)
            OBVIOUS
        <3> QED BY <2>2, <3>1, EmptyLines
    <2> QED BY <2>1, <2>2
<1>5. OnePlace' /\ Lines' \subseteq Lines \cup {line}
    BY <1>1, <1>2, <1>3, <1>4, SendPlaces DEF SayInv
<1>6. UNCHANGED <<late, times, task, answers, commands>>
    BY <1>1 DEF rockVars, recordVars
<1>b. \A c \in Confirmations : c # r => told'[c] = told[c] /\ times'[c] = times[c]
    BY <1>0, <1>6 DEF LinkTypes, PanelTyped
<1>7. /\ \A l \in Line : Pending(l) /\ l.id # r => Pending(l)'
      /\ \A a \in Answer : AnswerTrue(a) /\ a.id # r => AnswerTrue(a)'
      /\ \A c \in Confirmations : Known(c) => Known(c)'
    <2>2. /\ revision' \in Nat /\ revision <= revision' /\ commands' \in Nat /\ commands <= commands'
          /\ LateIds' \subseteq LateIds \cup {r}
        BY <1>0, <1>1, <1>6 DEF LinkTypes, PanelTyped, LateIds
    <2> QED BY <1>b, <2>2, OthersStay
<1>8. Known(r)' /\ told' \in [Confirmations -> Outcomes]
      /\ told'[r] = IF op = "commit" THEN "open" ELSE "unasked"
    <2>1. Known(r)'
        BY <1>0, <1>1, <1>2 DEF Known, LinkTypes, PanelTyped
    <2>2. /\ told' \in [Confirmations -> Outcomes]
          /\ told'[r] = IF op = "commit" THEN "open" ELSE "unasked"
        BY <1>0, <1>2 DEF LinkTypes, PanelTyped, Outcomes
    <2> QED BY <2>1, <2>2
<1>9. Pending(line)'
    BY <1>2, <1>3, <1>6, <1>8 DEF Pending, Open, LateIds
<1>10. LinesFit'
    <2>1. ASSUME NEW l \in Lines' PROVE Pending(l)'
        <3>1. CASE l = line
            BY <1>9, <3>1
        <3>2. CASE l \in Lines
            <4>1. l \in Line /\ Pending(l)
                BY <3>2, AllKnown DEF PanelLine
            <4>2. l.id # r
                BY <1>2, <4>1 DEF Pending
            <4> QED BY <1>7, <4>1, <4>2
        <3> QED BY <1>5, <3>1, <3>2
    <2> QED BY <2>1 DEF LinesFit
<1>11. AnswersFit'
    <2>1. ASSUME NEW a \in Members(answers) PROVE AnswerTrue(a)'
        <3>1. AnswerTrue(a) /\ a \in Answer
            BY Places, IdsOfMembers DEF SayInv, AnswersFit
        <3>2. a.id # r
            BY <1>2, <3>1 DEF AnswerTrue
        <3> QED BY <1>7, <3>1, <3>2
    <2> QED BY <1>6, <2>1 DEF AnswersFit
<1>12. TaskSays'
    <2>1. CASE task = NoTask
        BY <1>6, <2>1 DEF TaskSays
    <2>2. CASE task # NoTask
        <3>1. task.line \in Line /\ task.line.id \in Confirmations /\ task.line.id # r
            BY <1>2, <2>2, TaskKnown DEF TaskIds
        <3>2. told'[task.line.id] = told[task.line.id]
            BY <1>b, <3>1
        <3>3. CASE Written
            BY <1>6, <1>7, <2>2, <3>1, <3>2, <3>3 DEF SayInv, TaskSays, Written, Open, LateIds
        <3>4. CASE ~Written
            <4>1. Pending(task.line)
                BY <2>2, <3>4 DEF SayInv, TaskSays
            <4>2. Pending(task.line)'
                BY <1>6, <1>7, <3>1, <4>1
            <4> QED BY <1>6, <3>4, <4>2 DEF TaskSays, Written
        <3> QED BY <3>3, <3>4
    <2> QED BY <2>1, <2>2
<1>13. LateFits'
    <2>1. \A w \in late : w.id \in Confirmations /\ w.id # r
        BY <1>2, AllKnown DEF LateIds
    <2>2. \A w \in late : told'[w.id] = told[w.id]
        BY <1>b, <2>1
    <2> QED BY <1>6, <1>7, <2>1, <2>2 DEF SayInv, LateFits, Open
<1>14. PanelFits'
    <2>1. ASSUME NEW c \in Confirmations, ~Known(c)' PROVE told'[c] = "unasked" /\ times'[c] = 0
        <3>1. ~Known(c) /\ c # r
            BY <1>7, <1>8, <2>1
        <3>2. told[c] = "unasked" /\ times[c] = 0
            BY <3>1 DEF SayInv, PanelFits
        <3> QED BY <1>b, <3>1, <3>2
    <2>2. panel'.phase = "saving" => panel'.request \in Requests /\ told'[panel'.request] = "open"
        BY <1>0, <1>2, <1>8
    <2> QED BY <2>1, <2>2 DEF PanelFits
<1> QED BY <1>5, <1>10, <1>11, <1>12, <1>13, <1>14 DEF SayInv

(* The panel tells the user an outcome, of a request that is nowhere any   *)
(* more unless the outcome is unknown.                                     *)
LEMMA ToldSays ==
    ASSUME LinkTypes, SayInv, NEW outcome \in Outcomes, Tell(outcome),
           UNCHANGED <<revision, commands, late, times>>,
           OnePlace', Lines' \subseteq Lines, Members(answers') \subseteq Members(answers),
           \/ UNCHANGED task
           \/ task # NoTask /\ task' # NoTask /\ task'.line = task.line /\ (Written' <=> Written),
           panel'.phase # "saving",
           panel.phase = "saving" /\ outcome # "unknown" =>
             panel.request \notin {l.id : l \in Lines} \cup TaskIds \cup LateIds
    PROVE  SayInv'
<1>1. CASE panel.phase # "saving"
    <2>1. UNCHANGED told
        BY <1>1 DEF Tell
    <2> QED BY <2>1, NothingSaid
<1>2. CASE panel.phase = "saving"
    <2>1. PICK id \in Requests : id = panel.request /\ told[id] = "open"
        BY <1>2 DEF SayInv, PanelFits
    <2>2. told' = [told EXCEPT ![id] = outcome]
        BY <1>2, <2>1 DEF Tell
    <2>3. /\ \A c \in Confirmations : c # id => told'[c] = told[c] /\ times'[c] = times[c]
          /\ told'[id] = outcome
        BY <2>2, Bounds DEF LinkTypes, PanelTyped
    <2>4. /\ \A l \in Line : Pending(l) /\ l.id # id => Pending(l)'
          /\ \A c \in Confirmations : Known(c) <=> Known(c)'
        <3>1. /\ revision' \in Nat /\ revision <= revision' /\ commands' \in Nat
              /\ commands <= commands' /\ LateIds' \subseteq LateIds \cup {id}
            BY DEF LinkTypes, PanelTyped, LateIds
        <3>2. \A l \in Line : Pending(l) /\ l.id # id => Pending(l)'
            BY <2>3, <3>1, OthersStay
        <3> QED BY <3>2 DEF Known
    <2>5. \A l \in Line : Pending(l) /\ (l.id = id => outcome = "unknown") => Pending(l)'
        <3>1. ASSUME NEW l \in Line, Pending(l), l.id = id, outcome = "unknown" PROVE Pending(l)'
            <4>1. l.op = "commit"
                BY <2>1, <3>1 DEF Pending
            <4>2. id \in Confirmations
                BY Bounds
            <4> QED BY <2>3, <2>4, <3>1, <4>1, <4>2 DEF Pending, Open, LateIds
        <3> QED BY <2>4, <3>1
    <2>6. LinesFit'
        <3>1. ASSUME NEW l \in Lines PROVE Pending(l)'
            <4>1. l \in Line /\ Pending(l)
                BY AllKnown DEF PanelLine
            <4>2. l.id = id => outcome = "unknown"
                BY <1>2, <2>1
            <4> QED BY <2>5, <4>1, <4>2
        <3> QED BY <3>1 DEF LinesFit
    <2>7. TaskSays'
        <3>1. CASE task = NoTask
            <4>1. task' = NoTask
                BY <3>1
            <4> QED BY <4>1 DEF TaskSays
        <3>2. CASE task # NoTask
            <4>1. /\ task.line \in Line /\ task.line.id \in Confirmations /\ task'.line = task.line
                  /\ task' # NoTask /\ (Written' <=> Written)
                BY <3>2, TaskKnown DEF Written
            <4>2. task.line.id = id => outcome = "unknown"
                BY <1>2, <2>1, <3>2 DEF TaskIds
            <4>3. CASE Written
                <5>1. Open(task.line.id)'
                    BY <2>3, <3>2, <4>1, <4>2, <4>3 DEF SayInv, TaskSays, Open
                <5>2. /\ Known(task.line.id)' /\ times'[task.line.id] = 1
                      /\ task.line.id \notin LateIds'
                    BY <2>4, <3>2, <4>1, <4>3 DEF SayInv, TaskSays, LateIds
                <5> QED BY <4>1, <4>3, <5>1, <5>2 DEF TaskSays, Open, Known
            <4>4. CASE ~Written
                <5>1. Pending(task.line)
                    BY <3>2, <4>4 DEF SayInv, TaskSays
                <5>2. PICK l \in Line : l = task.line
                    BY <4>1
                <5>3. Pending(l)' /\ task'.line = l
                    BY <2>5, <4>1, <4>2, <5>1, <5>2
                <5>4. Pending(task.line)'
                    BY <5>3 DEF Pending, Known, Open
                <5> QED BY <4>1, <4>4, <5>4 DEF TaskSays
            <4> QED BY <4>3, <4>4
        <3> QED BY <3>1, <3>2
    <2>8. AnswersFit'
        BY <2>4 DEF SayInv, AnswersFit, AnswerTrue, LateIds, Known
    <2>9. LateFits'
        <3>1. ASSUME NEW w \in late PROVE Open(w.id)' /\ Known(w.id)'
            <4>1. w.id \in Confirmations /\ Open(w.id) /\ Known(w.id)
                BY AllKnown DEF SayInv, LateFits, LateIds
            <4>2. w.id = id => outcome = "unknown"
                BY <1>2, <2>1 DEF LateIds
            <4> QED BY <2>3, <2>4, <4>1, <4>2 DEF Open
        <3> QED BY <3>1 DEF SayInv, LateFits
    <2>10. PanelFits'
        <3>1. ASSUME NEW c \in Confirmations, ~Known(c)' PROVE told'[c] = "unasked" /\ times'[c] = 0
            <4>1. told[c] = "unasked" /\ times[c] = 0
                BY <2>4, <3>1 DEF SayInv, PanelFits
            <4> QED BY <2>1, <2>3, <4>1
        <3> QED BY <3>1 DEF PanelFits
    <2> QED BY <2>6, <2>7, <2>8, <2>9, <2>10 DEF SayInv
<1> QED BY <1>1, <1>2

(* The socket goes down: what was written to it may still be read.         *)
LEMMA DownPlaces ==
    ASSUME LinkTypes, OnePlace, Down, queue' \in {<<>>, queue}
    PROVE  /\ OnePlace' /\ Lines' \subseteq Lines /\ Members(answers') \subseteq Members(answers)
           /\ \/ UNCHANGED task
              \/ task # NoTask /\ task' # NoTask /\ task'.line = task.line /\ (Written' <=> Written)
<1>1. \/ UNCHANGED task
      \/ task # NoTask /\ task' # NoTask /\ task'.line = task.line /\ (Written' <=> Written)
    <2>1. CASE task = NoTask
        BY <2>1 DEF Down
    <2>2. CASE task # NoTask
        <3>1. PICK b : task' = [task EXCEPT !.live = b]
            BY <2>2 DEF Down
        <3>2. task'.step = task.step /\ task'.line = task.line
            BY <2>2, <3>1, TaskKnown DEF Task
        <3>3. task' # NoTask
            BY <2>2, <3>1, TaskKnown DEF Task, NoTask
        <3> QED BY <2>2, <3>2, <3>3 DEF Written
    <2> QED BY <2>1, <2>2
<1>2. TaskIds' = TaskIds
    BY <1>1 DEF TaskIds
<1>3. PICK live \in Seq(PanelLine), lost \in Seq(PanelLine) : live = wire["live"] /\ lost = wire["lost"]
    BY Places
<1>4. /\ answers' = <<>> /\ wire'["live"] = <<>> /\ wire'["lost"] = lost \o live
    BY <1>3 DEF Down, LinkTypes, ConnectionTyped
<1>5. Distinct(live) /\ Distinct(lost) /\ Ids(lost) \cap Ids(live) = {}
    BY <1>3 DEF OnePlace, Apart
<1>6. /\ Members(lost \o live) = Members(lost) \cup Members(live)
      /\ Ids(lost \o live) = Ids(lost) \cup Ids(live) /\ Distinct(lost \o live)
    BY <1>5, ConcatLines
<1>7. Ids(queue') \subseteq Ids(queue) /\ Members(queue') \subseteq Members(queue) /\ Distinct(queue')
    BY EmptyLines DEF OnePlace, Apart
<1>8. Lines' \subseteq Lines /\ Members(answers') \subseteq Members(answers)
    BY <1>3, <1>4, <1>6, <1>7, EmptyLines DEF Lines
<1>9. OnePlace'
    BY <1>2, <1>3, <1>4, <1>5, <1>6, <1>7, EmptyLines DEF OnePlace, Apart
<1> QED BY <1>1, <1>8, <1>9

LEMMA ConnectSays ==
    ASSUME LinkTypes, SayInv, Connect
    PROVE  SayInv'
<1>1. PICK n \in 0 .. Len(queue), c \in {"live", "lost"} :
        /\ queue' = SubSeq(queue, n + 1, Len(queue))
        /\ wire' = [wire EXCEPT ![c] = @ \o SubSeq(queue, 1, n)]
    BY DEF Connect
<1>2. PICK a \in Seq(PanelLine), b \in Seq(PanelLine) :
        /\ a = SubSeq(queue, 1, n) /\ b = SubSeq(queue, n + 1, Len(queue))
        /\ Members(a) \cup Members(b) \subseteq Members(queue)
        /\ Ids(a) \cup Ids(b) \subseteq Ids(queue)
        /\ Distinct(a) /\ Distinct(b) /\ Ids(a) \cap Ids(b) = {}
    <2>1. PICK q \in Seq(PanelLine) : q = queue
        BY Places
    <2>2. n \in 0 .. Len(q) /\ Distinct(q)
        BY <2>1 DEF SayInv, OnePlace, Apart
    <2>3. LET a == SubSeq(q, 1, n)  b == SubSeq(q, n + 1, Len(q)) IN
          /\ a \in Seq(PanelLine) /\ b \in Seq(PanelLine)
          /\ Members(a) \cup Members(b) \subseteq Members(q)
          /\ Ids(a) \cup Ids(b) \subseteq Ids(q)
          /\ Distinct(q) => Distinct(a) /\ Distinct(b) /\ Ids(a) \cap Ids(b) = {}
        BY <2>2, SplitLines
    <2> QED BY <2>1, <2>2, <2>3
<1>3. PICK live \in Seq(PanelLine), lost \in Seq(PanelLine) : live = wire["live"] /\ lost = wire["lost"]
    BY Places
<1>4. /\ Distinct(a) /\ Distinct(live) /\ Distinct(lost)
      /\ Ids(live) \cap Ids(a) = {} /\ Ids(lost) \cap Ids(a) = {}
    BY <1>2, <1>3 DEF SayInv, OnePlace, Apart
<1>5. UNCHANGED <<clientVars, answers, task, managerVars, rockVars>> /\ TaskIds' = TaskIds
    BY DEF Connect, TaskIds
<1>6. OnePlace' /\ Lines' \subseteq Lines
    <2>1. CASE c = "live"
        <3>1. /\ Members(live \o a) = Members(live) \cup Members(a)
              /\ Ids(live \o a) = Ids(live) \cup Ids(a) /\ Distinct(live \o a)
            BY <1>4, ConcatLines
        <3>2. queue' = b /\ wire'["live"] = live \o a /\ wire'["lost"] = lost
            BY <1>1, <1>2, <1>3, <2>1 DEF LinkTypes, ConnectionTyped
        <3>3. Lines' \subseteq Lines
            BY <1>2, <1>3, <3>1, <3>2 DEF Lines
        <3>4. OnePlace'
            BY <1>2, <1>3, <1>4, <1>5, <3>1, <3>2 DEF SayInv, OnePlace, Apart
        <3> QED BY <3>3, <3>4
    <2>2. CASE c = "lost"
        <3>1. /\ Members(lost \o a) = Members(lost) \cup Members(a)
              /\ Ids(lost \o a) = Ids(lost) \cup Ids(a) /\ Distinct(lost \o a)
            BY <1>4, ConcatLines
        <3>2. queue' = b /\ wire'["live"] = live /\ wire'["lost"] = lost \o a
            BY <1>1, <1>2, <1>3, <2>2 DEF LinkTypes, ConnectionTyped
        <3>3. Lines' \subseteq Lines
            BY <1>2, <1>3, <3>1, <3>2 DEF Lines
        <3>4. OnePlace'
            BY <1>2, <1>3, <1>4, <1>5, <3>1, <3>2 DEF SayInv, OnePlace, Apart
        <3> QED BY <3>3, <3>4
    <2> QED BY <2>1, <2>2
<1> QED BY <1>5, <1>6, NothingSaid DEF clientVars, rockVars, recordVars

LEMMA ConnectionSays ==
    ASSUME LinkTypes, SayInv, ConnectionStep
    PROVE  SayInv'
<1>1. CASE Connect
    BY <1>1, ConnectSays
<1>2. CASE Disconnect
    <2>1. Down /\ UNCHANGED <<clientVars, queue, managerVars, rockVars>>
        BY <1>2 DEF Disconnect
    <2>2. queue' \in {<<>>, queue}
        BY <2>1
    <2> QED BY <2>1, <2>2, DownPlaces, NothingSaid DEF SayInv, clientVars, rockVars, recordVars
<1>3. CASE ConnectionFailed
    <2>1. /\ Down /\ queue' = <<>> /\ panel' = Interrupted(panel) /\ Tell("unknown")
          /\ UNCHANGED <<revision, commands, managerVars, rockVars>>
        BY <1>3 DEF ConnectionFailed
    <2>2. panel'.phase # "saving"
        BY <2>1 DEF Interrupted, LinkTypes, PanelTyped, Panel
    <2>3. queue' \in {<<>>, queue} /\ "unknown" \in Outcomes
        BY <2>1 DEF Outcomes
    <2>4. UNCHANGED <<late, times>>
        BY <2>1 DEF rockVars, recordVars
    <2> QED BY <2>1, <2>2, <2>3, <2>4, DownPlaces, ToldSays DEF SayInv
<1> QED BY <1>1, <1>2, <1>3 DEF ConnectionStep

LEMMA SendingSays ==
    ASSUME LinkTypes, SayInv, Begin \/ Reload \/ Save
    PROVE  SayInv'
<1>0. panel' \in Panel
    BY PanelTypes DEF PanelStep, LinkTypes, PanelTyped
<1>1. CASE Begin
    <2>1. PICK k \in Asked \ {"delete-empty"}, u \in Urls :
          \E n \in IF k \in Deletes THEN 1 .. last ELSE {0} :
             /\ panel' = [ClosedPanel EXCEPT !.phase = "loading", !.kind = k, !.target = n,
                                             !.request = revision + 1]
             /\ Send(<<>>, "prepare", n, u)
        BY <1>1 DEF Begin
    <2>2. (IF k \in Deletes THEN 1 .. last ELSE {0}) \subseteq Nat
        BY DEF LinkTypes, RockTyped
    <2>3. PICK n \in Nat :
             /\ panel' = [ClosedPanel EXCEPT !.phase = "loading", !.kind = k, !.target = n,
                                             !.request = revision + 1]
             /\ Send(<<>>, "prepare", n, u)
        BY <2>1, <2>2
    <2>4. panel'.phase # "saving" /\ UNCHANGED told
        BY <1>1, <2>3 DEF Begin, ClosedPanel
    <2> QED BY <1>0, <2>3, <2>4, SendSays
<1>2. CASE Reload
    <2>1. PICK u \in Urls : Send(queue, "prepare", panel.target, u)
        BY <1>2 DEF Reload
    <2>2. panel'.phase # "saving" /\ UNCHANGED told /\ panel.target \in Nat
        BY <1>2 DEF Reload, Panel, LinkTypes, PanelTyped
    <2> QED BY <1>0, <2>1, <2>2, SendSays
<1>3. CASE Save
    <2>1. /\ panel' = [panel EXCEPT !.phase = "saving", !.request = revision + 1]
          /\ told' = [told EXCEPT ![revision + 1] = "open"]
          /\ \E u \in Urls, n \in CASE panel.kind = "link" -> panel.offered
                                    [] panel.kind = "section" -> Names
                                    [] OTHER -> {0} :
                Send(queue, "commit", n, u)
        BY <1>3 DEF Save
    <2>2. PICK u \in Urls, n \in Nat : Send(queue, "commit", n, u)
        <3>1. (CASE panel.kind = "link" -> panel.offered
                 [] panel.kind = "section" -> Names
                 [] OTHER -> {0}) \subseteq Nat
            BY DEF Names, LinkTypes, PanelTyped, Panel, Numbers
        <3> QED BY <2>1, <3>1
    <2>3. panel'.request = revision + 1
        BY <2>1 DEF LinkTypes, PanelTyped, Panel
    <2> QED BY <1>0, <2>1, <2>2, <2>3, SendSays
<1> QED BY <1>1, <1>2, <1>3

LEMMA CloseSays ==
    ASSUME LinkTypes, SayInv, Close
    PROVE  SayInv'
<1>1. /\ panel' = ClosedPanel /\ queue' = <<>>
      /\ UNCHANGED <<revision, commands, told, socket, wire, answers, task, managerVars, rockVars>>
    BY DEF Close
<1>2. OnePlace'
    BY <1>1, EmptyLines DEF SayInv, OnePlace, Apart, TaskIds
<1>3. Lines' \subseteq Lines /\ panel'.phase # "saving" /\ UNCHANGED <<late, times>>
    BY <1>1, EmptyLines DEF Lines, ClosedPanel, rockVars, recordVars
<1> QED BY <1>1, <1>2, <1>3, NothingSaid

LEMMA ReceiveSays ==
    ASSUME LinkTypes, SayInv, Receive
    PROVE  SayInv'
<1>1. /\ answers # <<>> /\ answers' = Tail(answers)
      /\ UNCHANGED <<revision, commands, queue, socket, wire, task, managerVars, rockVars>>
    BY DEF Receive
<1>2. PICK a \in Answer : a = Head(answers) /\ a \in Members(answers) /\ a.id \in Ids(answers)
    BY <1>1, Places, TailLines
<1>3. /\ Members(answers') \subseteq Members(answers) /\ Ids(answers') \subseteq Ids(answers)
      /\ Distinct(answers')
    BY <1>1, Places, TailLines DEF SayInv, OnePlace, Apart
<1>4. OnePlace'
    BY <1>1, <1>3 DEF SayInv, OnePlace, Apart, TaskIds
<1>5. Lines' \subseteq Lines /\ UNCHANGED <<late, times>>
    BY <1>1 DEF Lines, rockVars, recordVars
<1>6. AnswerTrue(a)
    BY <1>2 DEF SayInv, AnswersFit
<1>7. CASE UNCHANGED told /\ (panel'.phase # "saving" \/ UNCHANGED panel)
    BY <1>1, <1>3, <1>4, <1>5, <1>7, NothingSaid
<1>8. CASE Tell("unknown") /\ panel'.phase # "saving"
    BY <1>1, <1>3, <1>4, <1>5, <1>8, ToldSays DEF Outcomes
<1>9. ASSUME NEW outcome \in Outcomes, Tell(outcome), panel'.phase # "saving",
             a.id = panel.request, a.state # "uncertain"
      PROVE  SayInv'
    <2>1. a.id \notin {l.id : l \in Lines} \cup TaskIds \cup LateIds
        <3>1. \A l \in Lines : l.id \in Ids(queue) \cup Ids(wire["live"]) \cup Ids(wire["lost"])
            BY DEF Lines, Ids, Members
        <3>2. a.id \notin Ids(queue) \cup Ids(wire["live"]) \cup Ids(wire["lost"]) \cup TaskIds
            BY <1>2 DEF SayInv, OnePlace, Apart
        <3> QED BY <1>6, <1>9, <3>1, <3>2 DEF AnswerTrue
    <2> QED BY <1>1, <1>3, <1>4, <1>5, <1>9, <2>1, ToldSays
<1>10. CASE a.state = "bare"
    <2>1. panel' = Interrupted(panel) /\ Tell("unknown")
        <3>1. Head(answers).state = "bare"
            BY <1>2, <1>10
        <3> QED BY <3>1 DEF Receive
    <2>2. panel'.phase # "saving"
        BY <2>1 DEF Interrupted, LinkTypes, PanelTyped, Panel
    <2> QED BY <1>8, <2>1, <2>2
<1>11. CASE a.state # "bare" /\ (panel.phase \notin {"loading", "saving"} \/ a.id # panel.request)
    <2>1. /\ Head(answers).state # "bare"
          /\ panel.phase \notin {"loading", "saving"} \/ Head(answers).id # panel.request
        BY <1>2, <1>11
    <2>2. UNCHANGED <<panel, told>>
        BY <2>1 DEF Receive
    <2> QED BY <1>7, <2>2
<1>12. CASE a.state # "bare" /\ ~(panel.phase \notin {"loading", "saving"} \/ a.id # panel.request)
    <2>1. CASE a.state \in {"done", "found"}
        <3>1. panel' = ClosedPanel /\ Tell(a.state)
            BY <1>2, <1>12, <2>1 DEF Receive
        <3>2. panel'.phase # "saving" /\ a.state \in Outcomes
            BY <2>1, <3>1 DEF ClosedPanel, Outcomes
        <3> QED BY <1>9, <1>12, <2>1, <3>1, <3>2
    <2>2. CASE a.state = "draft"
        <3>1. /\ panel' = [panel EXCEPT !.phase = "form", !.draft = a.draft, !.offered = a.offered]
              /\ UNCHANGED told
            BY <1>2, <1>12, <2>2 DEF Receive
        <3>2. panel'.phase # "saving"
            BY <3>1 DEF LinkTypes, PanelTyped, Panel
        <3> QED BY <1>7, <3>1, <3>2
    <2>3. CASE a.state \notin {"done", "found", "draft"}
        <3>1. /\ panel' = [panel EXCEPT !.phase = "form", !.draft = 0]
              /\ Tell(IF a.state = "uncertain" THEN "unknown" ELSE "not_done")
            BY <1>2, <1>12, <2>3 DEF Receive
        <3>2. panel'.phase # "saving" /\ "not_done" \in Outcomes
            BY <3>1 DEF LinkTypes, PanelTyped, Panel, Outcomes
        <3>3. CASE a.state = "uncertain"
            BY <1>8, <3>1, <3>2, <3>3
        <3>4. CASE a.state # "uncertain"
            BY <1>9, <1>12, <3>1, <3>2, <3>4
        <3> QED BY <3>3, <3>4
    <2> QED BY <2>1, <2>2, <2>3
<1> QED BY <1>10, <1>11, <1>12

(* Who knows what: the requests that are taken up.                         *)
LEMMA TakeLineSays ==
    ASSUME LinkTypes, SayInv, TakeLine
    PROVE  SayInv'
<1>1. PICK c \in {"live", "lost"} : \E n \in 1 .. Len(wire[c]) :
        /\ wire' = [wire EXCEPT ![c] = SubSeq(@, n + 1, Len(@))]
        /\ task' = Started(wire[c][n], c = "live", Actions)
    BY DEF TakeLine
<1>2. PICK n \in 1 .. Len(wire[c]) :
        /\ wire' = [wire EXCEPT ![c] = SubSeq(@, n + 1, Len(@))]
        /\ task' = Started(wire[c][n], c = "live", Actions)
    BY <1>1
<1>3. task = NoTask /\ UNCHANGED <<clientVars, queue, socket, answers, managerVars, rockVars>>
    BY DEF TakeLine
<1>4. PICK s \in Seq(PanelLine) : s = wire[c] /\ Distinct(s)
    BY Places DEF SayInv, OnePlace, Apart
<1>5. n \in 1 .. Len(s) /\ Len(s) \in Nat
    BY <1>2, <1>4
<1>6. PICK line \in PanelLine : line = s[n] /\ line \in Members(s)
    BY <1>5 DEF Members
<1>7. PICK rest \in Seq(PanelLine) :
        /\ rest = SubSeq(s, n + 1, Len(s)) /\ Members(rest) \subseteq Members(s)
        /\ Ids(rest) \subseteq Ids(s) /\ Distinct(rest)
    <2>1. n \in 0 .. Len(s)
        BY <1>5
    <2>2. LET a == SubSeq(s, 1, n)  b == SubSeq(s, n + 1, Len(s)) IN
          /\ a \in Seq(PanelLine) /\ b \in Seq(PanelLine)
          /\ Members(a) \cup Members(b) \subseteq Members(s)
          /\ Ids(a) \cup Ids(b) \subseteq Ids(s)
          /\ Distinct(s) => Distinct(a) /\ Distinct(b) /\ Ids(a) \cap Ids(b) = {}
        BY <2>1, SplitLines
    <2> QED BY <1>4, <2>2
<1>8. line.id \in Ids(s) /\ line.id \notin Ids(rest)
    <2>1. line.id \in Ids(s)
        BY <1>5, <1>6 DEF Ids
    <2>2. \A i \in 1 .. Len(rest) : n + i \in 1 .. Len(s) /\ rest[i] = s[n + i]
        <3> SUFFICES ASSUME NEW i \in 1 .. Len(rest) PROVE n + i \in 1 .. Len(s) /\ rest[i] = s[n + i]
            OBVIOUS
        <3>1. Len(rest) = Len(s) - n /\ rest[i] = s[(n + 1) + i - 1]
            BY <1>5, <1>7, SubSeqProperties
        <3> QED BY <1>5, <3>1
    <2>3. ASSUME NEW i \in 1 .. Len(rest) PROVE rest[i].id # line.id
        <3>1. n + i \in 1 .. Len(s) /\ rest[i] = s[n + i] /\ n + i # n
            BY <1>5, <2>2
        <3> QED BY <1>4, <1>5, <1>6, <3>1 DEF Distinct
    <2> QED BY <2>1, <2>3 DEF Ids
<1>9. task' # NoTask /\ task'.line = line /\ task'.step = "begin"
    BY <1>2, <1>4, <1>6 DEF Started, NoTask
<1>10. TaskIds' = {line.id} /\ TaskIds = {}
    BY <1>3, <1>9 DEF TaskIds
<1>11. wire'[c] = rest /\ \A e \in {"live", "lost"} : e # c => wire'[e] = wire[e]
    BY <1>2, <1>4, <1>7 DEF LinkTypes, ConnectionTyped
<1>12. Lines' \subseteq Lines /\ line \in Lines
    BY <1>3, <1>4, <1>6, <1>7, <1>11 DEF Lines
<1>13. OnePlace'
    <2>0. /\ queue' = queue /\ answers' = answers
          /\ Apart(queue, wire["live"], wire["lost"], {}, answers)
        BY <1>3, <1>10 DEF SayInv, OnePlace
    <2>1. CASE c = "live"
        <3>1. wire["live"] = s /\ wire'["live"] = rest /\ wire'["lost"] = wire["lost"]
            BY <1>4, <1>11, <2>1
        <3> QED BY <1>7, <1>8, <1>10, <2>0, <3>1 DEF OnePlace, Apart
    <2>2. CASE c = "lost"
        <3>1. wire["lost"] = s /\ wire'["lost"] = rest /\ wire'["live"] = wire["live"]
            BY <1>4, <1>11, <2>2
        <3> QED BY <1>7, <1>8, <1>10, <2>0, <3>1 DEF OnePlace, Apart
    <2> QED BY <2>1, <2>2
<1> QED BY <1>3, <1>9, <1>12, <1>13, NothingSaid DEF clientVars, rockVars, recordVars

LEMMA TaskOpen ==
    ASSUME LinkTypes, SayInv, task # NoTask
    PROVE  /\ task.line.id \in Confirmations /\ Known(task.line.id) /\ task.line.id \notin LateIds
           /\ TaskIds = {task.line.id}
           /\ \A l \in Lines : l.id # task.line.id
           /\ task.line.id \notin Ids(queue) \cup Ids(wire["live"]) \cup Ids(wire["lost"])
                                    \cup Ids(answers)
<1>1. TaskIds = {task.line.id}
    BY DEF TaskIds
<1>2. \A l \in Lines : l.id \in Ids(queue) \cup Ids(wire["live"]) \cup Ids(wire["lost"])
    BY DEF Lines, Ids, Members
<1>3. task.line.id \notin Ids(queue) \cup Ids(wire["live"]) \cup Ids(wire["lost"]) \cup Ids(answers)
    BY <1>1 DEF SayInv, OnePlace, Apart
<1>4. task.line.id \in Confirmations /\ Known(task.line.id) /\ task.line.id \notin LateIds
    BY TaskKnown DEF SayInv, TaskSays, Pending
<1> QED BY <1>1, <1>2, <1>3, <1>4

(* What a request did and what its client is told end it.                  *)
LEMMA EndSays ==
    ASSUME LinkTypes, SayInv, task # NoTask, task' = NoTask,
           UNCHANGED <<panel, revision, commands, queue>>,
           NEW id, id = task.line.id, OnePlace', Lines' \subseteq Lines,
           \A a \in Members(answers') : a \in Members(answers) \/ (a.id = id /\ AnswerTrue(a)'),
           \A c \in Confirmations : c # id => told'[c] = told[c] /\ times'[c] = times[c],
           id \in Requests => told' = told,
           \/ late' = late
           \/ (\E w : late' = late \cup {w} /\ w.id = id) /\ times'[id] = 0 /\ Open(id)'
    PROVE  SayInv'
<1>1. id \in Confirmations
    BY TaskOpen
<1>2. /\ Known(id) /\ id \notin LateIds /\ id \notin Ids(answers)
      /\ \A l \in Lines : l.id # id
    BY <1>1, TaskOpen
<1>3. \A c \in Confirmations : c # id => told'[c] = told[c] /\ times'[c] = times[c]
    BY <1>1
<1>4. /\ \A l \in Line : Pending(l) /\ l.id # id => Pending(l)'
      /\ \A a \in Answer : AnswerTrue(a) /\ a.id # id => AnswerTrue(a)'
      /\ \A c \in Confirmations : Known(c) <=> Known(c)'
    <2>1. LateIds' \subseteq LateIds \cup {id}
        BY <1>1 DEF LateIds
    <2>2. /\ revision' \in Nat /\ revision <= revision' /\ commands' \in Nat /\ commands <= commands'
        BY DEF LinkTypes, PanelTyped
    <2>3. \A c \in Confirmations : Known(c) <=> Known(c)'
        BY DEF Known
    <2> QED BY <1>3, <2>1, <2>2, <2>3, OthersStay
<1>5. LinesFit'
    <2>1. ASSUME NEW l \in Lines PROVE Pending(l)'
        <3>1. l \in Line /\ Pending(l) /\ l.id # id
            BY <1>2, AllKnown DEF PanelLine
        <3> QED BY <1>4, <3>1
    <2> QED BY <2>1 DEF LinesFit
<1>6. AnswersFit'
    <2>1. ASSUME NEW a \in Members(answers) PROVE AnswerTrue(a)'
        <3>1. a \in Answer /\ AnswerTrue(a)
            BY Places, IdsOfMembers DEF SayInv, AnswersFit
        <3>2. a.id # id
            BY <1>2 DEF Members, Ids
        <3> QED BY <1>4, <3>1, <3>2
    <2> QED BY <2>1 DEF AnswersFit
<1>7. TaskSays'
    BY DEF TaskSays
<1>8. LateFits'
    <2>1. ASSUME NEW w \in late PROVE Known(w.id)' /\ Open(w.id)' /\ times'[w.id] = 0 /\ w.id # id
        <3>1. w.id \in Confirmations /\ Known(w.id) /\ Open(w.id) /\ times[w.id] = 0
            BY AllKnown DEF SayInv, LateFits, LateIds
        <3>2. w.id # id
            BY <1>2 DEF LateIds
        <3> QED BY <1>3, <1>4, <3>1, <3>2 DEF Open
    <2>2. CASE late' = late
        BY <2>1, <2>2 DEF SayInv, LateFits
    <2>3. CASE late' # late
        <3>1. PICK v : late' = late \cup {v} /\ v.id = id
            BY <1>1, <2>3
        <3>2. times'[id] = 0 /\ told'[id] \in {"open", "unknown"}
            BY <1>1, <2>3 DEF Open
        <3>3. Known(v.id)' /\ Open(v.id)' /\ times'[v.id] = 0
            <4>1. Known(id)' /\ Open(id)' /\ times'[id] = 0
                BY <1>1, <1>2, <1>4, <3>2 DEF Open
            <4> QED BY <3>1, <4>1 DEF Known, Open
        <3>4. \A w \in late' : Known(w.id)' /\ Open(w.id)' /\ times'[w.id] = 0
            BY <2>1, <3>1, <3>3
        <3>5. \A u, w \in late' : u.id = w.id => u = w
            BY <2>1, <3>1 DEF SayInv, LateFits
        <3> QED BY <3>4, <3>5 DEF LateFits
    <2> QED BY <2>2, <2>3
<1>9. PanelFits'
    <2>1. ASSUME NEW c \in Confirmations, ~Known(c)' PROVE told'[c] = "unasked" /\ times'[c] = 0
        <3>1. ~Known(c) /\ c # id
            BY <1>2, <1>4, <2>1
        <3> QED BY <1>3, <3>1 DEF SayInv, PanelFits
    <2>2. panel'.phase = "saving" => panel'.request \in Requests /\ told'[panel'.request] = "open"
        <3>1. \A r \in Requests : told'[r] = told[r]
            BY <1>1, <1>3, Bounds
        <3> QED BY <3>1 DEF SayInv, PanelFits
    <2> QED BY <2>1, <2>2 DEF PanelFits
<1> QED BY <1>5, <1>6, <1>7, <1>8, <1>9 DEF SayInv

LEMMA ReplySays ==
    ASSUME LinkTypes, SayInv, task # NoTask, NEW state \in States, NEW offered \in Numbers,
           Reply(state, offered), UNCHANGED <<panel, revision, commands, queue, wire>>,
           NEW id, id = task.line.id, \A c \in Confirmations : c # id => times'[c] = times[c],
           state = "done" => times'[id] = 1, state \in {"found", "error"} => times'[id] = 0,
           \/ late' = late
           \/ /\ \E w : late' = late \cup {w} /\ w.id = id
              /\ times'[id] = 0 /\ Open(id) /\ state = "uncertain"
    PROVE  SayInv'
<1>1. id \in Confirmations
    BY TaskOpen
<1>2. /\ Known(id) /\ id \notin LateIds /\ id \notin Ids(answers) /\ TaskIds = {id}
      /\ id \in Requests \/ id \in Commands
    BY <1>1, TaskOpen, TaskKnown
<1>3. task' = NoTask /\ TaskIds' = {}
    BY DEF Reply, TaskIds
<1>4. Lines' = Lines
    BY DEF Lines
<1>5. CASE id \in Commands
    <2>1. PICK o : /\ told' = [told EXCEPT ![id] = o]
                   /\ told[id] # "open" => o = told[id]
                   /\ told[id] = "open" /\ state = "uncertain" => o = "unknown"
        <3> DEFINE o == IF told[id] # "open" THEN told[id]
                        ELSE CASE state \in {"uncertain", "bare"} -> "unknown"
                               [] state = "error" -> "not_done"
                               [] state \in {"done", "found"} -> state
                               [] OTHER -> told[id]
        <3>1. told' = [told EXCEPT ![id] = o]
            BY <1>1, <1>5 DEF Reply
        <3>2. told[id] # "open" => o = told[id]
            OBVIOUS
        <3>3. told[id] = "open" /\ state = "uncertain" => o = "unknown"
            OBVIOUS
        <3> HIDE DEF o
        <3> QED BY <3>1, <3>2, <3>3
    <2>2. UNCHANGED answers /\ id \notin Requests
        <3>1. UNCHANGED answers
            BY <1>5 DEF Reply
        <3>2. id \notin Requests
            BY <1>5, Bounds
        <3> QED BY <3>1, <3>2
    <2>3. told'[id] = o /\ \A c \in Confirmations : c # id => told'[c] = told[c]
        BY <1>1, <2>1 DEF LinkTypes, PanelTyped
    <2>4. OnePlace'
        BY <1>2, <1>3, <2>2 DEF SayInv, OnePlace, Apart
    <2>5. Open(id) /\ state = "uncertain" => told'[id] = "unknown"
        BY <2>1, <2>3 DEF Open
    <2>6. \/ late' = late
          \/ (\E w : late' = late \cup {w} /\ w.id = id) /\ times'[id] = 0 /\ Open(id)'
        BY <2>5 DEF Open
    <2> QED BY <1>3, <1>4, <2>2, <2>3, <2>4, <2>6, EndSays
<1>6. CASE id \notin Commands
    <2>1. PICK a : a = [id |-> id, state |-> state, offered |-> offered,
                        draft |-> IF state = "draft" THEN id ELSE 0]
        OBVIOUS
    <2>2. UNCHANGED told /\ answers' = IF task.live THEN Append(answers, a) ELSE answers
        BY <1>1, <1>6, <2>1 DEF Reply
    <2>3. id \in Requests /\ id \in Nat
        BY <1>2, <1>6, Bounds
    <2>4. a \in Answer /\ a.id = id /\ a.state = state
        BY <2>1, <2>3 DEF Answer, States
    <2>5. \/ answers' = answers
          \/ /\ answers' = Append(answers, a)
        BY <2>2
    <2>6. /\ Members(answers') \subseteq Members(answers) \cup {a}
          /\ Ids(answers') \subseteq Ids(answers) \cup {id} /\ Distinct(answers')
        <3>1. Distinct(answers) /\ a.id \notin Ids(answers)
            BY <1>2, <2>4 DEF SayInv, OnePlace, Apart
        <3>2. /\ Members(Append(answers, a)) = Members(answers) \cup {a}
              /\ Ids(Append(answers, a)) = Ids(answers) \cup {id} /\ Distinct(Append(answers, a))
            BY <2>4, <3>1, Places, AppendLines
        <3> QED BY <2>5, <3>1, <3>2
    <2>7. OnePlace'
        BY <1>2, <1>3, <2>6 DEF SayInv, OnePlace, Apart
    <2>8. Known(id)' /\ (Open(id) => Open(id)')
        BY <1>2, <2>2 DEF Known, Open
    <2>9. AnswerTrue(a)'
        <3>1. state = "done" => times'[id] = 1
            BY <1>1
        <3>2. state \in {"found", "error"} => times'[id] = 0
            BY <1>1
        <3>3. id \in LateIds' => state = "uncertain"
            <4>1. late' = late => id \notin LateIds'
                BY <1>2 DEF LateIds
            <4> QED BY <4>1
        <3> QED BY <2>4, <2>8, <3>1, <3>2, <3>3 DEF AnswerTrue
    <2>10. \/ late' = late
           \/ (\E w : late' = late \cup {w} /\ w.id = id) /\ times'[id] = 0 /\ Open(id)'
        BY <2>8
    <2> QED BY <1>3, <1>4, <2>2, <2>4, <2>6, <2>7, <2>9, <2>10, EndSays
<1> QED BY <1>5, <1>6

LEMMA QuietReply ==
    ASSUME LinkTypes, SayInv, task # NoTask, ~Written, NEW state \in States, state # "done",
           NEW offered \in Numbers, Reply(state, offered),
           UNCHANGED <<panel, revision, commands, queue, wire, late, times>>
    PROVE  SayInv'
<1>1. PICK id : id = task.line.id
    OBVIOUS
<1>2. times[id] = 0
    BY <1>1 DEF SayInv, TaskSays, Pending
<1> QED BY <1>1, <1>2, ReplySays

LEMMA WrittenReply ==
    ASSUME LinkTypes, SayInv, task # NoTask, Written, NEW state \in {"done", "uncertain"},
           Reply(state, {}), UNCHANGED <<panel, revision, commands, queue, wire, late, times>>
    PROVE  SayInv'
<1>1. PICK id : id = task.line.id
    OBVIOUS
<1>2. times[id] = 1
    BY <1>1 DEF SayInv, TaskSays
<1>3. {} \in Numbers /\ state \in States
    BY DEF Numbers, States
<1> QED BY <1>1, <1>2, <1>3, ReplySays

LEMMA GoneOn ==
    ASSUME LinkTypes, SayInv, task # NoTask, task' # NoTask, task'.line = task.line,
           Written' <=> Written,
           UNCHANGED <<panel, revision, commands, told, queue, wire, answers, late, times>>
    PROVE  SayInv'
<1>1. OnePlace'
    BY DEF SayInv, OnePlace, Apart, TaskIds
<1>2. Lines' = Lines
    BY DEF Lines
<1> QED BY <1>1, <1>2, NothingSaid

(* The request is carried out, and the handler goes on to verify it.       *)
LEMMA DidSays ==
    ASSUME LinkTypes, SayInv, task # NoTask, task' # NoTask, task'.line = task.line, Written', ~Written,
           NEW id, id = task.line.id, Open(id), times' = [times EXCEPT ![id] = 1],
           UNCHANGED <<panel, revision, commands, told, queue, wire, answers, late>>
    PROVE  SayInv'
<1>1. /\ id \in Confirmations /\ Known(id) /\ id \notin LateIds /\ id \notin Ids(answers)
      /\ TaskIds = {id} /\ \A l \in Lines : l.id # id
    BY TaskOpen
<1>2. times'[id] = 1 /\ \A c \in Confirmations : c # id => told'[c] = told[c] /\ times'[c] = times[c]
    BY <1>1 DEF LinkTypes, RockTyped
<1>3. /\ \A l \in Line : Pending(l) /\ l.id # id => Pending(l)'
      /\ \A a \in Answer : AnswerTrue(a) /\ a.id # id => AnswerTrue(a)'
      /\ \A c \in Confirmations : (Known(c) <=> Known(c)') /\ (Open(c) <=> Open(c)')
    <2>1. LateIds' = LateIds
        BY DEF LateIds
    <2>2. /\ revision' \in Nat /\ revision <= revision' /\ commands' \in Nat /\ commands <= commands'
        BY DEF LinkTypes, PanelTyped
    <2>3. \A c \in Confirmations : (Known(c) <=> Known(c)') /\ (Open(c) <=> Open(c)')
        BY DEF Known, Open
    <2> QED BY <1>2, <2>1, <2>2, <2>3, OthersStay
<1>4. OnePlace'
    BY <1>1 DEF SayInv, OnePlace, Apart, TaskIds
<1>5. LinesFit'
    <2>1. ASSUME NEW l \in Lines PROVE Pending(l)'
        <3>1. l \in Line /\ Pending(l) /\ l.id # id
            BY <1>1, AllKnown DEF PanelLine
        <3> QED BY <1>3, <3>1
    <2> QED BY <2>1 DEF LinesFit, Lines
<1>6. AnswersFit'
    <2>1. ASSUME NEW a \in Members(answers) PROVE AnswerTrue(a)'
        <3>1. a \in Answer /\ AnswerTrue(a)
            BY Places, IdsOfMembers DEF SayInv, AnswersFit
        <3>2. a.id # id
            BY <1>1 DEF Members, Ids
        <3> QED BY <1>3, <3>1, <3>2
    <2> QED BY <2>1 DEF AnswersFit
<1>7. TaskSays'
    BY <1>1, <1>2, <1>3 DEF TaskSays, LateIds, Open, Known
<1>8. LateFits'
    <2>1. \A w \in late : w.id \in Confirmations /\ w.id # id
        BY <1>1, AllKnown DEF LateIds
    <2> QED BY <1>2, <1>3, <2>1 DEF SayInv, LateFits
<1>9. PanelFits'
    <2>1. ASSUME NEW c \in Confirmations, ~Known(c)' PROVE told'[c] = "unasked" /\ times'[c] = 0
        <3>1. ~Known(c) /\ c # id
            BY <1>1, <1>3, <2>1
        <3> QED BY <1>2, <3>1 DEF SayInv, PanelFits
    <2> QED BY <2>1 DEF SayInv, PanelFits
<1> QED BY <1>4, <1>5, <1>6, <1>7, <1>8, <1>9 DEF SayInv

(* The handler has not written before it verifies or reads the new section *)
(* again.                                                                  *)
LEMMA NotYet ==
    ASSUME LinkTypes, SayInv, TaskReads, task # NoTask,
           task.step \in Steps \ {"verify", "created"}
    PROVE  /\ ~Written /\ Pending(task.line)
           /\ task.step # "begin" => Open(task.line.id)
           /\ \A step \in Steps \ {"verify", "created"} :
                Goto(step) => task' # NoTask /\ task'.line = task.line /\ ~Written'
<1>1. ~Written
    BY DEF Written
<1>2. Pending(task.line)
    BY <1>1 DEF SayInv, TaskSays
<1>3. task.step # "begin" => Open(task.line.id)
    BY <1>2 DEF TaskReads, StepsFit, Pending
<1>4. ASSUME NEW step \in Steps \ {"verify", "created"}, Goto(step)
      PROVE  task' # NoTask /\ task'.line = task.line /\ ~Written'
    <2>1. task' = [task EXCEPT !.step = step] /\ task \in Task
        BY <1>4, TaskKnown DEF Goto
    <2>2. task'.step = step /\ task'.line = task.line
        BY <2>1 DEF Task
    <2>3. task' # NoTask
        BY <2>1 DEF Task, NoTask
    <2> QED BY <2>2, <2>3 DEF Written
<1> QED BY <1>1, <1>2, <1>3, <1>4

LEMMA FailSays ==
    ASSUME LinkTypes, SayInv, TaskReads, Fail
    PROVE  SayInv'
<1>1. UNCHANGED <<Unread, managerVars, rockVars>> /\ Fails
    BY DEF Fail
<1>2. UNCHANGED <<panel, revision, commands, queue, wire, late, times>> /\ {} \in Numbers
    BY <1>1 DEF Unread, rockVars, recordVars, Numbers
<1>3. PICK state \in {"bare", "error"} : Reply(state, {})
    BY <1>1 DEF Fails
<1>4. task # NoTask /\ ~Written
    BY <1>1 DEF Fails, At, Written
<1> QED BY <1>2, <1>3, <1>4, QuietReply DEF States

LEMMA PrepareSays ==
    ASSUME LinkTypes, SayInv, TaskReads, PrepareStep
    PROVE  SayInv'
<1>1. task # NoTask /\ task.step = "begin"
    BY DEF PrepareStep, PrepareAddition, PrepareDeletion, At
<1>2. UNCHANGED <<panel, revision, commands, queue, wire, late, times>>
    BY DEF PrepareStep, PrepareAddition, PrepareDeletion, Unread, rockVars, recordVars
<1>3. PICK offered \in Numbers : Reply("draft", offered)
    <2>1. CASE PrepareAddition
        <3> DEFINE own == {s.id : s \in Mine(Identity)}
                   offered == IF task.line.kind = "section" THEN {}
                              ELSE IF own = {} THEN {NewSection} ELSE own
        <3>1. own \subseteq Nat
            BY DEF Mine, LinkTypes, RockTyped, Section
        <3>2. offered \in Numbers
            BY <3>1 DEF Numbers, NewSection
        <3>3. Reply("draft", offered)
            BY <2>1 DEF PrepareAddition
        <3> HIDE DEF offered
        <3> QED BY <3>2, <3>3
    <2>2. CASE PrepareDeletion
        BY <2>2 DEF PrepareDeletion, Numbers
    <2> QED BY <2>1, <2>2 DEF PrepareStep
<1> QED BY <1>1, <1>2, <1>3, QuietReply, NotYet DEF States, Steps

LEMMA CommitReadsSay ==
    ASSUME LinkTypes, SayInv, TaskReads,
           \/ CommitDraft \/ CommitAccount \/ CommitSections \/ CommitRecord \/ CommitScope
           \/ CommitContents \/ LookForLink
    PROVE  SayInv'
<1>1. task # NoTask /\ task.step \in {"begin", "account", "sections", "record", "contents", "look"}
    BY DEF CommitDraft, CommitAccount, CommitSections, CommitRecord, CommitScope, CommitContents,
        LookForLink, At
<1>2. UNCHANGED <<panel, revision, commands, queue, wire, late, times>>
    BY DEF CommitDraft, CommitAccount, CommitSections, CommitRecord, CommitScope, CommitContents,
        LookForLink, Unread, rockVars, recordVars
<1>3. ~Written /\ task \in Task
    BY <1>1, TaskKnown, NotYet DEF Steps
<1>4. CASE Reply("error", {}) \/ Reply("found", {})
    <2>1. {} \in Numbers
        BY DEF Numbers
    <2> QED BY <1>1, <1>2, <1>3, <1>4, <2>1, QuietReply DEF States
<1>5. CASE \E step \in {"contents", "sections", "write"} : Goto(step)
    <2>1. PICK step \in {"contents", "sections", "write"} : Goto(step)
        BY <1>5
    <2>2. task' # NoTask /\ task'.line = task.line /\ ~Written' /\ UNCHANGED <<told, answers>>
        BY <1>1, <2>1, NotYet DEF Steps, Goto
    <2> QED BY <1>1, <1>2, <1>3, <2>2, GoneOn
<1>6. ASSUME NEW step \in {"account", "record", "sections", "create", "look"}, NEW t \in Task,
             task' = t, t.step = step, t.line = task.line, UNCHANGED <<told, answers>>
      PROVE  SayInv'
    <2>1. task' # NoTask /\ ~Written'
        BY <1>6 DEF Task, NoTask, Written
    <2> QED BY <1>1, <1>2, <1>3, <1>6, <2>1, GoneOn
<1>7. CASE CommitDraft
    <2>1. PICK d : task' = [task EXCEPT !.step = "account", !.draft = {d}]
        BY <1>7 DEF CommitDraft
    <2>2. task' \in Task
        <3>1. LinkTypes'
            BY <1>7, CommitDraftKeeps
        <3>2. task' # NoTask
            BY <1>3, <2>1 DEF Task, NoTask
        <3> QED BY <3>1, <3>2 DEF LinkTypes, ManagerTyped, TaskTyped
    <2>3. task'.step = "account" /\ task'.line = task.line /\ UNCHANGED <<told, answers>>
        BY <1>3, <1>7, <2>1 DEF Task, CommitDraft
    <2> QED BY <1>6, <2>2, <2>3
<1>8. CASE CommitAccount
    <2>1. CASE Reply("error", {})
        BY <1>4, <2>1
    <2>2. CASE ~Reply("error", {})
        <3>1. PICK step \in {"record", "sections"} :
                task' = [task EXCEPT !.owner = Identity, !.step = step] /\ UNCHANGED <<told, answers>>
            BY <1>8, <2>2 DEF CommitAccount
        <3>2. task' \in Task /\ task'.step = step /\ task'.line = task.line
            BY <1>3, <3>1 DEF Task, Steps, Identity, LinkTypes, RockTyped
        <3> QED BY <1>6, <3>1, <3>2
    <2> QED BY <2>1, <2>2
<1>9. CASE CommitSections
    <2>1. CASE Reply("found", {})
        BY <1>4, <2>1
    <2>2. CASE ~Reply("found", {})
        <3>0. PICK number :
                \E step \in {"create", "look"} :
                  task' = [task EXCEPT !.place = number, !.step = step] /\ UNCHANGED <<told, answers>>
            BY <1>9, <2>2 DEF CommitSections
        <3>1. PICK step \in {"create", "look"} :
                task' = [task EXCEPT !.place = number, !.step = step] /\ UNCHANGED <<told, answers>>
            BY <3>0
        <3>2. task'.step = step /\ task'.line = task.line
            BY <1>3, <3>1 DEF Task
        <3>3. task' \in Task
            <4>1. LinkTypes'
                BY <1>9, CommitSectionsKeeps
            <4>2. task' # NoTask
                BY <1>3, <3>1 DEF Task, NoTask
            <4> QED BY <4>1, <4>2 DEF LinkTypes, ManagerTyped, TaskTyped
        <3> QED BY <1>6, <3>1, <3>2, <3>3
    <2> QED BY <2>1, <2>2
<1>10. CASE CommitRecord
    BY <1>4, <1>5, <1>10 DEF CommitRecord
<1>11. CASE CommitScope \/ CommitContents
    BY <1>5, <1>11 DEF CommitScope, CommitContents
<1>12. CASE LookForLink
    BY <1>4, <1>5, <1>12 DEF LookForLink
<1> QED BY <1>7, <1>8, <1>9, <1>10, <1>11, <1>12

LEMMA ReadAgainSays ==
    ASSUME LinkTypes, SayInv, TaskReads, SectionCreated \/ VerifyLink \/ VerifyDeletion
    PROVE  SayInv'
<1>1. UNCHANGED <<panel, revision, commands, queue, wire, late, times>> /\ task # NoTask
    BY DEF SectionCreated, VerifyLink, VerifyDeletion, Unread, rockVars, recordVars, At
<1>2. {} \in Numbers /\ {"done", "uncertain"} \subseteq States
    BY DEF Numbers, States
<1>3. CASE Reply("uncertain", {})
    <2>1. CASE Written
        BY <1>1, <1>3, <2>1, WrittenReply
    <2>2. CASE ~Written
        BY <1>1, <1>2, <1>3, <2>2, QuietReply
    <2> QED BY <2>1, <2>2
<1>4. CASE Written /\ Reply("done", {})
    BY <1>1, <1>4, WrittenReply
<1>5. CASE SectionCreated /\ task.line.kind # "section" /\ Goto("look")
    <2>1. task.step = "created" /\ task \in Task
        BY <1>1, <1>5, TaskKnown DEF SectionCreated, At
    <2>2. task'.step = "look" /\ task'.line = task.line /\ task' # NoTask
        BY <1>5, <2>1 DEF Goto, Task, NoTask
    <2>3. (Written' <=> Written) /\ UNCHANGED <<told, answers>>
        BY <1>5, <2>1, <2>2 DEF Written, Goto
    <2> QED BY <1>1, <2>2, <2>3, GoneOn
<1>6. CASE SectionCreated
    <2>1. \/ Reply("uncertain", {})
          \/ task.line.kind = "section" /\ Reply("done", {})
          \/ task.line.kind # "section" /\ Goto("look")
        BY <1>6 DEF SectionCreated
    <2>2. task.line.kind = "section" => Written
        BY <1>6 DEF SectionCreated, At, Written
    <2> QED BY <1>3, <1>4, <1>5, <1>6, <2>1, <2>2
<1>7. CASE VerifyLink \/ VerifyDeletion
    <2>1. Written
        BY <1>7 DEF VerifyLink, VerifyDeletion, At, Written
    <2>2. Reply("uncertain", {}) \/ Reply("done", {})
        BY <1>7 DEF VerifyLink, VerifyDeletion
    <2> QED BY <1>3, <1>4, <2>1, <2>2
<1> QED BY <1>6, <1>7

(* What a write does to its confirmation.                                  *)
LEMMA WriteCounts ==
    ASSUME LinkTypes, SayInv, TaskReads, CreateSection \/ WriteRecord
    PROVE  /\ task # NoTask /\ ~Written /\ times[task.line.id] = 0 /\ Open(task.line.id)
           /\ task.line.id \in Confirmations
           /\ \/ UNCHANGED times
              \/ times' = [times EXCEPT ![task.line.id] = 1]
           /\ Apply(Writing) => \/ ~Writing.counts /\ UNCHANGED times
                                \/ Writing.counts /\ times' = [times EXCEPT ![task.line.id] = 1]
<1>1. task # NoTask /\ task.step \in {"create", "write"}
    BY WriteApplies
<1>2. ~Written /\ Pending(task.line) /\ Open(task.line.id)
    BY <1>1, NotYet DEF Steps
<1>3. times[task.line.id] = 0 /\ task.line.id \in Confirmations
    BY <1>1, <1>2, TaskKnown DEF Pending
<1>4. PICK w \in Write : w = Writing /\ w.id = task.line.id
    BY <1>1, WritingTyped
<1>5. Apply(w) => \/ ~w.counts /\ UNCHANGED times
                  \/ w.counts /\ times' = [times EXCEPT ![task.line.id] = 1]
    <2>1. Apply(w) => times' = IF w.counts THEN [times EXCEPT ![w.id] = times[w.id] + 1] ELSE times
        BY DEF Apply
    <2>2. times[w.id] + 1 = 1
        BY <1>3, <1>4
    <2> QED BY <1>4, <2>1, <2>2
<1>6. UNCHANGED times \/ Apply(w)
    BY <1>4, WriteApplies DEF recordVars
<1> QED BY <1>1, <1>2, <1>3, <1>4, <1>5, <1>6

LEMMA WriteSays ==
    ASSUME LinkTypes, SayInv, TaskReads, CreateSection \/ WriteRecord
    PROVE  SayInv'
<1>1. PICK next \in {"created", "verify"} :
        /\ task # NoTask /\ WriteToRock(next)
        /\ \/ task.step = "create" /\ next = "created"
           \/ task.step = "write" /\ next = "verify"
    BY DEF CreateSection, WriteRecord, At
<1>2. PICK w \in Write : /\ w = Writing /\ w.id = task.line.id
                         /\ next = "created" => w.counts = (task.line.kind = "section")
                         /\ next = "verify" => w.counts
    BY <1>1, WritingTyped
<1>3. PICK id \in Confirmations : id = task.line.id /\ times[id] = 0 /\ Open(id) /\ ~Written
    BY WriteCounts
<1>4. UNCHANGED <<panel, revision, commands, queue, wire>> /\ {} \in Numbers
    BY <1>1 DEF WriteToRock, Unread, Numbers
<1>5. UNCHANGED times \/ times' = [times EXCEPT ![id] = 1]
    BY <1>3, WriteCounts
<1>6. \A c \in Confirmations : c # id => times'[c] = times[c]
    BY <1>5 DEF LinkTypes, RockTyped
<1>7. CASE Reply("uncertain", {}) /\ UNCHANGED late
    BY <1>1, <1>3, <1>4, <1>6, <1>7, ReplySays DEF States
<1>8. CASE Reply("uncertain", {}) /\ late' = late \cup {w} /\ UNCHANGED times
    BY <1>1, <1>2, <1>3, <1>4, <1>6, <1>8, ReplySays DEF States
<1>9. CASE Reply("error", {}) /\ UNCHANGED <<late, times>>
    BY <1>1, <1>3, <1>4, <1>9, QuietReply DEF States
<1>10. CASE /\ Apply(w) /\ UNCHANGED <<told, answers, late>>
            /\ task' = [task EXCEPT !.step = next, !.made = last',
                                    !.place = IF Writing.kind = "section" THEN last' ELSE @]
    <2>1. task \in Task
        BY <1>1, TaskKnown
    <2>2. task'.step = next /\ task'.line = task.line
        <3>1. PICK place : place = IF Writing.kind = "section" THEN last' ELSE task.place
            OBVIOUS
        <3>2. task' = [task EXCEPT !.step = next, !.made = last', !.place = place]
            BY <1>10, <3>1
        <3> QED BY <2>1, <3>2 DEF Task
    <2>3. task' # NoTask
        BY <2>1, <1>10 DEF Task, NoTask
    <2>4. Written' <=> w.counts
        BY <1>2, <2>2 DEF Written
    <2>5. CASE w.counts
        <3>1. times' = [times EXCEPT ![id] = 1]
            BY <1>2, <1>3, <1>10, <2>5, WriteCounts
        <3> QED BY <1>1, <1>3, <1>4, <1>10, <2>2, <2>3, <2>4, <2>5, <3>1, DidSays
    <2>6. CASE ~w.counts
        <3>1. UNCHANGED times
            BY <1>2, <1>10, <2>6, WriteCounts
        <3> QED BY <1>1, <1>3, <1>4, <1>10, <2>2, <2>3, <2>4, <2>6, <3>1, GoneOn
    <2> QED BY <2>5, <2>6
<1>11. \/ Reply("uncertain", {}) /\ UNCHANGED late
       \/ Reply("uncertain", {}) /\ late' = late \cup {Writing} /\ UNCHANGED recordVars
       \/ Reply("error", {}) /\ UNCHANGED <<recordVars, late>>
       \/ /\ Apply(Writing) /\ UNCHANGED <<told, answers, late>>
          /\ task' = [task EXCEPT !.step = next, !.made = last',
                                  !.place = IF Writing.kind = "section" THEN last' ELSE @]
    BY <1>1 DEF WriteToRock
<1>12. UNCHANGED recordVars => UNCHANGED times
    BY DEF recordVars
<1> QED BY <1>2, <1>7, <1>8, <1>9, <1>10, <1>11, <1>12

(* The command line asks.                                                  *)
LEMMA CommandSays ==
    ASSUME LinkTypes, SayInv, Command
    PROVE  SayInv'
<1>1. PICK id : id = MaxRequests + commands + 1
    OBVIOUS
<1>2. /\ task = NoTask /\ commands < MaxCommands /\ commands' = commands + 1
      /\ UNCHANGED <<panel, revision, connectionVars, managerVars, rockVars>>
    BY DEF Command
<1>3. PICK op \in {"prepare", "commit"}, k \in Asked, n \in 0 .. MaxRecords, u \in Urls,
           d \in 0 .. MaxRequests + commands :
        \E grants \in SUBSET (IF k \in Deletes THEN {"deleteLinks", "deleteSections"}
                                               ELSE {"addLinks", "addSections"}) :
          /\ (d = 0) = (op = "prepare") /\ d \notin Requests
          /\ op = "prepare" => grants = {} /\ n \in IF k \in Deletes THEN 1 .. last ELSE {0}
          /\ op = "commit" /\ k \in Deletes => n = 0
          /\ LET line == [op |-> op, kind |-> k, id |-> MaxRequests + commands + 1,
                          draft |-> d, target |-> n, url |-> u] IN
              /\ task' = Started(line, TRUE, grants)
              /\ told' = [told EXCEPT ![line.id] = IF op = "commit" THEN "open" ELSE @]
    BY DEF Command
<1>4. PICK line : line = [op |-> op, kind |-> k, id |-> id, draft |-> d, target |-> n, url |-> u]
    OBVIOUS
<1>5. /\ task'.line = line /\ task'.step = "begin" /\ task' # NoTask
      /\ told' = [told EXCEPT ![id] = IF op = "commit" THEN "open" ELSE @]
    BY <1>1, <1>3, <1>4 DEF Started, NoTask
<1>6. id \in Confirmations /\ id \in Commands /\ id \notin Requests
    <2>1. MaxRequests \in Nat /\ MaxCommands \in Nat /\ commands \in Nat
        BY Bounds DEF LinkTypes, PanelTyped
    <2> QED BY <1>1, <1>2, <2>1, Bounds DEF Commands, Requests
<1>7. ~Known(id) /\ told[id] = "unasked" /\ times[id] = 0 /\ id \notin LateIds
    <2>1. ~Known(id)
        BY <1>1, <1>2, <1>6, Bounds DEF Known, LinkTypes, PanelTyped
    <2> QED BY <1>6, <2>1, AllKnown DEF SayInv, PanelFits
<1>8. /\ told'[id] = IF op = "commit" THEN "open" ELSE "unasked"
      /\ \A c \in Confirmations : c # id => told'[c] = told[c] /\ times'[c] = times[c]
      /\ times' = times /\ late' = late
    BY <1>2, <1>5, <1>6, <1>7 DEF LinkTypes, PanelTyped, rockVars, recordVars
<1>9. Known(id)'
    BY <1>1, <1>2, <1>6, Bounds DEF Known, LinkTypes, PanelTyped
<1>10. /\ \A l \in Line : Pending(l) /\ l.id # id => Pending(l)'
       /\ \A a \in Answer : AnswerTrue(a) /\ a.id # id => AnswerTrue(a)'
       /\ \A c \in Confirmations : Known(c) => Known(c)'
    <2>1. /\ revision' \in Nat /\ revision <= revision' /\ commands' \in Nat /\ commands <= commands'
          /\ LateIds' \subseteq LateIds \cup {id}
        BY <1>2, <1>8 DEF LinkTypes, PanelTyped, LateIds
    <2> QED BY <1>8, <2>1, OthersStay
<1>11. /\ id \notin Ids(queue) \cup Ids(wire["live"]) \cup Ids(wire["lost"]) \cup Ids(answers)
       /\ \A l \in Lines : l.id # id
    <2>1. \A l \in Lines : l.id # id
        BY <1>6, AllKnown DEF PanelLine
    <2> QED BY <1>6, <2>1, AllKnown
<1>12. OnePlace'
    <2>1. TaskIds = {} /\ TaskIds' = {id}
        BY <1>2, <1>4, <1>5 DEF TaskIds
    <2> QED BY <1>2, <1>11, <2>1 DEF SayInv, OnePlace, Apart, connectionVars
<1>13. LinesFit' /\ AnswersFit'
    <2>1. Lines' = Lines /\ answers' = answers
        BY <1>2 DEF Lines, connectionVars
    <2>2. ASSUME NEW l \in Lines PROVE Pending(l)'
        <3>1. l \in Line /\ Pending(l) /\ l.id # id
            BY <1>11, AllKnown DEF PanelLine
        <3> QED BY <1>10, <3>1
    <2>3. ASSUME NEW a \in Members(answers) PROVE AnswerTrue(a)'
        <3>1. a \in Answer /\ AnswerTrue(a)
            BY Places, IdsOfMembers DEF SayInv, AnswersFit
        <3>2. a.id # id
            BY <1>11 DEF Members, Ids
        <3> QED BY <1>10, <3>1, <3>2
    <2> QED BY <2>1, <2>2, <2>3 DEF LinesFit, AnswersFit
<1>14. TaskSays'
    <2>1. Pending(line)'
        BY <1>4, <1>7, <1>8, <1>9 DEF Pending, Open, LateIds, Known
    <2>2. Pending(task.line)'
        BY <1>5, <2>1 DEF Pending, Open, Known
    <2> QED BY <1>5, <2>2 DEF TaskSays, Written
<1>15. LateFits'
    <2>1. \A w \in late : w.id \in Confirmations /\ w.id # id
        BY <1>7, AllKnown DEF LateIds
    <2> QED BY <1>8, <1>10, <2>1 DEF SayInv, LateFits, Open
<1>16. PanelFits'
    <2>1. ASSUME NEW c \in Confirmations, ~Known(c)' PROVE told'[c] = "unasked" /\ times'[c] = 0
        <3>1. ~Known(c) /\ c # id
            BY <1>9, <1>10, <2>1
        <3> QED BY <1>8, <3>1 DEF SayInv, PanelFits
    <2>2. \A r \in Requests : told'[r] = told[r]
        BY <1>6, <1>8, Bounds
    <2> QED BY <1>2, <2>1, <2>2 DEF SayInv, PanelFits
<1> QED BY <1>12, <1>13, <1>14, <1>15, <1>16 DEF SayInv

(* The command no longer waits, the handler goes on.                       *)
LEMMA CommandTimeoutSays ==
    ASSUME LinkTypes, SayInv, CommandTimeout
    PROVE  SayInv'
<1>1. /\ task # NoTask /\ task.line.id \in Commands /\ task' = [task EXCEPT !.live = FALSE]
      /\ UNCHANGED <<panel, revision, commands, connectionVars, managerVars, rockVars>>
    BY DEF CommandTimeout
<1>2. PICK id : id = task.line.id
    OBVIOUS
<1>3. told' = [told EXCEPT ![id] = IF @ = "open" THEN "unknown" ELSE @]
    BY <1>2 DEF CommandTimeout
<1>4. task'.line = task.line /\ task'.step = task.step /\ task' # NoTask
    BY <1>1, TaskKnown DEF Task, NoTask
<1>5. /\ id \in Confirmations /\ id \notin Requests /\ Known(id) /\ id \notin LateIds
      /\ id \notin Ids(answers) /\ \A l \in Lines : l.id # id
    BY <1>1, <1>2, Bounds, TaskOpen
<1>6. /\ \A c \in Confirmations : c # id => told'[c] = told[c] /\ times'[c] = times[c]
      /\ Open(id) => told'[id] = "unknown"
      /\ told[id] = "unasked" => told'[id] = "unasked"
      /\ UNCHANGED <<late, times>>
    BY <1>1, <1>3, <1>5 DEF Open, LinkTypes, PanelTyped, rockVars, recordVars
<1>7. /\ \A l \in Line : Pending(l) /\ l.id # id => Pending(l)'
      /\ \A a \in Answer : AnswerTrue(a) /\ a.id # id => AnswerTrue(a)'
      /\ \A c \in Confirmations : Known(c) <=> Known(c)'
    <2>1. /\ revision' \in Nat /\ revision <= revision' /\ commands' \in Nat /\ commands <= commands'
          /\ LateIds' \subseteq LateIds \cup {id}
        BY <1>1, <1>6 DEF LinkTypes, PanelTyped, LateIds
    <2>2. \A c \in Confirmations : Known(c) <=> Known(c)'
        BY <1>1 DEF Known
    <2> QED BY <1>6, <2>1, <2>2, OthersStay
<1>8. OnePlace'
    BY <1>1, <1>4 DEF SayInv, OnePlace, Apart, TaskIds, connectionVars
<1>9. LinesFit' /\ AnswersFit'
    <2>1. Lines' = Lines /\ answers' = answers
        BY <1>1 DEF Lines, connectionVars
    <2>2. ASSUME NEW l \in Lines PROVE Pending(l)'
        <3>1. l \in Line /\ Pending(l) /\ l.id # id
            BY <1>5, AllKnown DEF PanelLine
        <3> QED BY <1>7, <3>1
    <2>3. ASSUME NEW a \in Members(answers) PROVE AnswerTrue(a)'
        <3>1. a \in Answer /\ AnswerTrue(a)
            BY Places, IdsOfMembers DEF SayInv, AnswersFit
        <3>2. a.id # id
            BY <1>5 DEF Members, Ids
        <3> QED BY <1>7, <3>1, <3>2
    <2> QED BY <2>1, <2>2, <2>3 DEF LinesFit, AnswersFit
<1>10. TaskSays'
    <2>1. Written' <=> Written
        BY <1>4 DEF Written
    <2>2. Known(id)' /\ (Open(id) => Open(id)')
        BY <1>5, <1>6, <1>7 DEF Open
    <2>3. CASE Written
        <3>1. Open(id) /\ times[id] = 1
            BY <1>1, <1>2, <2>3 DEF SayInv, TaskSays
        <3>2. Open(id)' /\ times'[id] = 1 /\ id \notin LateIds' /\ task'.line.id = id
            BY <1>2, <1>4, <1>5, <1>6, <2>2, <3>1 DEF LateIds
        <3> QED BY <2>1, <2>2, <2>3, <3>2 DEF TaskSays, Open, Known
    <2>4. CASE ~Written
        <3>1. PICK l : l = task.line /\ l.id = id
            BY <1>2
        <3>2. Pending(l)
            BY <1>1, <2>4, <3>1 DEF SayInv, TaskSays
        <3>3. Pending(l)'
            <4>1. IF l.op = "commit" THEN Open(id)' ELSE told'[id] = "unasked"
                BY <1>6, <2>2, <3>1, <3>2 DEF Pending
            <4>2. times'[id] = 0 /\ id \notin LateIds'
                BY <1>5, <1>6, <3>1, <3>2 DEF Pending, LateIds
            <4> QED BY <2>2, <3>1, <4>1, <4>2 DEF Pending, Open, Known
        <3>4. Pending(task.line)'
            BY <1>4, <3>1, <3>3 DEF Pending, Open, Known
        <3> QED BY <2>1, <2>4, <3>4 DEF TaskSays
    <2> QED BY <2>3, <2>4
<1>11. LateFits'
    <2>1. \A w \in late : w.id \in Confirmations /\ w.id # id
        BY <1>5, AllKnown DEF LateIds
    <2> QED BY <1>6, <1>7, <2>1 DEF SayInv, LateFits, Open
<1>12. PanelFits'
    <2>1. ASSUME NEW c \in Confirmations, ~Known(c)' PROVE told'[c] = "unasked" /\ times'[c] = 0
        <3>1. ~Known(c) /\ c # id
            BY <1>5, <1>7, <2>1
        <3> QED BY <1>6, <3>1 DEF SayInv, PanelFits
    <2>2. \A r \in Requests : told'[r] = told[r]
        BY <1>5, <1>6, Bounds
    <2> QED BY <1>1, <2>1, <2>2 DEF SayInv, PanelFits
<1> QED BY <1>8, <1>9, <1>10, <1>11, <1>12 DEF SayInv

(* Another request, other users of Rock.                                   *)
LEMMA RaceLeaves ==
    ASSUME LinkTypes, Race
    PROVE  /\ (task' = NoTask) <=> (task = NoTask)
           /\ task # NoTask => task'.line = task.line /\ task'.step = task.step
           /\ Written' <=> Written
           /\ TaskIds' = TaskIds
<1>1. CASE task = NoTask
    BY <1>1 DEF Race, Written, TaskIds
<1>2. CASE task # NoTask
    <2>1. task \in Task /\ task' = [task EXCEPT !.raced = TRUE]
        BY <1>2, TaskKnown DEF Race
    <2>2. task'.line = task.line /\ task'.step = task.step
        BY <2>1 DEF Task
    <2>3. task' # NoTask
        BY <2>1 DEF Task, NoTask
    <2> QED BY <1>2, <2>2, <2>3 DEF Written, TaskIds
<1> QED BY <1>1, <1>2

LEMMA OthersSay ==
    ASSUME LinkTypes, SayInv, SetOrigin \/ RockChanges
    PROVE  SayInv'
<1>1. UNCHANGED <<clientVars, connectionVars, late, times>> /\ (UNCHANGED task \/ Race)
    BY DEF SetOrigin, RockChanges, recordVars
<1>2. OnePlace'
    BY <1>1, RaceLeaves DEF SayInv, OnePlace, Apart, connectionVars, TaskIds
<1>3. Lines' = Lines /\ answers' = answers
    BY <1>1 DEF Lines, connectionVars
<1>4. \/ UNCHANGED task
      \/ task # NoTask /\ task' # NoTask /\ task'.line = task.line /\ (Written' <=> Written)
    BY <1>1, RaceLeaves DEF Race
<1> QED BY <1>1, <1>2, <1>3, <1>4, NothingSaid DEF clientVars

(* Nothing is left of what the broker served, but a late write.            *)
LEMMA BrokerCrashSays ==
    ASSUME LinkTypes, SayInv, TaskReads, BrokerCrash
    PROVE  SayInv'
<1>1. /\ wire' = [c \in {"live", "lost"} |-> <<>>] /\ answers' = <<>> /\ task' = NoTask
      /\ UNCHANGED <<panel, revision, commands, queue, times>>
    BY DEF BrokerCrash, recordVars
<1>2. OnePlace'
    <2>1. TaskIds' = {} /\ Distinct(queue)
        BY <1>1 DEF TaskIds, SayInv, OnePlace, Apart
    <2> QED BY <1>1, <2>1, EmptyLines DEF OnePlace, Apart
<1>3. Lines' \subseteq Lines /\ Members(answers') = {}
    BY <1>1, EmptyLines DEF Lines
<1>4. CASE task = NoTask
    <2>1. told' = told /\ late' = late
        BY <1>4 DEF BrokerCrash, At
    <2> QED BY <1>1, <1>2, <1>3, <2>1, NothingSaid
<1>5. CASE task # NoTask
    <2>1. PICK id \in Confirmations : id = task.line.id
        BY <1>5, TaskOpen
    <2>2. \/ told' = told
          \/ id \in Commands /\ told' = [told EXCEPT ![id] = "unknown"]
        BY <2>1 DEF BrokerCrash
    <2>3. told \in [Confirmations -> Outcomes]
        BY DEF LinkTypes, PanelTyped
    <2>4. /\ \A c \in Confirmations : c # id => told'[c] = told[c] /\ times'[c] = times[c]
          /\ id \in Requests => told' = told
          /\ Open(id) => Open(id)'
        BY <1>1, <2>1, <2>2, <2>3, Bounds DEF Open
    <2>5. CASE late' = late
        BY <1>1, <1>2, <1>3, <1>5, <2>1, <2>4, <2>5, EndSays
    <2>6. CASE late' # late
        <3>1. task.step \in {"create", "write"} /\ late' = late \cup {Writing}
            BY <2>6 DEF BrokerCrash, At
        <3>2. PICK w \in Write : w = Writing /\ w.id = id
            BY <1>5, <2>1, <3>1, WritingTyped
        <3>3. Pending(task.line) /\ Open(task.line.id)
            BY <1>5, <3>1, NotYet DEF Steps
        <3>4. times'[id] = 0 /\ Open(id)
            BY <1>1, <2>1, <3>3 DEF Pending
        <3>5. late' = late \cup {w} /\ w.id = id
            BY <3>1, <3>2
        <3> QED BY <1>1, <1>2, <1>3, <1>5, <2>1, <2>4, <3>4, <3>5, EndSays
    <2> QED BY <2>5, <2>6
<1> QED BY <1>4, <1>5

(* A write whose answer was lost happens after all: it is the only one of  *)
(* its confirmation, whose outcome is still unknown to the user.           *)
LEMMA LateWriteSays ==
    ASSUME LinkTypes, SayInv, LateWrite
    PROVE  SayInv'
<1>1. PICK w \in late :
        /\ late' = late \ {w}
        /\ IF Possible(w) THEN Apply(w) ELSE UNCHANGED <<sections, links, last, times>>
    BY DEF LateWrite
<1>2. Race /\ UNCHANGED <<clientVars, connectionVars>>
    BY DEF LateWrite
<1>3. PICK id \in Confirmations : id = w.id /\ Known(id) /\ Open(id) /\ times[id] = 0 /\ id \in LateIds
    BY AllKnown DEF SayInv, LateFits, LateIds
<1>4. times \in [Confirmations -> Nat]
    BY DEF LinkTypes, RockTyped
<1>5. UNCHANGED times \/ times' = [times EXCEPT ![id] = 1]
    <2>1. CASE Apply(w)
        <3>1. times' = IF w.counts THEN [times EXCEPT ![id] = times[id] + 1] ELSE times
            BY <1>3, <2>1 DEF Apply
        <3>2. times[id] + 1 = 1
            BY <1>3
        <3> QED BY <3>1, <3>2
    <2> QED BY <1>1, <2>1
<1>6. /\ \A c \in Confirmations : c # id => told'[c] = told[c] /\ times'[c] = times[c]
      /\ told' = told /\ times'[id] \in {0, 1}
    BY <1>2, <1>3, <1>4, <1>5 DEF clientVars
<1>7. LateIds' \subseteq LateIds /\ id \notin LateIds'
    <2>1. \A v \in late : v.id = id => v = w
        BY <1>1, <1>3 DEF SayInv, LateFits
    <2> QED BY <1>1, <2>1 DEF LateIds
<1>8. /\ \A l \in Line : Pending(l) /\ l.id # id => Pending(l)'
      /\ \A a \in Answer : AnswerTrue(a) /\ a.id # id => AnswerTrue(a)'
      /\ \A c : Known(c) <=> Known(c)'
    <2>1. /\ revision' \in Nat /\ revision <= revision' /\ commands' \in Nat /\ commands <= commands'
        BY <1>2 DEF LinkTypes, PanelTyped, clientVars
    <2>2. \A c : Known(c) <=> Known(c)'
        BY <1>2 DEF Known, clientVars
    <2> QED BY <1>6, <1>7, <2>1, <2>2, OthersStay
<1>9. \A l \in Lines : l \in Line /\ Pending(l) /\ l.id # id
    BY <1>3, AllKnown DEF Pending, PanelLine
<1>10. LinesFit'
    <2>1. Lines' = Lines
        BY <1>2 DEF Lines, connectionVars
    <2>2. ASSUME NEW l \in Lines PROVE Pending(l)'
        BY <1>8, <1>9
    <2> QED BY <2>1, <2>2 DEF LinesFit
<1>11. AnswersFit'
    <2>1. answers' = answers
        BY <1>2 DEF connectionVars
    <2>2. ASSUME NEW a \in Members(answers) PROVE AnswerTrue(a)'
        <3>1. a \in Answer /\ AnswerTrue(a)
            BY Places, IdsOfMembers DEF SayInv, AnswersFit
        <3>2. CASE a.id # id
            BY <1>8, <3>1, <3>2
        <3>3. CASE a.id = id
            <4>1. a.state = "uncertain" /\ Known(a.id)
                BY <1>3, <3>1, <3>3 DEF AnswerTrue
            <4>2. Known(a.id)'
                BY <1>2, <4>1 DEF Known, clientVars
            <4>3. a.id \notin LateIds'
                BY <1>7, <3>3
            <4> QED BY <4>1, <4>2, <4>3 DEF AnswerTrue
        <3> QED BY <3>2, <3>3
    <2> QED BY <2>1, <2>2 DEF AnswersFit
<1>12. TaskSays'
    <2>1. CASE task = NoTask
        BY <1>2, <2>1, RaceLeaves DEF TaskSays
    <2>2. CASE task # NoTask
        <3>1. PICK l \in Line : l = task.line /\ l.id # id /\ l.id \notin LateIds
            BY <1>3, <2>2, TaskOpen, TaskKnown
        <3>2. task' # NoTask /\ task'.line = l /\ (Written' <=> Written)
            BY <1>2, <2>2, <3>1, RaceLeaves
        <3>3. CASE Written
            <4>1. Known(l.id) /\ Open(l.id) /\ times[l.id] = 1 /\ l.id \in Confirmations
                BY <2>2, <3>1, <3>3 DEF SayInv, TaskSays, Line
            <4>2. told'[l.id] \in {"open", "unknown"} /\ times'[l.id] = 1 /\ l.id \notin LateIds'
                BY <1>6, <1>7, <3>1, <4>1 DEF Open
            <4>3. Known(l.id)'
                BY <1>2, <4>1 DEF Known, clientVars
            <4> QED BY <3>2, <3>3, <4>2, <4>3 DEF TaskSays, Open, Known
        <3>4. CASE ~Written
            <4>1. Pending(l)
                BY <2>2, <3>1, <3>4 DEF SayInv, TaskSays
            <4>2. Pending(l)'
                BY <1>8, <3>1, <4>1
            <4>3. Pending(task.line)'
                BY <3>2, <4>2 DEF Pending, Open, Known
            <4> QED BY <3>2, <3>4, <4>3 DEF TaskSays
        <3> QED BY <3>3, <3>4
    <2> QED BY <2>1, <2>2
<1>13. LateFits'
    <2>1. ASSUME NEW v \in late' PROVE Known(v.id)' /\ Open(v.id)' /\ times'[v.id] = 0
        <3>1. v \in late /\ v.id \in Confirmations /\ v.id # id
            BY <1>1, <1>7, <2>1, AllKnown DEF LateIds
        <3>2. Known(v.id) /\ Open(v.id) /\ times[v.id] = 0
            BY <3>1 DEF SayInv, LateFits
        <3>3. told'[v.id] = told[v.id] /\ times'[v.id] = 0
            BY <1>6, <3>1, <3>2
        <3>4. Known(v.id)'
            BY <1>2, <3>2 DEF Known, clientVars
        <3> QED BY <3>2, <3>3, <3>4 DEF Open
    <2>2. \A u, v \in late' : u.id = v.id => u = v
        BY <1>1 DEF SayInv, LateFits
    <2> QED BY <2>1, <2>2 DEF LateFits
<1>14. PanelFits'
    <2>1. ASSUME NEW c \in Confirmations, ~Known(c)' PROVE told'[c] = "unasked" /\ times'[c] = 0
        <3>1. ~Known(c) /\ c # id
            BY <1>3, <1>8, <2>1
        <3> QED BY <1>6, <3>1 DEF SayInv, PanelFits
    <2> QED BY <1>2, <2>1 DEF SayInv, PanelFits, clientVars
<1>15. OnePlace'
    BY <1>2, RaceLeaves DEF SayInv, OnePlace, Apart, connectionVars
<1> QED BY <1>10, <1>11, <1>12, <1>13, <1>14, <1>15 DEF SayInv

LEMMA StepSays ==
    ASSUME LinkTypes, TaskReads, SayInv, [Next]_vars
    PROVE  SayInv'
<1>1. CASE PanelStep \/ ConnectionStep \/ CommandStep
    BY <1>1, SendingSays, CloseSays, ReceiveSays, ConnectionSays, CommandSays, CommandTimeoutSays
        DEF PanelStep, CommandStep
<1>2. CASE ServeStep
    BY <1>2, TakeLineSays, FailSays, PrepareSays, CommitReadsSay, ReadAgainSays, WriteSays
        DEF ServeStep, CommitStep
<1>3. CASE EnvironmentStep
    BY <1>3, OthersSay, BrokerCrashSays, LateWriteSays DEF EnvironmentStep
<1>4. CASE UNCHANGED vars
    <2>1. UNCHANGED <<panel, revision, commands, told, queue, wire, answers, task, late, times>>
        BY <1>4 DEF vars, clientVars, connectionVars, rockVars, recordVars
    <2>2. OnePlace' /\ Lines' = Lines
        BY <2>1 DEF SayInv, OnePlace, Apart, TaskIds, Lines
    <2> QED BY <2>1, <2>2, NothingSaid
<1> QED BY <1>1, <1>2, <1>3, <1>4 DEF Next

LEMMA SaySafe ==
    Spec => [](LinkTypes /\ TaskReads /\ SayInv)
<1>1. Init => LinkTypes /\ TaskReads /\ SayInv
    BY TypesInit, ReadsInit, SayInit
<1>2. LinkTypes /\ TaskReads /\ SayInv /\ [Next]_vars => (LinkTypes /\ TaskReads /\ SayInv)'
    BY StepKeeps, StepSays
<1> QED BY <1>1, <1>2, PTL DEF Spec
-----------------------------------------------------------------------------
(* The abstract specification: what each step is to the confirmation.      *)

LEMMA TellFits ==
    ASSUME LinkTypes, SayInv, NEW outcome, Tell(outcome), UNCHANGED times,
           panel.phase = "saving" =>
             outcome \in IF times[panel.request] = 1 THEN {"done", "unknown"}
                                                     ELSE {"not_done", "found", "unknown"}
    PROVE  [Confirmation!Next]_Confirmation!vars
<1>1. CASE panel.phase # "saving"
    BY <1>1 DEF Tell, Confirmation!vars
<1>2. CASE panel.phase = "saving"
    <2>1. PICK id \in Confirmations : id = panel.request /\ told[id] = "open"
        BY <1>2 DEF SayInv, PanelFits, Confirmations
    <2>2. told' = [told EXCEPT ![id] = outcome]
        BY <1>2, <2>1 DEF Tell
    <2>3. Confirmation!Tell(id)
        BY <1>2, <2>1, <2>2 DEF Confirmation!Tell
    <2> QED BY <2>3 DEF Confirmation!Next
<1> QED BY <1>1, <1>2

LEMMA ReceiveTells ==
    ASSUME LinkTypes, SayInv, Receive
    PROVE  [Confirmation!Next]_Confirmation!vars
<1>1. answers # <<>> /\ UNCHANGED times
    BY DEF Receive, rockVars, recordVars
<1>2. PICK a \in Answer : a = Head(answers) /\ a \in Members(answers)
    BY <1>1, Places, TailLines
<1>3. AnswerTrue(a)
    BY <1>2 DEF SayInv, AnswersFit
<1>4. CASE UNCHANGED told
    BY <1>1, <1>4 DEF Confirmation!vars
<1>5. CASE Tell("unknown")
    BY <1>1, <1>5, TellFits
<1>6. CASE a.id = panel.request /\ a.state \in {"done", "found"} /\ Tell(a.state)
    BY <1>1, <1>3, <1>6, TellFits DEF AnswerTrue
<1>7. CASE a.id = panel.request /\ a.state = "error" /\ Tell("not_done")
    BY <1>1, <1>3, <1>7, TellFits DEF AnswerTrue
<1>8. \/ UNCHANGED told \/ Tell("unknown")
      \/ a.id = panel.request /\ a.state \in {"done", "found"} /\ Tell(a.state)
      \/ a.id = panel.request /\ a.state = "error" /\ Tell("not_done")
    <2>1. CASE a.state = "bare"
        BY <1>2, <2>1 DEF Receive
    <2>2. CASE a.state # "bare" /\ ~(panel.phase \in {"loading", "saving"} /\ a.id = panel.request)
        BY <1>2, <2>2 DEF Receive
    <2>3. CASE a.state # "bare" /\ panel.phase \in {"loading", "saving"} /\ a.id = panel.request
        <3>1. CASE a.state \in {"done", "found"}
            BY <1>2, <2>3, <3>1 DEF Receive
        <3>2. CASE a.state = "draft"
            BY <1>2, <2>3, <3>2 DEF Receive
        <3>3. CASE a.state \in {"uncertain", "error"}
            BY <1>2, <2>3, <3>3 DEF Receive
        <3> QED BY <2>3, <3>1, <3>2, <3>3 DEF Answer
    <2> QED BY <2>1, <2>2, <2>3
<1> QED BY <1>4, <1>5, <1>6, <1>7, <1>8

LEMMA SaveConfirms ==
    ASSUME LinkTypes, SayInv, Save
    PROVE  [Confirmation!Next]_Confirmation!vars
<1>1. revision < MaxRequests /\ UNCHANGED times
    BY DEF Save, Send, rockVars, recordVars
<1>2. told' = [told EXCEPT ![revision + 1] = "open"]
    BY DEF Save
<1>3. PICK id \in Confirmations : id = revision + 1 /\ told[id] = "unasked"
    <2>1. revision \in Nat /\ MaxRequests \in Nat
        BY Bounds DEF LinkTypes, PanelTyped
    <2>2. revision + 1 \in Requests
        BY <1>1, <2>1 DEF Requests
    <2>3. revision + 1 \in Confirmations /\ ~Known(revision + 1)
        BY <2>1, <2>2 DEF Confirmations, Known
    <2> QED BY <2>3 DEF SayInv, PanelFits
<1>4. Confirmation!Confirm(id)
    BY <1>1, <1>2, <1>3 DEF Confirmation!Confirm
<1> QED BY <1>4 DEF Confirmation!Next

LEMMA CommandConfirms ==
    ASSUME LinkTypes, SayInv, Command
    PROVE  [Confirmation!Next]_Confirmation!vars
<1>1. commands < MaxCommands /\ UNCHANGED times
    BY DEF Command, rockVars, recordVars
<1>2. PICK id : id = MaxRequests + commands + 1
    OBVIOUS
<1>3. id \in Confirmations /\ told[id] = "unasked"
    <2>1. MaxRequests \in Nat /\ MaxCommands \in Nat /\ commands \in Nat
        BY Bounds DEF LinkTypes, PanelTyped
    <2>2. id \in Commands /\ id \notin Requests
        BY <1>1, <1>2, <2>1 DEF Commands, Requests
    <2>3. id \in Confirmations /\ ~Known(id)
        BY <1>2, <2>1, <2>2 DEF Confirmations, Known
    <2> QED BY <2>3 DEF SayInv, PanelFits
<1>4. \/ told' = [told EXCEPT ![id] = "open"]
      \/ told' = [told EXCEPT ![id] = told[id]]
    <2>1. PICK op \in {"prepare", "commit"}, k \in Asked, n \in 0 .. MaxRecords, u \in Urls,
               d \in 0 .. MaxRequests + commands :
            \E grants \in SUBSET (IF k \in Deletes THEN {"deleteLinks", "deleteSections"}
                                                   ELSE {"addLinks", "addSections"}) :
              /\ (d = 0) = (op = "prepare") /\ d \notin Requests
              /\ op = "prepare" => grants = {} /\ n \in IF k \in Deletes THEN 1 .. last ELSE {0}
              /\ op = "commit" /\ k \in Deletes => n = 0
              /\ LET line == [op |-> op, kind |-> k, id |-> MaxRequests + commands + 1,
                              draft |-> d, target |-> n, url |-> u] IN
                  /\ task' = Started(line, TRUE, grants)
                  /\ told' = [told EXCEPT ![line.id] = IF op = "commit" THEN "open" ELSE @]
        BY DEF Command
    <2>2. told' = [told EXCEPT ![id] = IF op = "commit" THEN "open" ELSE told[id]]
        BY <1>2, <2>1
    <2> QED BY <2>2
<1>5. told \in [Confirmations -> Outcomes]
    BY DEF LinkTypes, PanelTyped
<1>6. CASE told' = [told EXCEPT ![id] = "open"]
    <2>1. Confirmation!Confirm(id)
        BY <1>1, <1>3, <1>6 DEF Confirmation!Confirm
    <2> QED BY <1>3, <2>1 DEF Confirmation!Next
<1>7. CASE told' = [told EXCEPT ![id] = told[id]]
    BY <1>1, <1>3, <1>5, <1>7 DEF Confirmation!vars
<1> QED BY <1>4, <1>6, <1>7

(* The client no longer waits for an outcome.                              *)
LEMMA GivenUpTells ==
    ASSUME LinkTypes, CommandTimeout \/ BrokerCrash
    PROVE  [Confirmation!Next]_Confirmation!vars
<1>1. UNCHANGED times
    BY DEF CommandTimeout, BrokerCrash, rockVars, recordVars
<1>2. told \in [Confirmations -> Outcomes]
    BY DEF LinkTypes, PanelTyped
<1>3. CASE told' = told
    BY <1>1, <1>3 DEF Confirmation!vars
<1>4. CASE told' # told
    <2>1. task # NoTask
        BY <1>4 DEF CommandTimeout, BrokerCrash
    <2>2. PICK id \in Confirmations : id = task.line.id
        BY <2>1, TaskKnown
    <2>3. told[id] = "open" /\ told' = [told EXCEPT ![id] = "unknown"]
        <3>1. CASE CommandTimeout
            <4>1. told' = [told EXCEPT ![id] = IF told[id] = "open" THEN "unknown" ELSE told[id]]
                BY <2>2, <3>1 DEF CommandTimeout
            <4> QED BY <1>2, <1>4, <2>2, <4>1
        <3>2. CASE BrokerCrash
            BY <1>4, <2>2, <3>2 DEF BrokerCrash
        <3> QED BY <3>1, <3>2
    <2>4. Confirmation!Tell(id)
        BY <1>1, <2>3 DEF Confirmation!Tell
    <2> QED BY <2>2, <2>4 DEF Confirmation!Next
<1> QED BY <1>3, <1>4

LEMMA ReplyTold ==
    ASSUME LinkTypes, task # NoTask, NEW state \in States, NEW offered, Reply(state, offered),
           NEW id, id = task.line.id
    PROVE  \/ told' = told
           \/ /\ told[id] = "open"
              /\ \/ told' = [told EXCEPT ![id] = "unknown"] /\ state \in {"uncertain", "bare"}
                 \/ told' = [told EXCEPT ![id] = "not_done"] /\ state = "error"
                 \/ told' = [told EXCEPT ![id] = state] /\ state \in {"done", "found"}
<1>1. told \in [Confirmations -> Outcomes]
    BY DEF LinkTypes, PanelTyped
<1>2. CASE id \notin Commands
    BY <1>2 DEF Reply
<1>3. CASE id \in Commands
    <2> DEFINE o == IF told[id] # "open" THEN told[id]
                    ELSE CASE state \in {"uncertain", "bare"} -> "unknown"
                           [] state = "error" -> "not_done"
                           [] state \in {"done", "found"} -> state
                           [] OTHER -> told[id]
    <2>1. told' = [told EXCEPT ![id] = o]
        BY <1>3 DEF Reply
    <2>2. \/ o = told[id]
          \/ /\ told[id] = "open"
             /\ \/ o = "unknown" /\ state \in {"uncertain", "bare"}
                \/ o = "not_done" /\ state = "error"
                \/ o = state /\ state \in {"done", "found"}
        OBVIOUS
    <2> HIDE DEF o
    <2>3. o = told[id] => told' = told
        BY <1>1, <2>1
    <2> QED BY <2>1, <2>2, <2>3
<1> QED BY <1>2, <1>3

LEMMA ReplyTells ==
    ASSUME LinkTypes, task # NoTask, NEW state \in States, NEW offered, Reply(state, offered),
           UNCHANGED times,
           state = "done" => times[task.line.id] = 1,
           state \in {"found", "error"} => times[task.line.id] = 0
    PROVE  [Confirmation!Next]_Confirmation!vars
<1>1. PICK id \in Confirmations : id = task.line.id
    BY TaskKnown
<1>2. CASE told' = told
    BY <1>2 DEF Confirmation!vars
<1>3. CASE told' # told
    <2>1. PICK o : /\ told[id] = "open" /\ told' = [told EXCEPT ![id] = o]
                   /\ \/ o = "unknown"
                      \/ o \in {"not_done", "found"} /\ times[id] = 0
                      \/ o = "done" /\ times[id] = 1
        BY <1>1, <1>3, ReplyTold
    <2>2. o \in IF times[id] = 1 THEN {"done", "unknown"} ELSE {"not_done", "found", "unknown"}
        BY <2>1
    <2>3. Confirmation!Tell(id)
        BY <2>1, <2>2 DEF Confirmation!Tell
    <2> QED BY <1>1, <2>3 DEF Confirmation!Next
<1> QED BY <1>2, <1>3

(* What the handler does before it writes, and after.                      *)
LEMMA ReadsTell ==
    ASSUME LinkTypes, SayInv, TaskReads,
           \/ Fail \/ PrepareStep \/ CommitDraft \/ CommitAccount \/ CommitSections
           \/ CommitRecord \/ CommitScope \/ CommitContents \/ LookForLink
    PROVE  [Confirmation!Next]_Confirmation!vars
<1>1. task # NoTask /\ UNCHANGED times
    BY DEF Fail, Fails, PrepareStep, PrepareAddition, PrepareDeletion, CommitDraft, CommitAccount,
        CommitSections, CommitRecord, CommitScope, CommitContents, LookForLink, At, rockVars, recordVars
<1>2. ~Written
    BY DEF Fail, Fails, PrepareStep, PrepareAddition, PrepareDeletion, CommitDraft, CommitAccount,
        CommitSections, CommitRecord, CommitScope, CommitContents, LookForLink, At, Written
<1>3. times[task.line.id] = 0
    BY <1>1, <1>2 DEF SayInv, TaskSays, Pending
<1>4. \/ UNCHANGED told
      \/ \E state \in {"bare", "error", "found", "draft"} : \E offered : Reply(state, offered)
    BY DEF Fail, Fails, PrepareStep, PrepareAddition, PrepareDeletion, CommitDraft, CommitAccount,
        CommitSections, CommitRecord, CommitScope, CommitContents, LookForLink, Goto
<1>5. CASE UNCHANGED told
    BY <1>1, <1>5 DEF Confirmation!vars
<1>6. CASE \E state \in {"bare", "error", "found", "draft"} : \E offered : Reply(state, offered)
    BY <1>1, <1>3, <1>6, ReplyTells DEF States
<1> QED BY <1>4, <1>5, <1>6

LEMMA ReadAgainTells ==
    ASSUME LinkTypes, SayInv, SectionCreated \/ VerifyLink \/ VerifyDeletion
    PROVE  [Confirmation!Next]_Confirmation!vars
<1>1. task # NoTask /\ UNCHANGED times
    BY DEF SectionCreated, VerifyLink, VerifyDeletion, At, rockVars, recordVars
<1>2. CASE UNCHANGED told
    BY <1>1, <1>2 DEF Confirmation!vars
<1>3. CASE Reply("uncertain", {})
    BY <1>1, <1>3, ReplyTells DEF States
<1>4. CASE Written /\ Reply("done", {})
    <2>1. times[task.line.id] = 1
        BY <1>1, <1>4 DEF SayInv, TaskSays
    <2> QED BY <1>1, <1>4, <2>1, ReplyTells DEF States
<1>5. UNCHANGED told \/ Reply("uncertain", {}) \/ (Written /\ Reply("done", {}))
    BY DEF SectionCreated, VerifyLink, VerifyDeletion, At, Written, Goto
<1> QED BY <1>2, <1>3, <1>4, <1>5

LEMMA WriteConfirms ==
    ASSUME LinkTypes, SayInv, TaskReads, CreateSection \/ WriteRecord
    PROVE  [Confirmation!Next]_Confirmation!vars
<1>1. task # NoTask
    BY WriteCounts
<1>2. PICK id \in Confirmations : id = task.line.id /\ times[id] = 0 /\ Open(id)
    BY WriteCounts
<1>3. UNCHANGED times \/ times' = [times EXCEPT ![id] = 1]
    BY <1>2, WriteCounts
<1>4. \/ UNCHANGED told
      \/ Reply("uncertain", {})
      \/ Reply("error", {}) /\ UNCHANGED times
    BY DEF CreateSection, WriteRecord, WriteToRock, recordVars
<1>5. CASE UNCHANGED times
    <2>1. CASE UNCHANGED told
        BY <1>5, <2>1 DEF Confirmation!vars
    <2>2. CASE Reply("uncertain", {}) \/ Reply("error", {})
        BY <1>1, <1>2, <1>5, <2>2, ReplyTells DEF States
    <2> QED BY <1>4, <2>1, <2>2
<1>6. CASE times' = [times EXCEPT ![id] = 1] /\ times' # times
    <2>1. told' = told \/ told' = [told EXCEPT ![id] = "unknown"]
        <3>1. CASE UNCHANGED told
            BY <3>1
        <3>2. CASE Reply("uncertain", {})
            BY <1>1, <1>2, <3>2, ReplyTold DEF States
        <3> QED BY <1>4, <1>6, <3>1, <3>2
    <2>2. Confirmation!Do(id)
        BY <1>2, <1>6, <2>1 DEF Confirmation!Do, Open
    <2> QED BY <1>2, <2>2 DEF Confirmation!Next
<1> QED BY <1>3, <1>5, <1>6

LEMMA LateWriteConfirms ==
    ASSUME LinkTypes, SayInv, LateWrite
    PROVE  [Confirmation!Next]_Confirmation!vars
<1>1. PICK w \in late :
        IF Possible(w) THEN Apply(w) ELSE UNCHANGED <<sections, links, last, times>>
    BY DEF LateWrite
<1>2. PICK id \in Confirmations : id = w.id /\ Open(id) /\ times[id] = 0
    BY AllKnown DEF SayInv, LateFits, LateIds
<1>3. UNCHANGED told
    BY DEF LateWrite, clientVars
<1>4. CASE UNCHANGED times
    BY <1>3, <1>4 DEF Confirmation!vars
<1>5. CASE times' # times
    <2>1. times' = [times EXCEPT ![id] = times[id] + 1]
        BY <1>1, <1>2, <1>5 DEF Apply
    <2>2. times' = [times EXCEPT ![id] = 1]
        <3>1. times[id] + 1 = 1
            BY <1>2
        <3> QED BY <2>1, <3>1
    <2>3. Confirmation!Do(id)
        BY <1>2, <1>3, <2>2 DEF Confirmation!Do, Open
    <2> QED BY <1>2, <2>3 DEF Confirmation!Next
<1> QED BY <1>4, <1>5

LEMMA StepConfirms ==
    ASSUME LinkTypes, TaskReads, SayInv, [Next]_vars
    PROVE  [Confirmation!Next]_Confirmation!vars
<1>1. CASE Begin \/ Reload \/ Close \/ Connect \/ Disconnect \/ TakeLine \/ SetOrigin
    BY <1>1 DEF Begin, Reload, Close, Send, Connect, Disconnect, TakeLine, SetOrigin,
        clientVars, rockVars, recordVars, Confirmation!vars
<1>2. CASE RockChanges \/ UNCHANGED vars
    BY <1>2 DEF RockChanges, vars, clientVars, rockVars, recordVars, Confirmation!vars
<1>3. CASE ConnectionFailed
    <2>1. Tell("unknown") /\ UNCHANGED times
        BY <1>3 DEF ConnectionFailed, rockVars, recordVars
    <2> QED BY <2>1, TellFits
<1>4. CASE Save \/ Receive
    BY <1>4, SaveConfirms, ReceiveTells
<1>5. CASE CommandStep \/ BrokerCrash
    BY <1>5, CommandConfirms, GivenUpTells DEF CommandStep
<1>6. CASE CreateSection \/ WriteRecord \/ LateWrite
    BY <1>6, WriteConfirms, LateWriteConfirms
<1>7. CASE SectionCreated \/ VerifyLink \/ VerifyDeletion
    BY <1>7, ReadAgainTells
<1>8. CASE \/ Fail \/ PrepareStep \/ CommitDraft \/ CommitAccount \/ CommitSections
           \/ CommitRecord \/ CommitScope \/ CommitContents \/ LookForLink
    BY <1>8, ReadsTell
<1> QED BY <1>1, <1>2, <1>3, <1>4, <1>5, <1>6, <1>7, <1>8
        DEF Next, PanelStep, ConnectionStep, ServeStep, CommitStep, EnvironmentStep

(* However the socket, the broker, Rock and the user time it, from the     *)
(* panel or the command line: a confirmed addition or deletion happens at  *)
(* most once, and is called done, already there or not done only when that *)
(* is so, then and later.                                                  *)
THEOREM LinksConfirm ==
    Spec => LinksKeepConfirmation
<1>1. Init => Confirmation!Init
    BY DEF Init, Confirmation!Init
<1>2. LinkTypes /\ TaskReads /\ SayInv /\ [Next]_vars => [Confirmation!Next]_Confirmation!vars
    BY StepConfirms
<1> QED BY <1>1, <1>2, SaySafe, PTL DEF Spec, LinksKeepConfirmation, Confirmation!Spec
=============================================================================
