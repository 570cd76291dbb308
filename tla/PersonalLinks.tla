----------------------------- MODULE PersonalLinks -----------------------------
(***************************************************************************)
(* Adding and deleting Personal Links and their sections: the dialog of    *)
(* the panel (RockArchPersonalLinkState.qml) with its socket, the command  *)
(* line as a second client, the handler of the broker with the manager     *)
(* (personal_links.py), and the Rock server.                               *)
(*                                                                         *)
(* A request's number stands for its requestId; that of a commit is the    *)
(* confirmation, that of a prepare the draft's token.  The broker serves   *)
(* one request at a time; Rock may change between any two of its reads,    *)
(* and a write whose answer was lost may still be carried out later.  Time *)
(* is left out: a draft past its deadline fails like a failing read, and   *)
(* the oldest drafts expire first.  Of a name only "Links" or another one  *)
(* matters: names are numbers and 1 is "Links".                            *)
(***************************************************************************)
EXTENDS Naturals, Sequences, FiniteSets, SequencesExt

CONSTANTS
    Accounts,     \* people (with their alias) a login may belong to
    Urls,
    DraftLimit,   \* drafts the manager keeps, of additions and of deletions
    SectionLimit, \* personal sections of an account
    MaxRequests,  \* bound: requests of the panel
    MaxCommands,  \* bound: requests of the command line
    MaxRecords,   \* bound: records Rock ever stores, sections and links
    MaxChanges,   \* bound: changes of Rock by others
    Asked         \* the kinds of requests that are made

Kinds == {"link", "section", "delete-link", "delete-section", "delete-empty"}
Deletes == {"delete-link", "delete-section", "delete-empty"}

ASSUME LinkBounds ==
    /\ Asked \subseteq Kinds
    /\ {DraftLimit, SectionLimit, MaxRecords} \subseteq Nat \ {0}
    /\ {MaxRequests, MaxCommands, MaxChanges} \subseteq Nat

VARIABLES
    panel,      \* the dialog
    revision,   \* number of the panel's last request
    commands,   \* requests of the command line so far
    told,       \* history: what the user was told of a confirmation
    queue,      \* requests that wait for a connection
    socket,     \* of the panel: up, down, or failed and not replaced yet
    wire,       \* lines written and not read yet, by live and lost connections
    answers,    \* lines the broker has written to the live connection
    task,       \* the request being served
    additions,  \* _drafts, oldest first
    deletions,  \* _deletions, oldest first
    account,    \* whom the saved login belongs to
    sections, links,  \* Rock's records
    last,       \* number of the last record Rock stored
    late,       \* writes without an answer that Rock may still carry out
    changes,    \* how often others changed Rock or the grants
    times,      \* history: how often a confirmation's own write happened
    clean       \* history: links stored when nothing else happened meanwhile,
                \* until others edit a link

clientVars == <<panel, revision, commands, told>>
connectionVars == <<queue, socket, wire, answers>>
managerVars == <<additions, deletions>>
recordVars == <<sections, links, last, times, clean>>
rockVars == <<account, recordVars, late, changes>>
vars == <<clientVars, connectionVars, task, managerVars, rockVars>>

Actions == {"addLinks", "addSections", "deleteLinks", "deleteSections"}
Requests == 1 .. MaxRequests
Commands == MaxRequests + 1 .. MaxRequests + MaxCommands
Confirmations == Requests \cup Commands
NewSection == 0
Names == {1, 2}
(* A section has an id, an owner and a name; a link an id, an owner, a     *)
(* section and a url.  A line says whether to prepare or to commit, what   *)
(* kind, under which number, with which draft, target and url.  The task   *)
(* is a line with the step it has come to, the grants of its client, and   *)
(* what was read so far: the owner, the draft, the place and the section   *)
(* made on the way.                                                        *)
NoTask == [step |-> "idle"]
ClosedPanel == [phase |-> "closed", kind |-> "link", request |-> 0, draft |-> 0,
                target |-> 0, offered |-> {}]

(* The account has its section "Links", with or without a link, or nothing. *)
Init ==
    /\ panel = ClosedPanel /\ revision = 0 /\ commands = 0
    /\ told = [c \in Confirmations |-> "unasked"]
    /\ queue = <<>> /\ socket = "down"
    /\ wire = [c \in {"live", "lost"} |-> <<>>] /\ answers = <<>>
    /\ task = NoTask /\ additions = <<>> /\ deletions = <<>>
    /\ account \in Accounts
    /\ sections \in {{}, {[id |-> 1, owner |-> account, name |-> 1]}}
    /\ \/ links = {} /\ last = Cardinality(sections)
       \/ /\ sections # {} /\ MaxRecords > 1
          /\ \E u \in Urls :
               links = {[id |-> 2, owner |-> account, section |-> 1, url |-> u]}
          /\ last = 2
    /\ late = {} /\ changes = 0
    /\ times = [c \in Confirmations |-> 0]
    /\ clean = {}
-----------------------------------------------------------------------------
(* The panel and its connection.                                           *)

(* A socket that goes down loses the answers under way; the broker may     *)
(* still read what was written to it.                                      *)
Down ==
    /\ answers' = <<>>
    /\ wire' = [wire EXCEPT !["live"] = <<>>, !["lost"] = @ \o wire["live"]]
    /\ task' = IF task = NoTask THEN task ELSE [task EXCEPT !.live = @ /\ task.line.id \in Commands]

(* flushRequests: the socket may go down after any line.                   *)
Connect ==
    /\ socket = "down"
    /\ \E n \in 0 .. Len(queue) :
        /\ queue' = SubSeq(queue, n + 1, Len(queue))
        /\ socket' = IF n = Len(queue) THEN "up" ELSE "failed"
        /\ wire' = [wire EXCEPT ![IF n = Len(queue) THEN "live" ELSE "lost"] =
                                    @ \o SubSeq(queue, 1, n)]
    /\ UNCHANGED <<clientVars, answers, task, managerVars, rockVars>>

Disconnect ==
    /\ socket = "up" /\ Down /\ socket' = "failed"
    /\ UNCHANGED <<clientVars, queue, managerVars, rockVars>>

(* Mutant: only loading is interrupted.                                    *)
Interrupted_OnlyLoading(p) ==
    IF p.phase = "loading" THEN [p EXCEPT !.phase = "form", !.request = 0, !.draft = 0] ELSE p

(* interrupted(): only while busy; a save that was sent may have happened. *)
Interrupted(p) ==
    IF p.phase \in {"loading", "saving"}
      THEN [p EXCEPT !.phase = "form", !.request = 0, !.draft = 0] ELSE p

Tell(outcome) ==
    told' = IF panel.phase = "saving" THEN [told EXCEPT ![panel.request] = outcome] ELSE told

(* The error of a socket that went down or could not connect: the socket   *)
(* is replaced, the dialog is interrupted and its requests are dropped.    *)
ConnectionFailed ==
    /\ socket # "up" /\ socket' = "down"
    /\ Down /\ queue' = <<>>
    /\ panel' = Interrupted(panel) /\ Tell("unknown")
    /\ UNCHANGED <<revision, commands, managerVars, rockVars>>

(* send()                                                                  *)
Send(waiting, op, target, u) ==
    LET line == [op |-> op, kind |-> panel'.kind, id |-> revision + 1,
                 draft |-> panel.draft, target |-> target, url |-> u] IN
    /\ revision < MaxRequests /\ revision' = revision + 1
    /\ IF socket = "up"
         THEN queue' = <<>> /\ wire' = [wire EXCEPT !["live"] = @ \o Append(waiting, line)]
         ELSE queue' = Append(waiting, line) /\ UNCHANGED wire
    /\ UNCHANGED <<commands, socket, answers, task, managerVars, rockVars>>

(* begin(), beginDelete(), beginSection(): the panel always asks to delete *)
(* a section with its links, and drops what an earlier dialog had queued.  *)
Begin ==
    /\ panel.phase = "closed"
    /\ \E k \in Asked \ {"delete-empty"}, u \in Urls :
       \E n \in IF k \in Deletes THEN 1 .. last ELSE {0} :
        /\ panel' = [ClosedPanel EXCEPT !.phase = "loading", !.kind = k, !.target = n,
                                        !.request = revision + 1]
        /\ Send(<<>>, "prepare", n, u)
    /\ UNCHANGED told

Reload ==
    /\ panel.phase = "form"
    /\ panel' = [panel EXCEPT !.phase = "loading", !.request = revision + 1, !.draft = 0,
                              !.offered = {}]
    /\ \E u \in Urls : Send(queue, "prepare", panel.target, u)
    /\ UNCHANGED told

(* save(): with the section, or the section's name, the user has chosen.   *)
Save ==
    /\ panel.phase = "form" /\ panel.draft # 0
    /\ panel' = [panel EXCEPT !.phase = "saving", !.request = revision + 1]
    /\ \E u \in Urls, n \in CASE panel.kind = "link" -> panel.offered
                              [] panel.kind = "section" -> Names
                              [] OTHER -> {0} :
        Send(queue, "commit", n, u)
    /\ told' = [told EXCEPT ![revision + 1] = "open"]

(* cancel() is refused while saving; closing the panel or a change of      *)
(* profile, login or context is not.  Both drop what is queued.            *)
Close ==
    /\ panel.phase # "closed"
    /\ panel' = ClosedPanel /\ queue' = <<>>
    /\ UNCHANGED <<revision, commands, told, socket, wire, answers, task,
                   managerVars, rockVars>>

(* An answer without requestId (another request's error) interrupts too.   *)
Receive ==
    /\ answers # <<>> /\ answers' = Tail(answers)
    /\ LET a == Head(answers)
           expected == panel.phase \in {"loading", "saving"} /\ a.id = panel.request IN
        IF a.state = "bare" THEN panel' = Interrupted(panel) /\ Tell("unknown")
        ELSE IF ~expected THEN UNCHANGED <<panel, told>>
        ELSE CASE a.state \in {"done", "found"} -> panel' = ClosedPanel /\ Tell(a.state)
               [] a.state = "draft" ->
                    /\ panel' = [panel EXCEPT !.phase = "form", !.draft = a.draft,
                                              !.offered = a.offered]
                    /\ UNCHANGED told
               [] OTHER ->
                    /\ panel' = [panel EXCEPT !.phase = "form", !.draft = 0]
                    /\ Tell(IF a.state = "uncertain" THEN "unknown" ELSE "not_done")
    /\ UNCHANGED <<revision, commands, queue, socket, wire, task, managerVars,
                   rockVars>>
-----------------------------------------------------------------------------
(* The broker: the handler and the manager, one read or write after the    *)
(* other.                                                                  *)

Started(line, live, grants) ==
    [step |-> "begin", live |-> live, line |-> line, grants |-> grants, owner |-> 0, draft |-> {},
     place |-> 0, made |-> 0, raced |-> FALSE]

(* A line; of those written to a lost connection some may never arrive.    *)
TakeLine ==
    /\ task = NoTask
    /\ \E c \in {"live", "lost"} : \E n \in 1 .. Len(wire[c]) :
        /\ c = "live" => n = 1
        /\ wire' = [wire EXCEPT ![c] = SubSeq(@, n + 1, Len(@))]
        /\ task' = Started(wire[c][n], c = "live", Actions)
    /\ UNCHANGED <<clientVars, queue, socket, answers, managerVars, rockVars>>

(* A command asks for a draft, or commits one that a command was given:    *)
(* programs that drive the command's protocol may commit one again.  What  *)
(* commands may change (terminalMutationActions) is read for each commit;  *)
(* the grants that do not concern its kind are left out.                   *)
Command ==
    /\ task = NoTask /\ commands < MaxCommands /\ commands' = commands + 1
    /\ \E op \in {"prepare", "commit"}, k \in Asked, n \in 0 .. MaxRecords, u \in Urls,
          d \in 0 .. MaxRequests + commands :
       \E grants \in SUBSET (IF k \in Deletes THEN {"deleteLinks", "deleteSections"}
                                             ELSE {"addLinks", "addSections"}) :
        /\ (d = 0) = (op = "prepare") /\ d \notin Requests
        /\ op = "prepare" => grants = {} /\ n \in IF k \in Deletes THEN 1 .. last ELSE {0}
        /\ op = "commit" /\ k \in Deletes => n = 0
        /\ LET line == [op |-> op, kind |-> k, id |-> MaxRequests + commands + 1,
                        draft |-> d, target |-> n, url |-> u] IN
            /\ task' = Started(line, TRUE, grants)
            /\ told' = [told EXCEPT ![line.id] = IF op = "commit" THEN "open" ELSE @]
    /\ UNCHANGED <<panel, revision, connectionVars, managerVars, rockVars>>

(* Mutant: the command takes its timeout for a failure.                    *)
CommandTimeout_Failed ==
    /\ task # NoTask /\ task.live /\ task.line.id \in Commands
    /\ task' = [task EXCEPT !.live = FALSE]
    /\ told' = [told EXCEPT ![task.line.id] = IF @ = "open" THEN "not_done" ELSE @]
    /\ UNCHANGED <<panel, revision, commands, connectionVars, managerVars, rockVars>>

(* The command stops waiting; the broker goes on.                          *)
CommandTimeout ==
    /\ task # NoTask /\ task.live /\ task.line.id \in Commands
    /\ task' = [task EXCEPT !.live = FALSE]
    /\ told' = [told EXCEPT ![task.line.id] = IF @ = "open" THEN "unknown" ELSE @]
    /\ UNCHANGED <<panel, revision, commands, connectionVars, managerVars, rockVars>>

At(step) == task # NoTask /\ task.step = step
Is(op, kinds) == task # NoTask /\ task.line.op = op /\ task.line.kind \in kinds
Goto(step) == task' = [task EXCEPT !.step = step] /\ UNCHANGED <<told, answers>>
Unread == <<panel, revision, commands, queue, socket, wire>>

Reply(state, offered) ==
    /\ task' = NoTask
    /\ LET id == task.line.id
           a  == [id |-> id, state |-> state, offered |-> offered,
                  draft |-> IF state = "draft" THEN id ELSE 0] IN
        IF id \in Commands
          THEN /\ told' = [told EXCEPT ![id] =
                    IF @ # "open" THEN @
                    ELSE CASE state \in {"uncertain", "bare"} -> "unknown"
                           [] state = "error" -> "not_done"
                           [] state \in {"done", "found"} -> state
                           [] OTHER -> @]
               /\ UNCHANGED answers
          ELSE /\ answers' = IF task.live THEN Append(answers, a) ELSE answers
               /\ UNCHANGED told

(* Any read may fail, and any check of the deadline; a request may not be  *)
(* understood, or fail so that its number is not in the answer.            *)
Fails ==
    \/ At("begin") /\ Reply("bare", {})
    \/ /\ \A s \in {"create", "created", "write", "verify"} : ~At(s)
       /\ task # NoTask /\ Reply("error", {})
Fail ==
    /\ Fails
    /\ UNCHANGED <<Unread, managerVars, rockVars>>

(* Whom the login belongs to when Rock is asked. *)
Identity == account

(* The account's own private sections.                                     *)
Mine(owner) == {s \in sections : s.owner = owner}
Named(own, name) == {s \in own : s.name = name}
In(section) == {l \in links : l.section = section}
Empty(section) == In(section) = {}
WithId(records, n) == {r \in records : r.id = n}

(* The drafts past their deadline go first, then the oldest of too many.   *)
Store(drafts, d) ==
    LET kept(n) == SubSeq(drafts, n + 1, Len(drafts))
    IN  {Append(IF Len(kept(n)) >= DraftLimit THEN Tail(kept(n)) ELSE kept(n), d) :
            n \in 0 .. Len(drafts)}

(* A draft is gone before the write is sent. *)
Without(drafts) ==
    LET at == {i \in DOMAIN drafts : drafts[i] \in task.draft}
    IN  IF at = {} THEN drafts ELSE RemoveAt(drafts, CHOOSE i \in at : TRUE)
Consume == additions' = Without(additions) /\ deletions' = Without(deletions)

NewDraft(offered, shown, contents) ==
    [number |-> task.line.id, kind |-> task.line.kind, owner |-> Identity,
     offered |-> offered, target |-> IF shown = {} THEN 0 ELSE task.line.target,
     shown |-> shown, contents |-> contents]

(* prepare, prepare_section and prepare_delete.  A draft promises nothing  *)
(* of the time between its reads, all of which the commit repeats: they    *)
(* are one step.                                                           *)
PrepareAddition ==
    /\ At("begin") /\ Is("prepare", {"link", "section"})
    /\ LET own     == {s.id : s \in Mine(Identity)}
           offered == IF task.line.kind = "section" THEN {}
                      ELSE IF own = {} THEN {NewSection} ELSE own IN
        /\ additions' \in Store(additions, NewDraft(offered, {}, {}))
        /\ Reply("draft", offered)
    /\ UNCHANGED <<Unread, deletions, rockVars>>

(* The record, its section among the account's own, and of a section the   *)
(* links it holds.                                                         *)
PrepareDeletion ==
    /\ At("begin") /\ Is("prepare", Deletes)
    /\ LET n      == task.line.target
           link   == task.line.kind = "delete-link"
           record == WithId(IF link THEN links ELSE sections, n)
           home   == {s \in Mine(Identity) : \E r \in record : s.id = IF link THEN r.section ELSE n}
           inside == IF link THEN {} ELSE {l.id : l \in In(n)} IN
        /\ record # {} /\ home # {} /\ \A r \in record : r.owner = Identity
        /\ task.line.kind = "delete-empty" => Empty(n)
        /\ deletions' \in Store(deletions, NewDraft({}, record \cup home, inside))
    /\ Reply("draft", {})
    /\ UNCHANGED <<Unread, additions, rockVars>>

(* Mutant: the links of a section are forgotten.                           *)
Needs_LinksForgotten(kind) ==
    CASE kind = "link" -> {"addLinks"}
      [] kind = "section" -> {"addSections"}
      [] kind = "delete-link" -> {"deleteLinks"}
      [] OTHER -> {"deleteSections"}

Needs(kind) ==
    CASE kind = "link" -> {"addLinks"}
      [] kind = "section" -> {"addSections"}
      [] kind = "delete-section" -> {"deleteSections", "deleteLinks"}
      [] kind = "delete-empty" -> {"deleteSections"}
      [] OTHER -> {"deleteLinks"}
Granted(actions) == actions \subseteq task.grants

(* What the user chose: a section he was offered, or a name for a new one. *)
Acceptable(d) ==
    /\ d.kind = "link" => task.line.target \in d.offered
    /\ d.kind = "section" => task.line.target \in Names

(* The draft, its kind and scope, the grants of the command line, and the  *)
(* choice.                                                                 *)
CommitDraft ==
    /\ At("begin") /\ Is("commit", Kinds)
    /\ \E d \in ToSet(additions) \cup ToSet(deletions) :
        /\ d.number = task.line.draft /\ d.kind = task.line.kind
        /\ Granted(Needs(d.kind)) /\ Acceptable(d)
        /\ task' = [task EXCEPT !.step = "account", !.draft = {d}]
    /\ UNCHANGED <<Unread, told, answers, managerVars, rockVars>>

(* Mutant: the account is not compared with that of the draft.             *)
CommitAccount_Any ==
    /\ At("account")
    /\ task' = [task EXCEPT !.owner = account,
                   !.step = IF task.line.kind \in Deletes THEN "record" ELSE "sections"]
    /\ UNCHANGED <<Unread, told, answers, managerVars, rockVars>>

(* _check_account: another account drops every draft.                      *)
CommitAccount ==
    /\ At("account")
    /\ \E d \in task.draft :
        IF Identity = d.owner
          THEN /\ task' = [task EXCEPT !.owner = Identity,
                              !.step = IF d.kind \in Deletes THEN "record" ELSE "sections"]
               /\ UNCHANGED <<told, answers, managerVars>>
          ELSE additions' = <<>> /\ deletions' = <<>> /\ Reply("error", {})
    /\ UNCHANGED <<Unread, rockVars>>

(* The section a link goes to: the chosen one, or for a new one "Links" if *)
(* it is there by now.  The draft is consumed before any write.            *)
CommitSections ==
    /\ At("sections") /\ Is("commit", {"link", "section"})
    /\ LET own    == Mine(task.owner)
           chosen == task.line.target
           place  == CASE task.line.kind = "section" -> Named(own, chosen)
                       [] task.line.kind = "link" /\ chosen = NewSection -> Named(own, 1)
                       [] OTHER -> WithId(own, chosen)
           number == IF place = {} THEN 0 ELSE Min({s.id : s \in place}) IN
        /\ place = {} =>
              /\ task.line.kind = "section" => Cardinality(own) < SectionLimit
              /\ task.line.kind = "link" => chosen = NewSection /\ Granted({"addSections"})
        /\ IF place # {} /\ task.line.kind = "section"
             THEN Reply("found", {})
             ELSE /\ task' = [task EXCEPT !.place = number,
                                          !.step = IF place = {} THEN "create" ELSE "look"]
                  /\ UNCHANGED <<told, answers>>
    /\ Consume
    /\ UNCHANGED <<Unread, rockVars>>

(* What is to be deleted is read again: gone, or as it was shown.          *)
CommitRecord ==
    /\ At("record") /\ Is("commit", Deletes)
    /\ \E d \in task.draft :
        LET record == WithId(IF d.kind = "delete-link" THEN links ELSE sections, d.target) IN
        IF record = {}
          THEN Consume /\ Reply("found", {})
          ELSE record \subseteq d.shown /\ Goto("sections") /\ UNCHANGED managerVars
    /\ UNCHANGED <<Unread, rockVars>>

CommitScope ==
    /\ At("sections") /\ Is("commit", Deletes)
    /\ \E d \in task.draft : Mine(task.owner) \cap d.shown # {}
    /\ IF task.line.kind = "delete-link" THEN Consume /\ Goto("write")
                                         ELSE Goto("contents") /\ UNCHANGED managerVars
    /\ UNCHANGED <<Unread, rockVars>>

(* Mutant: the links of the section are not compared with those counted.   *)
CommitContents_Unread ==
    /\ At("contents")
    /\ Consume /\ Goto("write")
    /\ UNCHANGED <<Unread, rockVars>>

CommitContents ==
    /\ At("contents")
    /\ \E d \in task.draft :
        IF d.kind = "delete-empty" THEN Empty(d.target)
                                   ELSE {l.id : l \in In(d.target)} = d.contents
    /\ Consume /\ Goto("write")
    /\ UNCHANGED <<Unread, rockVars>>
-----------------------------------------------------------------------------
(* The writes.                                                             *)

(* The POST or DELETE of the task: the section of a new link is created in *)
(* a POST of its own.                                                      *)
Writing ==
    LET line == task.line IN
    [id |-> line.id, owner |-> task.owner, url |-> line.url,
     kind |-> IF At("create") THEN "section" ELSE line.kind,
     counts |-> At("write") \/ line.kind = "section",
     name |-> IF line.kind = "section" THEN line.target ELSE 1,
     place |-> IF line.kind \in Deletes
                 THEN (CHOOSE d \in task.draft : TRUE).target ELSE task.place]

(* Rock does not look whether a section is empty, and deletes what is in it. *)
Possible(w) ==
    CASE w.kind = "link" -> last < MaxRecords /\ WithId(sections, w.place) # {}
      [] w.kind = "section" -> last < MaxRecords
      [] w.kind = "delete-link" -> WithId(links, w.place) # {}
      [] OTHER -> WithId(sections, w.place) # {}

Apply(w) ==
    /\ last' = IF w.kind \in Deletes THEN last ELSE last + 1
    /\ times' = IF w.counts THEN [times EXCEPT ![w.id] = @ + 1] ELSE times
    /\ CASE w.kind = "link" ->
              /\ links' = links \cup {[id |-> last', owner |-> w.owner,
                                       section |-> w.place, url |-> w.url]}
              /\ UNCHANGED sections
         [] w.kind = "section" ->
              /\ sections' = sections \cup {[id |-> last', owner |-> w.owner, name |-> w.name]}
              /\ UNCHANGED links
         [] w.kind = "delete-link" ->
              links' = links \ WithId(links, w.place) /\ UNCHANGED sections
         [] OTHER ->
              /\ sections' = sections \ WithId(sections, w.place)
              /\ links' = links \ In(w.place)

(* The request to Rock: carried out or refused, with or without an answer; *)
(* without one it may also be carried out later.                           *)
WriteToRock(next) ==
    /\ \/ /\ Possible(Writing) /\ Apply(Writing)
          /\ clean' = IF Writing.kind = "link" /\ ~task.raced THEN clean \cup {last'} ELSE clean
          /\ \/ Reply("uncertain", {})
             \/ /\ task' = [task EXCEPT !.step = next, !.made = last',
                                 !.place = IF Writing.kind = "section" THEN last' ELSE @]
                /\ UNCHANGED <<told, answers>>
          /\ UNCHANGED late
       \/ /\ Reply("error", {}) \/ Reply("uncertain", {})
          /\ UNCHANGED <<recordVars, late>>
       \/ /\ Reply("uncertain", {}) /\ late' = late \cup {Writing}
          /\ UNCHANGED recordVars
    /\ UNCHANGED <<Unread, managerVars, account, changes>>

CreateSection == At("create") /\ WriteToRock("created")

(* _create_section reads the sections again.                               *)
SectionCreated ==
    /\ At("created")
    /\ \/ Reply("uncertain", {})
       \/ /\ Named(WithId(Mine(task.owner), task.made), Writing.name) # {}
          /\ IF task.line.kind = "section" THEN Reply("done", {}) ELSE Goto("look")
    /\ UNCHANGED <<Unread, managerVars, rockVars>>

(* Mutant: the section is not searched for the URL.                        *)
LookForLink_Skipped ==
    /\ At("look") /\ Goto("write")
    /\ UNCHANGED <<Unread, managerVars, rockVars>>

LookForLink ==
    /\ At("look")
    /\ IF \E l \in In(task.place) : l.owner = task.owner /\ l.url = task.line.url
         THEN Reply("found", {}) ELSE Goto("write")
    /\ UNCHANGED <<Unread, managerVars, rockVars>>

WriteRecord == At("write") /\ WriteToRock("verify")

(* What was written is read again; a failure then is an unknown outcome.   *)
VerifyLink ==
    /\ At("verify") /\ Is("commit", {"link"})
    /\ \/ Reply("uncertain", {})
       \/ /\ \E l \in WithId(links, task.made) :
                l.owner = task.owner /\ l.section = task.place /\ l.url = task.line.url
          /\ Reply("done", {})
    /\ UNCHANGED <<Unread, managerVars, rockVars>>

VerifyDeletion ==
    /\ At("verify") /\ Is("commit", Deletes)
    /\ \/ Reply("uncertain", {})
       \/ /\ WithId(links \cup sections, Writing.place) = {} /\ Empty(Writing.place)
          /\ Reply("done", {})
    /\ UNCHANGED <<Unread, managerVars, rockVars>>

(* Another request selects a profile, a login or a context, or signs out.  *)
SetOrigin ==
    /\ task = NoTask
    /\ additions' = <<>> /\ deletions' = <<>>
    /\ account' \in Accounts
    /\ UNCHANGED <<clientVars, connectionVars, task, recordVars, late, changes>>

(* The request being served ends with the broker, a write of it may still  *)
(* be carried out; its command reads the end of the connection.            *)
BrokerCrash ==
    /\ socket' = IF socket = "up" THEN "failed" ELSE socket
    /\ wire' = [c \in {"live", "lost"} |-> <<>>] /\ answers' = <<>>
    /\ task' = NoTask /\ additions' = <<>> /\ deletions' = <<>>
    /\ told' = IF task # NoTask /\ task.line.id \in Commands /\ told[task.line.id] = "open"
                 THEN [told EXCEPT ![task.line.id] = "unknown"] ELSE told
    /\ \/ UNCHANGED late
       \/ (At("create") \/ At("write")) /\ late' = late \cup {Writing}
    /\ UNCHANGED <<panel, revision, commands, queue, account, recordVars, changes>>
-----------------------------------------------------------------------------
Race == task' = IF task = NoTask THEN task ELSE [task EXCEPT !.raced = TRUE]

LateWrite ==
    /\ \E w \in late :
        /\ late' = late \ {w}
        /\ IF Possible(w) THEN Apply(w) ELSE UNCHANGED <<sections, links, last, times>>
    /\ Race
    /\ UNCHANGED <<clientVars, connectionVars, managerVars, account, changes, clean>>

(* Others add, edit and delete records, or merge the person.               *)
RockChanges ==
    /\ changes < MaxChanges /\ changes' = changes + 1
    /\ \/ /\ last < MaxRecords /\ last' = last + 1 /\ UNCHANGED clean
          /\ \/ \E a \in Accounts, n \in Names :
                  /\ sections' = sections \cup {[id |-> last', owner |-> a, name |-> n]}
                  /\ UNCHANGED links
             \/ \E s \in sections, u \in Urls :
                  /\ links' = links \cup {[id |-> last', owner |-> s.owner,
                                           section |-> s.id, url |-> u]}
                  /\ UNCHANGED sections
          /\ UNCHANGED account
       \/ /\ \/ \E l \in links :
                  /\ \/ links' = links \ {l} /\ UNCHANGED clean
                     \/ /\ \E u \in Urls, s \in sections :
                            links' = (links \ {l}) \cup {[l EXCEPT !.url = u, !.section = s.id]}
                        /\ clean' = {}
                  /\ UNCHANGED sections
             \/ \E s \in sections :
                  /\ \/ /\ sections' = (sections \ {s}) \cup {[s EXCEPT !.name = 3 - @]}
                        /\ UNCHANGED links
                     \/ sections' = sections \ {s} /\ links' = links \ In(s.id)
                  /\ UNCHANGED clean
          /\ UNCHANGED <<last, account>>
       \/ account' \in Accounts \ {account} /\ UNCHANGED <<sections, links, last, clean>>
    /\ Race
    /\ UNCHANGED <<clientVars, connectionVars, managerVars, late, times>>

PanelStep == Begin \/ Reload \/ Save \/ Close \/ Receive
ConnectionStep == Connect \/ Disconnect \/ ConnectionFailed
CommandStep == Command \/ CommandTimeout
PrepareStep == PrepareAddition \/ PrepareDeletion
CommitStep ==
    \/ CommitDraft \/ CommitAccount \/ CommitSections
    \/ CommitRecord \/ CommitScope \/ CommitContents
    \/ CreateSection \/ SectionCreated \/ LookForLink \/ WriteRecord
    \/ VerifyLink \/ VerifyDeletion
ServeStep == TakeLine \/ Fail \/ PrepareStep \/ CommitStep
EnvironmentStep == SetOrigin \/ BrokerCrash \/ LateWrite \/ RockChanges

Next == PanelStep \/ ConnectionStep \/ CommandStep \/ ServeStep \/ EnvironmentStep

Spec == Init /\ [][Next]_vars

(* Every HTTP request of the broker has a timeout and Qt delivers a        *)
(* socket's error and its lines.                                           *)
FairSpec ==
    /\ Spec
    /\ WF_vars(ServeStep) /\ WF_vars(Receive)
    /\ WF_vars(Connect) /\ WF_vars(ConnectionFailed)
-----------------------------------------------------------------------------
(* However the socket, the broker, Rock and the user time it, and whether  *)
(* it was confirmed in the panel or on the command line: a confirmed       *)
(* addition or deletion happens at most once, it is called done, already   *)
(* there or not done only when that is so and stays so, and an unknown     *)
(* outcome is called unknown.                                              *)
Confirmation == INSTANCE ConfirmedAction
LinksKeepConfirmation == Confirmation!Spec

(* A deletion deletes what the user was shown: the same record with the    *)
(* same values, of a section the same links, unless somebody changed Rock  *)
(* while the broker was checking.                                          *)
DeletesWhatWasShown ==
    [][WriteRecord /\ times' # times /\ task.line.kind \in Deletes /\ ~task.raced =>
         \E d \in task.draft :
            /\ (links \ links') \cup (sections \ sections') # {}
            /\ \/ (links \ links') \subseteq d.shown /\ sections' = sections
               \/ /\ (sections \ sections') \subseteq d.shown
                  /\ {l.id : l \in links \ links'} = d.contents]_vars

(* Retrying an addition does not add the same link twice: a link is never  *)
(* stored beside one with the same section and URL, unless Rock changed    *)
(* while the broker was checking, carried out a lost write later, or has   *)
(* let others edit a link since.                                           *)
NoSecondBookmark ==
    \A l, k \in links :
        l.id \in clean /\ k.id < l.id /\ k.section = l.section /\ k.owner = l.owner => k.url # l.url

(* The command line adds and deletes only what it has been granted, also   *)
(* the section a new link needs and the links in a deleted section.        *)
CommandsStayGranted ==
    [][(CreateSection \/ WriteRecord) /\ task.line.id \in Commands =>
         /\ links' \ links # {} => "addLinks" \in task.grants
         /\ sections' \ sections # {} => "addSections" \in task.grants
         /\ links \ links' # {} /\ ~task.raced => "deleteLinks" \in task.grants
         /\ sections \ sections' # {} => "deleteSections" \in task.grants]_vars

(* Nothing of another account is added to or deleted.  With a section go   *)
(* all links in it, which the broker counts without asking whose they are. *)
OnlyOwnRecords ==
    [][(CreateSection \/ WriteRecord) /\ ~task.raced =>
         \E d \in task.draft :
            /\ d.owner = account
            /\ \A r \in (links' \ links) \cup (sections \ sections') \cup (sections' \ sections) :
                 r.owner = account
            /\ \A l \in links \ links' :
                 l.owner = account \/ \E s \in sections \ sections' : l.section = s.id]_vars

(* The dialog does not stay busy although it has no timer: the broker      *)
(* answers or the connection ends, and then nothing of it is left queued.  *)
DialogBusyEnds == panel.phase \in {"loading", "saving"} ~> panel.phase \in {"closed", "form"}
=============================================================================
