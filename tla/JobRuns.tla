-------------------------------- MODULE JobRuns --------------------------------
(***************************************************************************)
(* Running a scheduled job: the panel's job state (RockArchJobState.qml),  *)
(* its request queue and socket (RockArchConnection.qml), the job handler  *)
(* of the broker with the job manager (jobs.py), and the Rock server.      *)
(*                                                                         *)
(* The panel numbers its requests; the number of a job_run is the          *)
(* confirmation.  The broker serves one request at a time and the Rock     *)
(* server may change between any two of its reads.  The passage of time is *)
(* left out: any cached access or draft may be past its deadline.          *)
(***************************************************************************)
EXTENDS Naturals, Sequences, FiniteSets

CONSTANTS
    Profiles,     \* each with its own Rock server
    Jobs,         \* what a server may keep under the job's number
    Places,       \* where a server may have placed its job list
    NoPlace,      \* it may not be used
    NoDraft,
    DraftLimit,   \* drafts the manager keeps
    MaxRequests,  \* bound: requests of the panel
    MaxChanges    \* bound: changes of the Rock servers

ASSUME PlacesAssumption == NoPlace \notin Places
ASSUME LimitAssumption == DraftLimit \in Nat \ {0} /\ MaxRequests \in Nat /\ MaxChanges \in Nat

VARIABLES
    panel,      \* the job state of the panel
    revision,   \* number of its last request
    told,       \* history: what the user was told of a confirmation
    queue,      \* requests that wait for a connection
    connected,  \* the panel's socket
    wire,       \* lines written and not read yet, by live and lost connections
    answers,    \* lines the broker has written to the live connection
    served,     \* the line being handled came from the live connection
    task,       \* the line being handled
    drafts,     \* the manager's drafts
    placement,  \* the placement of its last access check
    profile,    \* the broker's selected profile
    rock,       \* the servers
    changes,    \* how often they have changed
    times       \* history: how often a confirmation has run the job

panelVars == <<panel, revision, told>>
connectionVars == <<queue, connected, wire, answers, served>>
managerVars == <<drafts, placement, profile>>
rockVars == <<rock, changes, times>>
vars == <<panelVars, connectionVars, task, managerVars, rockVars>>

Requests == 1 .. MaxRequests
Draft == [number : Requests, profile : Profiles, job : Jobs, place : Places]
Ops == {"job_access", "job_prepare", "job_run", "job_status"}
Request == [op : Ops, id : Requests, draft : Draft \cup {NoDraft}]
States == {"ready", "unavailable", "confirm", "requested", "status",
           "error", "denied", "uncertain", "bare"}
Answer == [id : Requests, state : States, draft : Draft \cup {NoDraft}]
Phases == {"closed", "preparing", "confirm", "sending", "requested",
           "uncertain", "error"}
Panel == [phase : Phases, busy : BOOLEAN, timer : BOOLEAN, request : Requests \cup {0},
          draft : Draft \cup {NoDraft}, available : BOOLEAN, access : Requests \cup {0}]
Task == [step : {"idle", "begin", "access", "row", "post", "record"},
         op : Ops \cup {"none"}, id : Requests \cup {0},
         draft : Draft \cup {NoDraft}, raced : BOOLEAN]
NoTask == [step |-> "idle", op |-> "none", id |-> 0, draft |-> NoDraft, raced |-> FALSE]
Server == [job : Jobs, place : Places \cup {NoPlace}]

JobTypeOK ==
    /\ panel \in Panel
    /\ revision \in 0 .. MaxRequests
    /\ told \in [Requests -> {"unasked", "open", "done", "not_done", "unknown"}]
    /\ queue \in Seq(Request) /\ connected \in BOOLEAN
    /\ wire \in [{"live", "lost"} -> Seq(Request)]
    /\ answers \in Seq(Answer) /\ served \in BOOLEAN
    /\ task \in Task
    /\ drafts \subseteq Draft /\ Cardinality(drafts) <= DraftLimit
    /\ placement \in Places \cup {NoPlace}
    /\ profile \in Profiles
    /\ rock \in [Profiles -> Server] /\ changes \in 0 .. MaxChanges
    /\ times \in [Requests -> Nat]

(* Every profile's server has the same job in the same place, as Rock      *)
(* ships it.                                                               *)
Init ==
    /\ panel = [phase |-> "closed", busy |-> FALSE, timer |-> FALSE, request |-> 0,
                draft |-> NoDraft, available |-> FALSE, access |-> 0]
    /\ revision = 0
    /\ told = [r \in Requests |-> "unasked"]
    /\ queue = <<>> /\ connected = FALSE
    /\ wire = [c \in {"live", "lost"} |-> <<>>]
    /\ answers = <<>> /\ served = FALSE
    /\ task = NoTask
    /\ drafts = {} /\ placement = NoPlace
    /\ profile \in Profiles
    /\ \E j \in Jobs, p \in Places : rock = [q \in Profiles |-> [job |-> j, place |-> p]]
    /\ changes = 0
    /\ times = [r \in Requests |-> 0]
-----------------------------------------------------------------------------
(* The connection.  A socket that goes down loses the answers under way;   *)
(* the broker may still read lines that were written to it.                *)

Down(written, rest) ==
    /\ connected' = FALSE
    /\ queue' = rest
    /\ wire' = [wire EXCEPT !["live"] = <<>>, !["lost"] = @ \o wire["live"] \o written]
    /\ answers' = <<>>
    /\ served' = FALSE

(* flushRequests: one line after the other, while the socket is up.        *)
Flush(lines) ==
    \/ /\ connected' = TRUE
       /\ queue' = <<>>
       /\ wire' = [wire EXCEPT !["live"] = @ \o lines]
       /\ UNCHANGED <<answers, served>>
    \/ \E n \in 0 .. Len(lines) - 1 :
        Down(SubSeq(lines, 1, n), SubSeq(lines, n + 1, Len(lines)))

(* request(): `waiting` is the queue it finds.                             *)
Submit(waiting, line) ==
    IF connected THEN Flush(Append(waiting, line))
    ELSE queue' = Append(waiting, line) /\ UNCHANGED <<connected, wire, answers, served>>

Drop == queue' = <<>> /\ UNCHANGED <<connected, wire, answers, served>>

Line(op, d) == [op |-> op, id |-> revision + 1, draft |-> d]
Numbered == revision < MaxRequests /\ revision' = revision + 1

(* state.interrupted(): a run that was asked for may have started.         *)
Interrupted(p) ==
    LET quiet == [p EXCEPT !.available = FALSE, !.access = 0] IN
    IF p.phase = "closed" THEN quiet
    ELSE [quiet EXCEPT !.busy = FALSE, !.timer = FALSE, !.request = 0, !.draft = NoDraft,
            !.phase = IF @ \in {"sending", "requested", "uncertain"}
                        THEN "uncertain" ELSE "error"]
Closed(p) ==
    [p EXCEPT !.phase = "closed", !.busy = FALSE, !.timer = FALSE, !.request = 0,
              !.draft = NoDraft]

Tell(outcome) ==
    told' = IF panel.phase = "sending" THEN [told EXCEPT ![panel.request] = outcome]
                                       ELSE told

Connect ==
    /\ ~connected
    /\ Flush(queue)
    /\ UNCHANGED <<panelVars, task, managerVars, rockVars>>

Disconnect ==
    /\ connected
    /\ Down(<<>>, queue)
    /\ UNCHANGED <<panelVars, task, managerVars, rockVars>>

(* The socket's error arrives: failed() and what the panel does with it.   *)
ConnectionFailed ==
    /\ ~connected
    /\ panel' = Interrupted(panel)
    /\ Tell("unknown")
    /\ Drop
    /\ UNCHANGED <<revision, task, managerVars, rockVars>>

LinesLost ==
    /\ wire["lost"] # <<>>
    /\ wire' = [wire EXCEPT !["lost"] = <<>>]
    /\ UNCHANGED <<panelVars, queue, connected, answers, served, task, managerVars, rockVars>>
-----------------------------------------------------------------------------
(* The panel.                                                              *)

(* Search results or recent links with a job in them have arrived, perhaps *)
(* with the answer to a run.                                               *)
RefreshAccess ==
    /\ panel.access = 0 /\ Numbered
    /\ panel' = [panel EXCEPT !.access = revision + 1]
    /\ Submit(queue, Line("job_access", NoDraft))
    /\ UNCHANGED <<told, task, managerVars, rockVars>>

(* Mutant: the timer is not started.                                       *)
Send_NoTimer(phase, line) ==
    /\ Numbered
    /\ panel' = [panel EXCEPT !.phase = phase, !.busy = TRUE, !.request = revision + 1,
                              !.draft = NoDraft]
    /\ Submit(queue, line)

(* send(): the one timer is started again.                                 *)
Send(phase, line) ==
    /\ Numbered
    /\ panel' = [panel EXCEPT !.phase = phase, !.busy = TRUE, !.timer = TRUE,
                              !.request = revision + 1, !.draft = NoDraft]
    /\ Submit(queue, line)

Begin ==
    /\ panel.available /\ panel.phase = "closed"
    /\ Send("preparing", Line("job_prepare", NoDraft))
    /\ UNCHANGED <<told, task, managerVars, rockVars>>

CanRun == ~panel.busy /\ panel.phase = "confirm" /\ panel.draft # NoDraft

Run ==
    /\ CanRun /\ connected
    /\ Send("sending", Line("job_run", panel.draft))
    /\ told' = [told EXCEPT ![revision + 1] = "open"]
    /\ UNCHANGED <<task, managerVars, rockVars>>

(* A job_run is not queued.                                                *)
RunOffline ==
    /\ CanRun /\ ~connected
    /\ Numbered
    /\ panel' = Interrupted([panel EXCEPT !.phase = "sending"])
    /\ told' = [told EXCEPT ![revision + 1] = "unknown"]
    /\ Drop
    /\ UNCHANGED <<task, managerVars, rockVars>>

(* By the user, or a second after the run was accepted.                    *)
CheckStatus ==
    /\ ~panel.busy /\ panel.phase \in {"requested", "uncertain"}
    /\ Send(panel.phase, Line("job_status", NoDraft))
    /\ UNCHANGED <<told, task, managerVars, rockVars>>

(* Another view of the panel is opened.                                    *)
LeaveSearch ==
    /\ panel' = Closed(panel)
    /\ Drop
    /\ UNCHANGED <<revision, told, task, managerVars, rockVars>>

Cancel ==
    /\ panel.phase # "closed"
    /\ IF panel.access = 0 /\ revision < MaxRequests
         THEN /\ panel' = [Closed(panel) EXCEPT !.access = revision + 1]
              /\ Submit(<<>>, Line("job_access", NoDraft))
              /\ Numbered
         ELSE panel' = Closed(panel) /\ Drop /\ UNCHANGED revision
    /\ UNCHANGED <<told, task, managerVars, rockVars>>

(* The panel is closed, or learns of another profile, context or login.    *)
Reset ==
    /\ panel' = [Closed(panel) EXCEPT !.available = FALSE, !.access = 0]
    /\ Drop
    /\ UNCHANGED <<revision, told, task, managerVars, rockVars>>

(* 30 seconds after the request was sent.                                  *)
Timeout ==
    /\ panel.timer
    /\ panel' = Interrupted(panel)
    /\ Tell("unknown")
    /\ UNCHANGED <<revision, connectionVars, task, managerVars, rockVars>>

(* accept(): the answer to the present request.                            *)
Accepted(a) ==
    LET quiet == [panel EXCEPT !.busy = FALSE, !.timer = FALSE] IN
    CASE a.state \in {"error", "denied", "uncertain"} ->
            [quiet EXCEPT !.draft = NoDraft,
               !.phase = IF a.state = "uncertain" THEN "uncertain" ELSE "error",
               !.available = @ /\ panel.phase # "sending" /\ a.state # "denied"]
      [] a.state = "confirm" /\ panel.phase = "preparing" ->
            [quiet EXCEPT !.draft = a.draft, !.phase = "confirm"]
      [] a.state = "requested" /\ panel.phase = "sending" ->
            [quiet EXCEPT !.phase = "requested"]
      [] a.state = "status" /\ panel.phase \in {"requested", "uncertain"} -> quiet
      [] OTHER -> Interrupted(panel)

Outcome(a) ==
    CASE a.state = "requested" -> "done"
      [] a.state \in {"error", "denied"} -> "not_done"
      [] OTHER -> "unknown"

(* Mutant: an answer is not compared with the request.                     *)
Expected_AnyRequest(a) ==
    panel.busy /\ a.state \notin {"ready", "unavailable", "bare"}

Expected(a) ==
    panel.busy /\ a.state \notin {"ready", "unavailable", "bare"} /\ a.id = panel.request

Receive ==
    /\ answers # <<>>
    /\ LET a == Head(answers) IN
        \/ /\ a.state \in {"ready", "unavailable"} /\ a.id = panel.access
           /\ panel' = [panel EXCEPT !.access = 0, !.available = (a.state = "ready")]
           /\ UNCHANGED told
        \/ /\ Expected(a)
           /\ panel' = Accepted(a)
           /\ Tell(Outcome(a))
        \/ /\ ~Expected(a) /\ ~(a.state \in {"ready", "unavailable"} /\ a.id = panel.access)
           /\ UNCHANGED <<panel, told>>
    /\ answers' = Tail(answers)
    /\ UNCHANGED <<revision, queue, connected, wire, served, task, managerVars, rockVars>>
-----------------------------------------------------------------------------
(* The broker.                                                             *)

TakeLine ==
    /\ task = NoTask
    /\ \E c \in {"live", "lost"} :
        /\ wire[c] # <<>>
        /\ wire' = [wire EXCEPT ![c] = Tail(@)]
        /\ served' = (c = "live")
        /\ LET line == Head(wire[c]) IN
            task' = [step |-> "begin", op |-> line.op, id |-> line.id,
                     draft |-> line.draft, raced |-> FALSE]
    /\ UNCHANGED <<panelVars, queue, connected, answers, managerVars, rockVars>>

At(op, step) == task.op \in op /\ task.step = step
Goto(step) == task' = [task EXCEPT !.step = step] /\ UNCHANGED connectionVars

Reply(state, d) ==
    /\ task' = NoTask
    /\ answers' = IF served THEN Append(answers, [id |-> task.id, state |-> state, draft |-> d])
                  ELSE answers
    /\ served' = FALSE
    /\ UNCHANGED <<queue, connected, wire>>

Failure == \E state \in {"error", "denied"} : Reply(state, NoDraft)

(* Not signed in, not configured, jobs not enabled, an unknown job; or the *)
(* preferences cannot be read, which is answered without the number.       *)
Refuse ==
    /\ task.step = "begin"
    /\ \/ Reply("bare", NoDraft)
       \/ At({"job_access"}, "begin") /\ Reply("unavailable", NoDraft)
       \/ ~At({"job_access"}, "begin") /\ Failure
    /\ UNCHANGED <<panelVars, managerVars, rockVars>>

(* access(): the cached answer, or discovery, which may fail.              *)
Access ==
    /\ At({"job_access"}, "begin")
    /\ placement' \in {placement, NoPlace, rock[profile].place}
    /\ Reply(IF placement' = NoPlace THEN "unavailable" ELSE "ready", NoDraft)
    /\ UNCHANGED <<panelVars, drafts, profile, rockVars>>

PrepareAccess ==
    /\ At({"job_prepare"}, "begin")
    /\ placement' \in {NoPlace, rock[profile].place}
    /\ IF placement' = NoPlace THEN Failure ELSE Goto("row")
    /\ UNCHANGED <<panelVars, drafts, profile, rockVars>>

(* Mutant: the number of drafts is not limited.                            *)
PrepareRow_NoLimit ==
    /\ At({"job_prepare"}, "row")
    /\ LET d == [number |-> task.id, profile |-> profile, job |-> rock[profile].job,
                 place |-> placement]
       IN  drafts' = drafts \cup {d} /\ Reply("confirm", d)
    /\ UNCHANGED <<panelVars, placement, profile, rockVars>>

(* The job's row is read, drafts past their deadline go, and a new one is  *)
(* stored.  (Its number stands for a random token.)                        *)
PrepareRow ==
    /\ At({"job_prepare"}, "row")
    /\ \/ Failure /\ UNCHANGED drafts
       \/ \E kept \in SUBSET drafts :
            IF Cardinality(kept) >= DraftLimit
              THEN drafts' = kept /\ Reply("error", NoDraft)
              ELSE LET d == [number |-> task.id, profile |-> profile,
                             job |-> rock[profile].job, place |-> placement]
                   IN  drafts' = kept \cup {d} /\ Reply("confirm", d)
    /\ UNCHANGED <<panelVars, placement, profile, rockVars>>

(* run(): the draft is taken before anything else; it may have expired.    *)
RunDraft ==
    /\ At({"job_run"}, "begin")
    /\ drafts' = drafts \ {task.draft}
    /\ \/ task.draft \in drafts /\ Goto("access")
       \/ Reply("error", NoDraft)
    /\ UNCHANGED <<panelVars, placement, profile, rockVars>>

RunAccess ==
    /\ At({"job_run"}, "access")
    /\ placement' \in {NoPlace, rock[profile].place}
    /\ IF placement' # NoPlace /\ placement' = task.draft.place
         THEN Goto("row") ELSE Reply("denied", NoDraft)
    /\ UNCHANGED <<panelVars, drafts, profile, rockVars>>

(* Mutant: the job is not compared with the one that was shown.            *)
RunRow_Unchecked ==
    /\ At({"job_run"}, "row")
    /\ Goto("post")
    /\ UNCHANGED <<panelVars, managerVars, rockVars>>

RunRow ==
    /\ At({"job_run"}, "row")
    /\ \/ rock[profile].job = task.draft.job /\ Goto("post")
       \/ Failure
    /\ UNCHANGED <<panelVars, managerVars, rockVars>>

(* The one POST.  A server that may not be asked refuses; nothing is       *)
(* assumed of how it looks at the page and the job it is asked for.  What  *)
(* it did when the answer is lost or not understood is unknown.            *)
Post ==
    /\ At({"job_run"}, "post")
    /\ \/ /\ rock[profile].place # NoPlace
          /\ times' = [times EXCEPT ![task.id] = @ + 1]
          /\ Goto("record") \/ Reply("uncertain", NoDraft)
       \/ /\ Failure \/ Reply("uncertain", NoDraft)
          /\ UNCHANGED times
    /\ UNCHANGED <<panelVars, managerVars, rock, changes>>

(* An accepted run: the preferences and the recent links.                  *)
Record ==
    /\ At({"job_run"}, "record")
    /\ \E state \in {"requested", "bare"} : Reply(state, NoDraft)
    /\ UNCHANGED <<panelVars, managerVars, rockVars>>

Status ==
    /\ At({"job_status"}, "begin")
    /\ Failure \/ Reply("status", NoDraft)
    /\ UNCHANGED <<panelVars, managerVars, rockVars>>

(* Another request selects a profile, a login or a context.                *)
SetOrigin ==
    /\ task = NoTask
    /\ profile' \in Profiles
    /\ drafts' = {} /\ placement' = NoPlace
    /\ UNCHANGED <<panelVars, connectionVars, task, rockVars>>

BrokerCrash ==
    /\ Down(<<>>, queue)
    /\ task' = NoTask
    /\ drafts' = {} /\ placement' = NoPlace
    /\ UNCHANGED <<panelVars, profile, rockVars>>
-----------------------------------------------------------------------------
(* Somebody changes the job or the placement, or takes the permission away. *)
RockChanges ==
    /\ changes < MaxChanges
    /\ changes' = changes + 1
    /\ \E p \in Profiles, s \in Server : s # rock[p] /\ rock' = [rock EXCEPT ![p] = s]
    /\ task' = IF task = NoTask THEN task ELSE [task EXCEPT !.raced = TRUE]
    /\ UNCHANGED <<panelVars, connectionVars, managerVars, times>>

PanelStep ==
    \/ RefreshAccess \/ Begin \/ Run \/ RunOffline \/ CheckStatus
    \/ LeaveSearch \/ Cancel \/ Reset \/ Timeout \/ Receive
ConnectionStep == Connect \/ Disconnect \/ ConnectionFailed \/ LinesLost
BrokerStep ==
    \/ TakeLine \/ Refuse \/ Access \/ PrepareAccess \/ PrepareRow
    \/ RunDraft \/ RunAccess \/ RunRow \/ Post \/ Record \/ Status
    \/ SetOrigin \/ BrokerCrash

Next == PanelStep \/ ConnectionStep \/ BrokerStep \/ RockChanges

Spec == Init /\ [][Next]_vars

(* The panel's timer is all that is sure to happen: Qt fires one that was  *)
(* started and not stopped.                                                *)
FairSpec == Spec /\ WF_vars(Timeout)
-----------------------------------------------------------------------------
(* However the socket, the broker, the server and the user time it: a      *)
(* confirmation runs the job at most once, "Run requested" is said only of *)
(* a job that was run, and an error is shown for a run only when it has    *)
(* not happened and will not happen later.                                 *)
Confirmation == INSTANCE ConfirmedAction WITH Confirmations <- Requests
KeepsConfirmation == Confirmation!Spec

(* What runs is the job the user was shown, on the server of the profile   *)
(* it was shown for and in the same placement, unless somebody changed the *)
(* server while the broker was checking.                                   *)
RunsWhatWasShown ==
    [][times' # times /\ ~task.raced =>
         /\ task.draft.profile = profile
         /\ task.draft.job = rock[profile].job
         /\ task.draft.place = rock[profile].place]_vars

(* The panel does not stay busy: an answer, an interruption or the timer   *)
(* ends every request of the job dialog, whatever the broker does.         *)
BusyEnds == panel.busy ~> ~panel.busy
=============================================================================
