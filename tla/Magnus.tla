--------------------------------- MODULE Magnus --------------------------------
(***************************************************************************)
(* Magnus in the broker: the adapter with its registry of shown items      *)
(* (magnus_adapter.py), builds of mobile apps with their Recent Links      *)
(* (quick_return.py) and receipts (build_receipts.py), and downloads.      *)
(*                                                                         *)
(* The broker serves one request at a time; Magnus, the file system and    *)
(* other programs act between its steps.  The number of a confirmed build  *)
(* stands for its receipt's id.  An item's safe id is a keyed digest of    *)
(* its paths, so it is the same whenever the item is shown again, and      *)
(* another one in another process.                                         *)
(***************************************************************************)
EXTENDS Naturals, Sequences, SequencesExt

CONSTANTS
    Profiles,      \* profiles of one server
    Apps, Files,   \* folders with a build action, and files
    ItemLimit,     \* MAX_REGISTERED_ITEMS
    ListingLimit,  \* MAX_TREE_ITEMS
    RecentLimit,   \* MAX_QUICK_RETURNS
    ReceiptLimit,  \* MAX_BUILD_RECEIPTS
    NameLimit,     \* names a download tries
    MaxBuilds,     \* bound: confirmed builds
    MaxDownloads,  \* bound: downloads
    MaxFaults      \* bound: crashes, failing writes and files of others

NoProfile == "none"
Other == "other"
Items == Apps \cup Files
Builds == 1..MaxBuilds
Names == 1..NameLimit

ASSUME MagnusBounds ==
    /\ Apps \cap Files = {} /\ NoProfile \notin Profiles
    /\ {ItemLimit, RecentLimit, ReceiptLimit, NameLimit} \subseteq Nat \ {0}
    /\ {ListingLimit, MaxBuilds, MaxDownloads, MaxFaults} \subseteq Nat

VARIABLES
    profile,   \* the profile Magnus was last told of
    registry,  \* _targets, least recently used first; with whom it was shown to
    access,    \* _access
    task,      \* the request being served
    recents,   \* quick-returns-PROFILE.json, oldest first
    receipts,  \* build-receipts-PROFILE.json, oldest first
    builds,    \* history: what became of each confirmed build
    posts,     \* history: POSTs of each build, and those Magnus accepted
    folder,    \* Downloads: what is under each name
    loads,     \* downloads so far
    faults     \* crashes, failing writes and files of others so far

adapterVars == <<profile, registry, access>>
buildVars == <<recents, receipts, builds, posts>>
fileVars == <<folder, loads>>
vars == <<adapterVars, task, buildVars, fileVars, faults>>

NoTask == [at |-> "idle"]
Absent == "absent"

Init ==
    /\ profile \in Profiles /\ registry = <<>> /\ access = "unknown" /\ task = NoTask
    /\ recents = [p \in Profiles |-> <<>>] /\ receipts = [p \in Profiles |-> <<>>]
    /\ builds = [n \in Builds |-> [state |-> "none"]]
    /\ posts = [n \in Builds |-> [sent |-> 0, accepted |-> 0]]
    /\ folder = [k \in Names |-> Absent] /\ loads = 0 /\ faults = 0

Ready == task.at = "idle"
Fault == faults < MaxFaults /\ faults' = faults + 1
LastOf(s, limit) == SubSeq(s, IF Len(s) > limit THEN Len(s) - limit + 1 ELSE 1, Len(s))

--------------------------------------------------------------------------------
(* The registry.                                                           *)

Forget == registry' = <<>> /\ access' = "unknown"

Holds(shown, item) == \E i \in DOMAIN shown : shown[i].item = item
Place(shown, item) == CHOOSE i \in DOMAIN shown : shown[i].item = item
Without(shown, item) ==
    IF Holds(shown, item) THEN RemoveAt(shown, Place(shown, item)) ELSE shown

\* _register, also of an item shown before: it becomes the latest.
Register(shown, item) ==
    LastOf(Append(Without(shown, item), [item |-> item, to |-> profile]), ItemLimit)

\* The items of a listing are registered one after the other.
Registering(shown, items) ==
    LET after[i \in 0..Len(items)] == IF i = 0 THEN shown ELSE Register(after[i - 1], items[i])
    IN after
RegisterAll(shown, items) == Registering(shown, items)[Len(items)]

\* _resolve: what is used becomes the latest.
Found(item) == Holds(registry, item)
Used(item) == Append(Without(registry, item), registry[Place(registry, item)])
Use(item) == registry' = Used(item)

\* Mutant: the items are kept for the same server.
Activate_SameServer(p) ==
    profile' = p /\ IF p = NoProfile THEN Forget ELSE UNCHANGED <<registry, access>>

\* set_profile and clear_profile, on every activation of a profile.
Activate(p) ==
    /\ profile' = p
    /\ IF p # profile THEN Forget ELSE UNCHANGED <<registry, access>>

Switch(p) ==
    /\ Ready /\ Activate(p)
    /\ UNCHANGED <<task, buildVars, fileVars, faults>>

\* After a sign-in, a sign-out or a test of the login.
ResetAccess ==
    /\ Ready /\ Forget
    /\ UNCHANGED <<profile, task, buildVars, fileVars, faults>>

Probe ==
    /\ Ready /\ profile # NoProfile
    /\ \/ access' \in {"available", "unknown"} /\ UNCHANGED registry
       \/ access' \in {"unavailable", "error"} /\ registry' = <<>>
    /\ UNCHANGED <<profile, task, buildVars, fileVars, faults>>

\* What the adapter makes of a listing: it leaves out what it does not accept.
Listings == UNION {[1..n -> Items] : n \in 0..ListingLimit}

\* browse with list_tree, of the root or of a folder, which is looked up first:
\* what Magnus lists is registered item by item.
Browse ==
    /\ Ready /\ profile # NoProfile
    /\ \E shown \in {registry} \cup {Used(app) : app \in {a \in Apps : Found(a)}} :
         \/ access' \in {"available", "unavailable", "error", access} /\ registry' = shown
         \/ \E listed \in Listings :
              /\ registry' = RegisterAll(shown, listed)
              /\ access' = "available"
    /\ UNCHANGED <<profile, task, buildVars, fileVars, faults>>

\* describe and view_target only look an item up.
Describe(item) ==
    /\ Ready /\ Found(item) /\ Use(item)
    /\ UNCHANGED <<profile, access, task, buildVars, fileVars, faults>>

\* read_file, which says whether Magnus can be used.
ReadFile == access' \in {"available", "unavailable", "error"}

\* preview, file_hash and copy_value.
Preview(file) ==
    /\ Ready /\ Found(file) /\ Use(file) /\ ReadFile
    /\ UNCHANGED <<profile, task, buildVars, fileVars, faults>>

--------------------------------------------------------------------------------
(* Builds.                                                                 *)

NextBuild == CHOOSE n \in Builds :
    builds[n].state = "none" /\ \A k \in 1..(n - 1) : builds[k].state # "none"

Confirm(app) ==
    /\ \E n \in Builds : builds[n].state = "none"
    /\ task' = [at |-> "post", build |-> NextBuild, app |-> app]
    /\ builds' = [builds EXCEPT ![NextBuild] = [state |-> "confirmed", app |-> app, for |-> profile]]

\* build: a confirmed item of the registry.
BuildShown(app) ==
    /\ Ready /\ Found(app) /\ Use(app) /\ Confirm(app)
    /\ UNCHANGED <<profile, access, recents, receipts, posts, fileVars, faults>>

\* resolve: the target of a Recent Link of the selected profile.
Resolves(app) == profile # NoProfile /\ app \in Range(recents[profile])

\* build_recent: a confirmed Recent Link.
BuildRecent(app) ==
    /\ Ready /\ Resolves(app) /\ Confirm(app)
    /\ UNCHANGED <<adapterVars, recents, receipts, posts, fileVars, faults>>

Sent == [posts EXCEPT ![task.build].sent = @ + 1]
Ended(state) == [builds EXCEPT ![task.build].state = state]

\* Mutant: a POST whose answer was lost is sent again.
Post_Retries ==
    /\ task.at = "post"
    /\ \/ /\ posts' = [Sent EXCEPT ![task.build].accepted = @ + 1]
          /\ builds' = Ended("accepted") /\ task' = [task EXCEPT !.at = "recent"]
          /\ access' = "available"
       \/ /\ posts' \in {Sent, [Sent EXCEPT ![task.build].accepted = @ + 1]}
          /\ UNCHANGED <<builds, task, access>>
    /\ UNCHANGED <<profile, registry, recents, receipts, fileVars, faults>>

\* Mutant: the receipt of an unanswered build is stored, too.
Post_ReceiptAtOnce ==
    /\ task.at = "post"
    /\ posts' \in {Sent, [Sent EXCEPT ![task.build].accepted = @ + 1]}
    /\ builds' = Ended("accepted") /\ task' = [task EXCEPT !.at = "recent"]
    /\ UNCHANGED <<adapterVars, recents, receipts, fileVars, faults>>

\* _run_build: one POST, which Magnus accepts, refuses, or whose answer is
\* lost; a lost one may have been accepted.
Post ==
    /\ task.at = "post"
    /\ \/ /\ posts' = [Sent EXCEPT ![task.build].accepted = @ + 1]
          /\ builds' = Ended("accepted") /\ task' = [task EXCEPT !.at = "recent"]
          /\ access' = "available"
       \/ /\ posts' \in {Sent, [Sent EXCEPT ![task.build].accepted = @ + 1]}
          /\ builds' = Ended("failed") /\ task' = NoTask
          /\ access' \in {"unavailable", "error", access}
    /\ UNCHANGED <<profile, registry, recents, receipts, fileVars, faults>>

\* _read: a history that cannot be read, or is damaged, counts as empty.
ReadRecents(rows) ==
    (rows = recents[profile] /\ UNCHANGED faults) \/ (rows = <<>> /\ Fault)
ReadReceipts(rows) ==
    (rows = receipts[profile] /\ UNCHANGED faults) \/ (rows = <<>> /\ Fault)

\* _write: the whole file is replaced.
WriteRecents(rows) == recents' = [recents EXCEPT ![profile] = rows]
WriteReceipts(rows) == receipts' = [receipts EXCEPT ![profile] = rows]

\* add: the target becomes the latest.
WithRecent(rows, app) == LastOf(Append(SelectSeq(rows, LAMBDA a : a # app), app), RecentLimit)

\* _complete_build, first part: the Recent Link, if the preferences say so and
\* can be read; a failing write of the history ends the request.
AddRecent ==
    /\ task.at = "recent"
    /\ \/ /\ \E rows \in {recents[profile], <<>>} :
              ReadRecents(rows) /\ WriteRecents(WithRecent(rows, task.app))
          /\ task' = [task EXCEPT !.at = "receipt"] /\ UNCHANGED builds
       \/ task' = [task EXCEPT !.at = "receipt"] /\ UNCHANGED <<recents, builds, faults>>
       \/ Fault /\ task' = NoTask /\ builds' = Ended("dropped") /\ UNCHANGED recents
    /\ UNCHANGED <<adapterVars, receipts, posts, fileVars>>

\* add: the receipt is the latest.
WithReceipt(rows) == LastOf(Append(rows, task.build), ReceiptLimit)

\* The second part: the receipt, or the answer that it was not stored.
AddReceipt ==
    /\ task.at = "receipt" /\ task' = NoTask
    /\ \/ /\ \E rows \in {receipts[profile], <<>>} :
              ReadReceipts(rows) /\ WriteReceipts(WithReceipt(rows))
          /\ builds' = Ended("receipted")
       \/ Fault /\ builds' = Ended("unpersisted") /\ UNCHANGED receipts
    /\ UNCHANGED <<adapterVars, recents, posts, fileVars>>

ClearRecents ==
    /\ Ready /\ profile # NoProfile
    /\ recents' = [recents EXCEPT ![profile] = <<>>]
    /\ UNCHANGED <<adapterVars, task, receipts, builds, posts, fileVars, faults>>

\* _profile_remove: the stores, then the row; either deletion may fail.  A
\* profile that is added later starts like a removed one.
RemoveProfile(p) ==
    /\ Ready
    /\ \/ /\ recents' = [recents EXCEPT ![p] = <<>>] /\ receipts' = [receipts EXCEPT ![p] = <<>>]
          /\ IF p = profile THEN \E q \in (Profiles \ {p}) \cup {NoProfile} : Activate(q)
                            ELSE UNCHANGED adapterVars
          /\ UNCHANGED faults
       \/ /\ Fault /\ recents' \in {recents, [recents EXCEPT ![p] = <<>>]}
          /\ UNCHANGED <<adapterVars, receipts>>
    /\ UNCHANGED <<task, builds, posts, fileVars>>

BrokerRestart ==
    /\ Fault /\ Forget /\ task' = NoTask
    /\ builds' = IF "build" \in DOMAIN task THEN Ended("crashed") ELSE builds
    /\ UNCHANGED <<profile, recents, receipts, posts, fileVars>>

--------------------------------------------------------------------------------
(* Downloads.                                                              *)

\* download: the item is looked up and read before a name is tried.
Download(file) ==
    /\ Ready /\ Found(file) /\ Use(file)
    /\ loads < MaxDownloads /\ loads' = loads + 1
    /\ ReadFile
    /\ task' = IF access' = "available" THEN [at |-> "name", name |-> 1, created |-> FALSE]
               ELSE NoTask
    /\ UNCHANGED <<profile, buildVars, folder, faults>>

\* O_EXCL: the first name that nobody has, of so many.
TryName ==
    /\ task.at = "name"
    /\ IF folder[task.name] = Absent
       THEN /\ folder' = [folder EXCEPT ![task.name] = "partial"]
            /\ task' = [task EXCEPT !.at = "write", !.created = TRUE]
       ELSE /\ task' = IF task.name < NameLimit THEN [task EXCEPT !.name = @ + 1]
                       ELSE [task EXCEPT !.at = "cleanup"]
            /\ UNCHANGED folder
    /\ UNCHANGED <<adapterVars, buildVars, loads, faults>>

WriteFile ==
    /\ task.at = "write"
    /\ \/ folder' = [folder EXCEPT ![task.name] = "saved"] /\ task' = NoTask /\ UNCHANGED faults
       \/ Fault /\ task' = [task EXCEPT !.at = "cleanup"] /\ UNCHANGED folder
    /\ UNCHANGED <<adapterVars, buildVars, loads>>

\* Mutant: the last name tried is removed, whoever created it.
Cleanup_Always ==
    /\ task.at = "cleanup" /\ task' = NoTask
    /\ folder' = [folder EXCEPT ![task.name] = Absent]
    /\ UNCHANGED <<adapterVars, buildVars, loads, faults>>

\* After a failure: only a file this attempt has created is removed.
Cleanup ==
    /\ task.at = "cleanup" /\ task' = NoTask
    /\ folder' = IF task.created THEN [folder EXCEPT ![task.name] = Absent] ELSE folder
    /\ UNCHANGED <<adapterVars, buildVars, loads, faults>>

\* Another program creates or removes files of its own.
OthersFiles ==
    /\ Fault /\ \E k \in Names :
         \/ folder[k] = Absent /\ folder' = [folder EXCEPT ![k] = Other]
         \/ folder[k] = Other /\ folder' = [folder EXCEPT ![k] = Absent]
    /\ UNCHANGED <<adapterVars, task, buildVars, loads>>

Next ==
    \/ \E p \in Profiles : Switch(p) \/ RemoveProfile(p)
    \/ \E app \in Apps : BuildShown(app) \/ BuildRecent(app)
    \/ \E item \in Items : Describe(item)
    \/ \E file \in Files : Preview(file) \/ Download(file)
    \/ ResetAccess \/ Probe \/ Browse \/ Post \/ AddRecent \/ AddReceipt
    \/ ClearRecents \/ BrokerRestart \/ TryName \/ WriteFile \/ Cleanup \/ OthersFiles

Spec == Init /\ [][Next]_vars

--------------------------------------------------------------------------------
(* Properties.                                                             *)

\* What can be built, downloaded or opened by its safe id was shown under the
\* profile Magnus was last told of, although the id would be the same under
\* another profile of the server.  (That it is told of the selected one, and
\* when not, is a matter of ProfileLifecycle.)
ItemsOfTheProfile == \A i \in DOMAIN registry : registry[i].to = profile

\* A build is requested from Magnus at most once per confirmation: neither a
\* lost answer nor a failure after it leads to another request.
NoBuildIsRetried == \A n \in Builds : posts[n].sent <= 1

\* A receipt is of a build that Magnus accepted, confirmed under the profile
\* it is listed for, however profiles were switched, removed and added.
ReceiptsAreTrue ==
    \A p \in Profiles : \A n \in Range(receipts[p]) :
        posts[n].accepted > 0 /\ builds[n].for = p

\* A download that fails at any point, also when every name is taken, removes
\* no file that was there before; one that says it is saved is there.
DownloadsKeepFiles ==
    [][\A k \in Names : folder[k] \in {Other, "saved"} /\ folder'[k] # folder[k] => faults' # faults]_vars
================================================================================
