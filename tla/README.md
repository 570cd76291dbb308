# A formal model of Rock Arch

Rock Arch is a desktop panel (QML, `plugin/`) with a local Python broker
(`rock_arch_broker/`) between the panel, a command line and a Rock RMS server.
This directory holds TLA+ models of the broker's state, the TLC runs that check
them on small instances, and proofs that TLAPS checks for every instance.

    tlc -workers 2 -config MCRockSession.cfg MCRockSession.tla
    tlapm RockSessionProofs.tla

## 1. The system

| component | code | state | operations | what is hard |
|---|---|---|---|---|
| Rock session | `rock_session.py`, `secret_store.py` | saved login of each profile in the desktop Secret Service, the selected profile, one cached cookie with a 15 minute idle timer and a generation | `set_profile` (with the migration of older records), `clear_profile`, `configure`, `sign_out`, `remove_profile_credentials`, `test_connection`, `authenticated_cookie`, `invalidate_authenticated_cookie` | every `secret-tool` process may fail, or fail after it took effect; the timer runs in a thread; the process may die between two processes |
| profile file | `profiles.py`, `instance.py` | `profiles.json` (profiles, the active one, preferences) and the instance pointer | `add`, `set_active`, `rename`, `remove`, `update_preferences` | two files, two writes; a write may fail before, after or between them |
| broker handlers | `broker.py`, `broker_operations.py` | the selected profile and server, the clients below | one handler per operation; `_activate_profile` | the selected profile is kept in three places; rollback after a failure; a handler that raises |
| Personal Links | `personal_links.py` | up to 16 drafts of a change | prepare, confirm: save or delete a link or section | the server changes between the two; lost answers |
| jobs | `jobs.py` | access (60 s), up to 16 drafts (120 s) | `access`, `prepare`, `run`, `status` | a run must be sent once per confirmation; lost answers |
| search | `rock_rest_adapter.py` | capability cache, registry of results | `searchable_categories`, `search`, `personal_links`, `resolve` | stale caches; partial failure of a batch |
| Magnus | `magnus_adapter.py` | access state, registry of tree items | browse, preview, download, build | registry outliving its login |
| updates | `updates.py`, `update_worker.py` | a state file, a lock, the installed package | check thread, `start_update`, the worker | three processes and a thread; restart of the broker |
| socket server | `server.py`, `__main__.py` | the socket path | claim, accept, one line per request | two brokers starting at once |
| panel | `RockArch*.qml`, `*.js` | request queue, request ids, busy flags | queue, coalesce, retry; job, link and setup states | late and lost answers, reconnection |
| UI handoff | `broker.py:710-744` | one pending request and its timer | set, take, expire | a late timer callback |
| quick returns, receipts | `quick_return.py`, `build_receipts.py` | bounded lists in files | add, resolve, clear | bounds, order |
| shortcuts | `shortcuts.py` | the compositor's files | inspect, install, remove, roll back | someone else edits the files |
| command line | `cli.py`, `terminal_access.py`, `cli_permissions.py` | permissions in the preferences | gates in `handle()` | settings changed between check and use |
| knowledge base | `rock_kb_adapter.py`, `model_map_detail.py` | cached pages | search, detail | parsing only |

The panel and the command line send one JSON line per request over a Unix
socket. The broker's event loop runs one handler at a time, to its end; the
threads beside it are the cookie's timer, the handoff's timer and the update
check. Handlers call the session and the clients directly; the clients take the
session's cookie with `authenticated_cookie()` for each request to Rock.

What makes each part correct:

* session: the cookie is the selected profile's and always expires; a saved
  login is replaced only by one the server accepted and is otherwise kept; an
  erased one is really gone when the operation says so; migration loses nothing.
* profile handlers: file, broker and session agree on the active profile; no
  secret outlives its profile; what a client holds and where it sends the
  cookie follow the profile and the login.
* Personal Links and jobs: a change or run happens at most once per confirmation
  and the user is never told "not done" of something done.
* updates: only a commit that was offered and validated is installed, the user's
  work survives, "updated" is the truth, and no update runs for ever.
* search: only what is enabled and allowed is read, and none of it is left out
  without being named; the rows just shown can be opened, and only rows of the
  selected profile; the links list follows acknowledged changes.
* Magnus: items are of the selected profile; a build is sent once; receipts are
  true; a download removes nobody's file.
* shortcuts: the user's edits of the file stay; a change that failed left nothing
  behind; one that succeeded has the keys for itself; the panel can be summoned, by
  the menu icon or by a shortcut.
* panel: no answer is applied to a request it does not belong to; busy ends.

## 2. Modules

| module | what it is |
|---|---|
| `RockSession` | the session, one action per `secret-tool` process |
| `SavedLogins` | the contract of the session: what a caller may rely on |
| `RockSessionProofs` | theorems about `RockSession` |
| `ProfileLifecycle` | broker handlers, profile file and clients, over `SavedLogins` |
| `ConfirmedAction` | what the user is promised of an action he confirms |
| `JobRuns` | the panel's job state, its connection, the broker's job handler and manager, Rock servers; implements `ConfirmedAction` |
| `PersonalLinks` | the panel's dialog, its connection, the command line, the broker's handler and manager, Rock; implements `ConfirmedAction` |
| `Updates` | the update manager, its check thread, the workers, the checkout and the state file |
| `LiveSearch` | the search adapter with its caches and registry |
| `Magnus` | the Magnus adapter, builds with Recent Links and receipts, downloads |
| `Shortcuts` | changes of the keyboard shortcut by the broker, the user and the compositor |
| `ProfileLifecycleProofs` | what the contract keeps, for its caller; types of the broker and the session together; broker, file, session and clients agree |
| `JobRunsProofs` | theorems about `JobRuns`, with its refinement of `ConfirmedAction` |
| `PersonalLinksProofs` | theorems about `PersonalLinks`, with its refinement of `ConfirmedAction` |
| `UpdatesProofs`, `LiveSearchProofs`, `MagnusProofs`, `ShortcutsProofs` | theorems about those modules |
| `MC...` | instances for TLC: constants and symmetry only |

### RockSession

`vault` is the Secret Service: a username and a password record for each key.
`Rock(p)` is today's key of a profile, `Magnus(p)` and `MagnusAt(o)` are those of
two older releases. `profile_id` is the attribute of that name (the origin goes
with it). `cookie` is `_cached_cookie`, as the profile and login it was issued
for; `armed` says that the idle timer of the present generation has not
elapsed, and `callbacks` holds the timers that have elapsed and wait for
`_cache_lock`, "current" or "stale" according to the generation they compare.
`call` is the method in progress, with the point it has reached; `faults` counts
the failures in this call; `ack` is a history variable, the login the user was
last told is saved.

The methods that write records are split at each write:
`configure` is `ConfigureLogin`, `SaveUsername`, `SavePassword`,
`ConfigureClearLegacy` and, after a failure, `RestoreUsername` and
`RestorePassword`; `set_profile` is `SetProfile` and the steps named `Migrate...`;
`sign_out` is `SignOutCurrent` and `SignOutLegacy`. Reading a pair and clearing a
group of records are one action each: a read may miss a record that is there
(lookup returns `None` on any error), and clearing may leave any subset when it
reports failure. A store that is reported as failed may have taken effect (a
timeout). The exchange with the login page is the server's answer, accepted or
refused. `Crash` ends the process at any point; only `vault` survives.

Not in the model: `set_server`, which nothing in the repository calls; cookie
syntax; `status()`, which changes nothing.

### SavedLogins

Per profile, the saved login is a login, absent, or `Damaged` (half a pair or two
halves of different pairs), and an older record may exist. A method in progress
may change it; what it returns with is promised: a successful `configure` has
saved the login, a failed one has left the acknowledged login in place, "ok"
from `sign_out` or `remove_profile_credentials` means nothing is left, a session
is the cached one or one of the saved login, migration neither replaces a login
the user was told is saved nor drops an older one without a newer one. The
promises hold while at most one `secret-tool` process fails in a call; with two,
the restore in `configure` can fail as well, which the code accepts
(`_restore_secret`'s outcome is not looked at).

`RockSession!Contract` is the refinement mapping: a pair of records becomes the
login it is, `NoSecret`, or `Damaged`; the record that the earliest release kept
per server is not visible to the caller.

### ProfileLifecycle

`rows` and `active` are `profiles.json`; `current` is the broker's
`_active_profile_id`/`_origin`; `at[c]` is the profile whose server client `c`
addresses and `held[c]` the profile and login under which its drafts, results or
items were obtained; `job` is the handler in progress, waiting for a session
method in `call`; `whole` is history: the last `_activate_profile` ran to its end.

`Activate` and `FinishActivation` are `_activate_profile` before and after its
session call: when that call raises, the second half does not run, exactly as
in the code. `ProfileAdd` and `RockConfigureFirst` continue with `AddActivated`,
`Configured` or `AddFailed`, `Unwind`, `UnwindSelect`, `Reactivated`
(`_rollback_profile_add`). `ProfileRemove` and `RemoveRow` are `_profile_remove`.
`RockConfigure`, `ProfileCredentialsUpdate`, `ProfileSignOut`, `ProfileTest` with
`Configured`, `SignedOut`, `Tested` are the handlers about the active profile's
login; `ClientRequest`, `Answered`, `Refused` stand for any read or write a client
does with the cookie. `Boot` and `Booted` are `Broker.__init__`, `BrokerCrash` the
end of the process. A write of the profile file ends in one of `FileOutcomes`:
`ok`; `refused` (a `ProfileError` before anything is written); `lost` (an `OSError`
before); `half` (`profiles.json` replaced, the instance pointer's write raises
`OSError`, which the handlers do not catch).

Not in the model: names and preferences of profiles, `profile_rename` (it changes
only a name; a rename inside `rock_configure` that fails is in), the files of
recent links and receipts (only that clearing them may stop a removal).

### JobRuns

The module composes four parts, each with actions of its own. The panel: `panel` is
`RockArchJobState.qml` (`phase` "closed" is `editing = false`; `request` and `access`
are the numbers of the two awaited answers, `access` 0 is `accessBusy = false`;
`timer` is the 30 second one) and `revision` its counter. The connection: `queue` and `connected`
are `RockArchConnection.qml`'s, `wire` the lines written and not read yet,
`answers` the lines on their way back. The broker: `task` is the line `_client` is
handling and the read of the Rock server it has come to, `drafts` and `placement`
the manager's. The servers: `rock`, which may change between any two reads.

A broken socket loses the answers under way; lines already written may still be
read by the broker, which then answers nobody (`wire["lost"]`). A `job_run` is never
queued (`RunOffline`), the other requests are (`Submit`). A handler that raises
answers without the request's number ("bare"), which the panel cannot match.
Deadlines are not counted: a cached access may be used or not, a draft may have
expired or not. Requests are answered by any error the code can answer with at
that point. `raced` is history: a server changed while the line was handled.

`times` and `told` are history variables: how often a confirmation has run the
job, and what the user was told. They are the state of `ConfirmedAction`, whose
confirmations are the numbers of the `job_run` requests. "Unknown" is the notice
"Rock may have started this job", after which the run may still happen; after an
error it must not.

Not in the model: titles, notices and focus; which other request makes the
broker select a profile (`SetOrigin` may happen between any two lines, as
`_activate_profile`, a saved login or a context change); agents of the command line.

### PersonalLinks

`panel` is `RockArchPersonalLinkState.qml` (`loading`, `form`, `saving`; it has no
timer of its own), `queue`, `socket` and `wire` the connection as in `JobRuns`, with
the moment between a failed socket and its replacement (`socket` "failed",
`ConnectionFailed`). `Command` and `CommandTimeout` are the command line as a second
client; `task.grants` are its permissions, read when the line is handled.
`task.step` is the read or write of Rock the handler has come to: `PrepareAddition`
and `PrepareDeletion` are `prepare`, `prepare_section`, `prepare_delete`;
`CommitDraft` to `VerifyDeletion` are `save`, `save_section` and `delete`, one HTTP
request per action. `additions` and `deletions` are `_drafts` and `_deletions`.

A write may be answered, refused, or lose its answer; a lost one may be carried out
at once, later (`late`, `LateWrite`) or never. `RockChanges` adds, edits, moves and
deletes records or changes the account at any point; `raced` records that this
happened while the line was handled. `clean` is history: links stored when nothing
of the kind happened, until others edit a link. `BrokerCrash` ends the request that
is served, whose write may still be carried out, and its command reads the end of the
connection. `times` and `told` are the state of `ConfirmedAction`.

Not in the model: names beyond "Links" and another one, URL normalisation, icons,
order of links, the life of drafts (a draft may fail at any read).

### Updates

`mem` is the manager's `_state`, `file` is `updates.json`, `old` that its operation is
older than ten minutes. `Status`, `AskUpdate` and the steps `Allow`, `LookClean`,
`MarkUpdating`, `Launch` are `status()` and `start_update()`; `BeginCheck`,
`CheckReads`, `CheckFetches`, `CheckPublishes` the check thread; `BrokerCrash` and
`BrokerStart` a restart with `_load_state`. `Begin` to `ReportFailure` are
`update_worker.py`, one action per Git or Omarchy command; `lock` is the install
lock. `UserEdits` commits, edits, cleans, pulls or changes the origin between any
two steps. A commit is its number in the history of the repository, `own` says
that the user has commits on top. `offered` is history.

### LiveSearch

A request is one action, since its parallel reads are joined before anything else
touches the adapter; the outcome of every read is chosen freely. `registry` is
`_registry`, `access` the cached access check, `list` and `deletions` the cached links
and the ids that may be deleted. `Checked` is `searchable_categories`, `Read` and
`ReadNothing` are `search`, `PersonalLinks` is `personal_links`, `ChangeLink` what
`invalidate_personal_links` follows. `granted` and `expected` are history: what the
latest complete check allowed, and what acknowledged changes say of each link.

`bookmarks` are the links Rock has for who is signed in. `Activate` is a switch, a
sign-in or a sign-out, after which the adapter is cleared; `SignInUnfinished` is a
sign-in in the profile that ends in an error after the login was replaced, when
`rock_configure` returns before it clears the adapter. `answer` says which
categories were asked for (`asked`), which were read, which it names as
unavailable, and, as history, what matched in Rock (`matching`), chosen freely at
each search; it is sent (`Send`) before the next request is served. `Page` is what a category shows of it, all or `RowsPerCategory`.
Whether a row has a title is left out: one without is not shown.

### Magnus

`registry` is the adapter's `_targets`, `access` its `_access`, `recents` and `receipts`
the files of each profile. A build is `BuildShown` or `BuildRecent`, `Post`,
`AddRecent`, `AddReceipt`; a download `Download`, `TryName`, `WriteFile`, `Cleanup`.
A store may be unreadable, which counts as empty, or fail to be written; the
broker may restart between any two steps; other programs make and remove files.
`Browse` registers what a listing shows item by item, of a folder after looking it up,
which makes it the latest (`Used`).
A safe id is the same under every profile of a server, which is why the registry
records (as history, in `to`) under which profile the item was shown.

### Shortcuts

`file` is `bindings.lua`: a version for its inode and times, the user's latest edit,
our block, his bindings, whether it has errors. `active` is what the compositor has
loaded. `Lock` to `ReloadBack` are the steps of a change and its rollback
(`_change`, `_replace`), taken by each of two brokers; `UserEdit` and
`CompositorLoads` come between any two. `raced`, `unseen` and `excused` are history:
an edit fell between the last comparison and the replacement, or between the
replacement and reading it back; `excused` says that the icon was hidden during
another change, by a shortcut that was gone, or that the user has edited the file
since. A change to `NoCombo` is a removal.

The icon can be hidden in two ways. `HideIcon` is `_settings_update`, which commands
send and which inspects the shortcut first. `PanelHidesIcon` is the panel's toggle:
it looks at the shortcut that it shows (`shown`, set by a `Status` of the panel) and
sends `preferences_update`, which looks at nothing. `shown` is "gone" once the
shortcut it stands for has left the file.

## 3. Runs

| run | instance | what it asks |
|---|---|---|
| `session` | 2 profiles of one server, 2 logins, 1 failure per call | the cookie's owner and timer, late callbacks are harmless, truthful removal, a saved login is kept, migration keeps a login |
| `session_contract` | the same, 1 login | `RockSession` implements `SavedLogins` |
| `lifecycle` | 2 profiles of one server, 2 logins, Personal Links and Magnus, every way a file write can end | file, broker and session agree; no login without a profile; clients follow the profile and its login |
| `jobs` | 2 profiles with a server each, 2 jobs, 1 placement, 4 requests, 1 draft, 1 change | at most one run per confirmation and the truth about it (`ConfirmedAction`); what runs is what was shown; the limit of drafts; the dialog does not stay busy |
| `links` | 2 accounts, 1 URL, 2 requests of the panel and 2 commands, 3 records, late writes | each confirmation happens at most once and is told truthfully (`ConfirmedAction`); trying again adds no second link; a command keeps within its grants |
| `link_dialog` | 2 requests of the panel of every kind, 3 records, 1 change by somebody else | the dialog does not stay busy; a deletion deletes what was shown; only the account's own records are touched |
| `updates` | 2 workers, 3 commits, the last of them broken, 1 mishap | only an offered and validated commit is installed; the user's work stays; "updated" is the truth |
| `update_ends` | 1 worker, 2 commits, 2 mishaps | an update is not shown as running for ever |
| `magnus` | 2 profiles of one server, 2 apps, 1 file, 2 items, listings of 2, 1 receipt, 2 builds, 2 downloads, 2 faults | items are of the profile; a build is sent once; receipts are true; a download loses nobody's file |
| `live_search` | 2 profiles, 2 categories of 2 and 1 records, pages of 1, 2 links of which 1 is listed, 3 rows kept, 2 changes | only what is allowed is read, and what was asked for of it is shown or named; the rows just shown can be opened, and only rows of the selected profile; the links list follows changes; deletions match the list |
| `shortcuts` | 2 brokers, 2 combinations, 2 requests, 1 edit, 1 fault | edits stay; a failed change left nothing behind; a saved one is alone on its keys; icon or shortcut |
| `cookie_origin` | 2 profiles of 2 servers, Magnus | a sentence of the documentation that the code does not keep (section 5) |

Deadlock is checked in the runs of the session, the profile handlers and the
jobs. The others end when their bounded requests, changes and mishaps are used up,
so their configurations switch it off.

Bounds. Two profiles show everything about "another profile". They share a server
in the session runs, which makes them share the origin-keyed record, and in
`lifecycle`, where Magnus keeps its items between them; they have different servers
in `cookie_origin`, which makes a misdirected cookie visible. Two logins are the
one before and the one after. `MaxFaults = 1` of the session is a failure at any
one point of each call, not of a behaviour; several calls may each have one.
`BrokerInit` has any profile file of at most two rows, and fresh ids come from the
two profiles, so a third row never occurs; rows beyond the active one and the first
only matter to `ActiveWithout`. The two clients of `lifecycle` are one that is
reset before the session is told (as jobs) and one after (as search), and clients
do not touch one another.

Four requests of `jobs` are an access check, a preparation, a run or a second
preparation, and a run or a status check after it: enough for a late answer to
meet another request, for a run after a lost one, and for a draft to meet the limit
of one. One change is a job that is replaced, moved or forbidden at any point. Two
requests and two commands of `links` are a prepared and a confirmed change of each
of the two, so that they meet, and that one repeats what the other has lost; two
requests of `link_dialog` with one change show a record that differs from the
reviewed one. Two workers of `updates` are one installing and one started over it;
of three commits one is installed, one offered and one published meanwhile. One
mishap falls at any step (an edit, a crash, a failed write), two in `update_ends`.
`RegistryLimit = 3` of `live_search` is just what its assumption requires (one
answer fits, links and a row of each category), so that a second answer pushes rows
of the first out. One of its categories has more records than a page, and of its two
changes of links or preferences one may be the user's and one somebody else's. Two
brokers of `shortcuts` are the panel's and one started beside it, the two
combinations an old and a new one; its edit may take out or damage our block and
change either the user's own shortcut or the keys that other bindings take, which
any may be at the start.

Every bound of a counter (`MaxRequests`, `MaxCommands`, `MaxChanges`, `MaxRecords`,
`MaxBuilds`, `MaxDownloads`, `MaxEdits`, `MaxFaults`, `MaxMishaps`, `MaxRevision`)
stands in the guards of the actions that count. `ListingLimit` of `Magnus` bounds what
one listing shows. The limits that the code itself has
are `DraftLimit`, `SectionLimit`, `RegistryLimit`, `LinkLimit`, `RowsPerCategory`,
`ItemLimit`, `RecentLimit`, `ReceiptLimit` and `NameLimit`, with smaller values.

Symmetry is declared where no liveness is checked.

Fairness. `JobRuns`: a Qt timer that was started and not stopped fires
(`WF_vars(Timeout)`), and nothing of the socket, the broker or Rock. `PersonalLinks`,
whose dialog has no timer: the broker ends what it has begun, as each of its HTTP
requests has a timeout (`ServeStep`), the socket connects or fails, and Qt delivers an
error (`Connect`, `ConnectionFailed`) and the lines that arrive (`Receive`). `Updates`:
requests, threads and workers end, by the timeouts of the commands they run
(`StartSteps`, `CheckSteps`, `WorkerStep`), ten minutes pass (`TenMinutes`), the
restarted shell starts a broker (`BrokerStart`), and the panel asks for the status
again and again, between the other requests, which needs strong fairness
(`Status`). The other modules state no liveness: no method of theirs waits for
another actor.

Each property of a passing run is paired with a mutant, an operator named
`<action>_<fault>` beside the action it changes, that breaks it.

## 4. Theorems

All of them hold for any sets and any values of the bounds that satisfy the named
assumptions of the module they are about: the special values (`NoProfile`,
`NoSecret`, `NoCookie`, `NoPlace`, ...) are not members of the sets they are used
beside, limits are natural numbers, positive where the code's are, and the
categories, records and links of `LiveSearch` are finite. `LoginKept` and
`ContractImplemented` assume also that `MaxFaults <= 1`: with two failures in one
`configure` the code does leave a mixed pair (section 5).

| module | theorem | says |
|---|---|---|
| `RockSessionProofs` | `Typed` | `Spec => []Inv` |
| | `TypeCorrect` | `Spec => []TypeOK` |
| | `CookieSelected` | `Spec => []CookieOfSelectedProfile` |
| | `CookieTimed` | `Spec => []CookieHasTimer` |
| | `OnlyIdleCookieExpires` | `Spec => TimerDropsOnlyIdleCookie` |
| | `RemovalTruthful` | `Spec => []RemovalIsTruthful` |
| | `MigrationSafe` | `Spec => MigrationKeepsALogin` |
| | `LoginKept` | `MaxFaults <= 1` gives `Spec => []AcknowledgedLoginIsKept` |
| | `ContractImplemented` | `MaxFaults <= 1` gives `Spec => KeepsContract` |
| `ProfileLifecycleProofs` | `SessionKept` | `Spec => []SessionInv`, of `SavedLogins` |
| | `BrokerTyped` | `BrokerSpec => []BrokerTypeOK` |
| | `SelectionAgrees` | `BrokerSpec => []SelectedIsActive` |
| | `RemovalIsComplete` | `BrokerSpec => []RemovedProfileLeavesNoLogin` |
| | `ClientsAgree` | `BrokerSpec => []ClientsFollowProfile` |
| | `HeldAgrees` | `BrokerSpec => []HeldOfPresentLogin` |
| `JobRunsProofs` | `JobTyped` | `Spec => []JobTypeOK` |
| | `RunsShown` | `Spec => RunsWhatWasShown` |
| | `ConfirmationKept` | `Spec => KeepsConfirmation` |
| `PersonalLinksProofs` | `LinksTyped` | `Spec => []LinkTypes` |
| | `LinksConfirm` | `Spec => LinksKeepConfirmation` |
| | `DeletesShown` | `Spec => DeletesWhatWasShown` |
| | `CommandsGranted` | `Spec => CommandsStayGranted` |
| | `OnlyOwn` | `Spec => OnlyOwnRecords` |
| | `NoSecond` | `Spec => []NoSecondBookmark` |
| `UpdatesProofs` | `UpdateTyped` | `Spec => []UpdateTypeOK` |
| | `InstallsTheOffer` | `Spec => InstallsOnlyTheOffer` |
| | `KeepsUserWork` | `Spec => UserWorkIsKept` |
| | `UpdatedRuns` | `Spec => UpdatedIsRunning` |
| `LiveSearchProofs` | `SearchCovers` | `Spec => []SearchCoversTheAllowed` |
| | `DeletionsMatch` | `Spec => []DeletionsMatchList` |
| | `ShownOpen` | `Spec => []ShownRowsOpen` |
| | `RowsStayWithProfile` | `Spec => []RowsOfTheProfile` |
| | `ListFollows` | `Spec => []ListFollowsChanges` |
| `MagnusProofs` | `ItemsStayWithProfile` | `Spec => []ItemsOfTheProfile` |
| | `BuildsSentOnce` | `Spec => []NoBuildIsRetried` |
| | `ReceiptsTrue` | `Spec => []ReceiptsAreTrue` |
| | `FilesStay` | `Spec => DownloadsKeepFiles` |
| `ShortcutsProofs` | `ShortcutTyped` | `Spec => []ShortcutTypeOK` |
| | `EditsKept` | `Spec => []EditsAreKept` |
| | `IconOrShortcutStays` | `Spec => []IconOrShortcut` |
| | `FailuresKeepShortcut` | `Spec => FailedChangesLeaveShortcut` |
| | `SavedIsAlone` | `Spec => SavedShortcutIsAlone` |

### The session

`TypeOK` is not inductive: `MigrateUsername` writes `vault` at the key of the
selected profile, which must then be a profile, and `ConfigureClearLegacy` stores
`call.given["username"]` as the login of a cookie, which must then be a login.
`Inv` therefore adds `CallWellFormed`: which method may be at which step, that a
migration works on the profile it selected, and that a configure carries a whole
login and, past its first step, has a selected profile. The steps are grouped by
method (`SelectInv`, `ConfigureInv`, `RemoveInv`, `CookieInv`, with `TimerInv`,
`BeginInv` and `CrashInv`) and put together in `NextInv`. The other
invariants rest on `Inv`:

* `CookieSafe` adds `OneTimer` to the two cookie properties: while the present
  cookie's timer runs, no callback of its generation waits. Without it the
  callback and a renewal could meet, and `OnlyIdleCookieExpires` is this fact read
  at a step.
* `RemovalInv` adds `RemovalProgress`: between the two groups of clears of a
  sign-out, a result that is not "error" means the first group is gone.
* `MigrationInv`: the pair being copied is complete, and when the older records may
  be cleared, so is the current one.
* `KeepInv`, for `AcknowledgedLoginIsKept`: while configure replaces an acknowledged
  login, that login is still in the vault or `old` can put it back
  (`ReplacedOrRestorable`); what is about to be acknowledged is in the vault
  (`NewLoginStored`); and the older records of an acknowledged login are gone
  (`OlderGone`), so no migration writes over one. `old` may be wrong only when
  reading it used up the call's failure, and then the writes that follow succeed:
  this is where `MaxFaults <= 1` enters.
* `SignedOut`: while a sign-out has only the older records left to clear, the login is
  already forgotten.

`RemovalTruthful` does not bound the number of failures: truthfulness does not rest
on the one-failure rule.

`ContractImplemented` takes `Next` apart by method and names for each step the action
of `SavedLogins` that it is, or shows that the saved logins and the present cookie
are the same after it. A clear of one half of a pair leaves the same login, nothing,
or `Damaged`, and which of them is a fact about the records (`SavedCleared`); what a
method returns is read off from `RemovalInv` and `KeepInv` after the step. The
profile handlers are composed of the actions of `SavedLogins`, so that what is proved
of them rests on the session through this theorem.

### The profile handlers

The chain of `ProfileLifecycleProofs` is: first what the contract keeps (`SessionInv`,
which method is in progress and what it then holds), for use by the caller; then
`BothInv`, the types of broker and session together
with the facts that tie the handler in progress (`job`) to the method it waits for
(`call`). `AgreeInv` adds to it one
conjunct per pair of things that must agree: `SelectedFits` (broker and session
at each point of a handler), `FileFits` (broker and file), `RemovedProfileLeavesNoLogin`
itself, `ToldFits` (what a client was told), `HeldFits` (whose profile what it holds is of)
and `LoginFits` (which login it is of, until the handler that saved another one
has cleared it). The properties speak of the moments between handlers; a handler
is many steps long, and these conjuncts say what holds at each of them.

### Job runs

`JobInv` says where a request can be. `OnePlace`: the numbers of the lines in the
queue, in the live and in the lost half of the wire, of the line being handled and
of the answers are all different, each number once. `LinesFit`: a line whose handling has
not begun has not run the job, and the user knows no outcome of it; an answer on
its way says what happened. `TaskFits`: the draft in hand was taken from the present
profile's drafts, its placement and its job were compared as far as the handler has
come, unless `raced`, and nothing ran before the POST. `PanelFits`: numbers above
`revision` are unused, and a panel in "sending" waits for an open confirmation.
With it `ConfirmationKept` maps `Run` and `RunOffline` to `Confirm`, `Post` to `Do`, and
an answer, a timeout or an interruption that the user is told of to `Tell`; all
other steps leave `times` and `told` alone. The lemmas `AppendLines`, `ConcatLines`,
`SplitLines` and `TailLines` say what the sequence operators do to the numbers in
a sequence.

### Personal Links

Three invariants, each for its own question.

`LinkTypes` types every variable and says of a draft that what it shows belongs to
whoever asked for it (`GoodDraft`).

`ReadInv` is about one commit between its reads. `TaskReads` says what the reads
so far have shown, as long as nothing happened in Rock meanwhile (`~task.raced`): the
draft is the account's (`OwnerFits`), the grants suffice for its kind and for a
section made on the way (`GrantsFit`), the record to delete is as it was shown and
holds the links that were counted, and the link to add is not in its section
(`TargetFits`). `DeletesShown`, `CommandsGranted` and `OnlyOwn` are `TaskReads` read at a
write. For `NoSecond` it is joined by `NumbersFit`: a record's number is used once,
so the link that a write stores is younger than all others.

`SayInv` says who knows what of a confirmation. `OnePlace`: the numbers of the lines in the queue,
in the live and in the lost half of the wire, of the line that is served and of
the answers are all different. `LinesFit` and `TaskSays`: until the handler has
written, the request has not happened, has no late write, and its user knows no
outcome; afterwards it has happened once. `AnswersFit`: an answer on its way is
true, and that of a request with a late write says that it is uncertain.
`LateFits`: a late write is the only one of its confirmation, which has not
happened and whose user knows no outcome. `PanelFits`: numbers above the counters
are unused. With it `LinksConfirm` maps `Save` and a command's commit to `Confirm`, the
writes and `LateWrite` to `Do`, and whatever ends a client's wait - an answer, a
reply to a command, its timeout, an interruption, the end of the broker - to `Tell`. A
write whose answer is lost does and tells in one step, which is why `Do` of
`ConfirmedAction` may tell.

### Updates, search, Magnus, shortcuts

`UpdateInv` has `WorkFits` (what each worker has established at the command it has
come to), `OfferFits` (what is asked of a worker was offered by a check), `LockFits` (one worker
holds the install lock) and `ShellFits`; the action properties follow from it at the
steps `Merge` and `Report`. `SearchInv` adds `AccessIsGranted`: a loaded answer of
the access check is the one of the latest complete check under the profile
(`granted`), also when an expired one is reused. What is read is then all that was asked
for and allowed (`ReadCovers`), and a category of it either failed and is named or
gave its page; that the others failed does not change that, since a record belongs
to one category (`PageApart`). `DeletionsMatchList` is inductive by itself.

`ShownRowsOpen` is a fact about a loop: an answer's rows are put into the registry one
by one, each to the end, and the oldest goes when it is full. `RegisterAllKeeps`
says that the rows of an answer that fits are the latest afterwards, and that all
others have moved back by no more than their number; `ReadKeepsRegistry` counts:
one answer shows at most a full list of links and `RowsPerCategory` rows of each
category, which is what the assumption on `RegistryLimit` allows for (256 against
200 links and 3 rows of each category in the code). `RegistryInv`
adds that the registry's entries are of the present profile and that `expected` is
true of Rock (`ExpectedIsTrue`); a list that was read then cannot contradict it.

In `Magnus`, `RegistryFits` types the registry with its owner; `BuildFits` says
that a build about to be posted has not been sent (`RequestFits`), that one which
was not confirmed was not sent either (`UnsentFit`), and of every receipt that its
build was accepted under the profile that lists it (`ReceiptsFit`); `DownloadFits`
says that the name a download writes to, or removes, is one it has created.

`ShortcutInv` adds `ReadFits`, what the point a change has come to says of the file
(one with the identity that was read is the file that was read; one with the
identity that was written has nothing in it that the rollback would undo), and `IconFits`: while
the icon is hidden, and nothing excuses it, no removal is under way, and what a
change has read and may put back has a shortcut. `SafeInv` adds `PanelFits`: as long as
the panel's view is "works" the file has a shortcut, by which the panel may hide
the icon.

### What the attempts at a proof showed

* Two properties of `PersonalLinks` held in their runs and were false beyond the
  runs' bounds. A section that the account deletes may hold links of others, which
  go with it: `OnlyOwnRecords` said that every deleted link is the account's. A link
  that others edit may become the double of one stored before: `NoSecondBookmark`
  spoke of such links as well. Both now say what the code does.
* `Receive` had two cases that could both apply, so that TLA+ left open which was
  meant; it now takes the condition of `accept` first, as the code does.
* The end of the broker left the request it served in place; it now ends it.

### Proofs about loops

The library's theorems of induction take an operator as a parameter and cannot be
used. The loops (`RegisterAll`, `Registering` in `LiveSearch` and `Magnus`) are recursive functions
of a number, and the induction takes a set for the statement: the numbers for
which it holds contain 0 and every successor, hence all of them, or else there
were a least one outside (`SetInduction` and `LeastNumber`, from `WFMin` and
`NatLessThanWellFounded`).

### Only model-checked

The liveness properties `BusyEnds`, `DialogBusyEnds` and `InstallEnds`, which are
out of the prover's reach. Every safety property that a run checks is also proved.

## 5. Where code and documentation differ

* `cookie_origin` (a run) - docs/ARCHITECTURE.md:200-201 says the cookie is attached
  "only to exact-origin HTTPS requests". Switching to a profile whose migration fails
  (`broker.py:560`) leaves Magnus and search at the previous profile's server while
  the session is the new one's.

The following were met while modelling and are behaviours of the models; no run is
kept for them.

* docs/CLI.md:144 says "`login` updates the active profile". After `profiles.json` is
  replaced and the instance pointer is not (`profiles.py:150`), the session's
  profile is not the active one, and `configure` saves for the former (`unsaved` in
  `ProfileLifecycle`).
* docs/ARCHITECTURE.md:168-169 says "a failed authenticated request clears the
  cached cookie". Jobs and Magnus do not (`jobs.py:102`, `magnus_adapter.py:266`).
* docs/ARCHITECTURE.md:215-217 and docs/VERIFICATION.md:338 say that a failing access
  check disables search until a retry. `searchable_categories` answers with the
  earlier check instead, also after its five minutes (`rock_rest_adapter.py:411`).
* docs/ARCHITECTURE.md:218 says that the caches of the check are cleared when
  credentials change. When the rename fails after `rock_configure` has saved another
  login, the handler returns before that (`broker_operations.py:442`): the access
  check, links and rows, and drafts, of the login before stay (`SignInUnfinished`).
* docs/CLI.md:86-88 says to use the id of one command in the next, and that ids are
  invalidated by a restart. Links answered from the cache are not registered again
  (`rock_rest_adapter.py:512`), so later searches may have pushed their ids out.
* docs/MAGNUS.md:110 and 115 say a receipt is recorded when Magnus accepts a build,
  independently of Recent Links. When reading or writing Recent Links fails first
  (`broker.py:528`), no receipt is stored.
* docs/ARCHITECTURE.md:67-68 says the rollback of a shortcut keeps a concurrent edit.
  One saved between the replacement and reading it back is removed by it
  (`shortcuts.py:454`; `unseen` in `Shortcuts`).

Without a sentence of the documentation against them:

* two failures in one `configure`, or death in the middle of it, leave a mixed pair;
* the two profiles of one server compete for its origin-keyed record;
* after an interrupted activation, items that Magnus has shown under another
  profile of the same server are still accepted (`broker.py:560`,
  `magnus_adapter.py:330`);
* the panel hides the menu icon by the shortcut it was last told of, and
  `_preferences_update` does not look again (`RockArchSettingsPanel.qml:73`,
  `broker_operations.py:551`): after a removal on the command line both may be gone
  (`PanelHidesIcon`, `excused`; docs/CLI.md:180 speaks of commands only);
* a queued `job_access` dropped with its dialog leaves `accessBusy` set until the next
  interruption or reset (`RockArchJobState.qml:25`);
* a status check that fails after an accepted run turns the dialog to "Close and try
  again" (`RockArchJobState.qml:70`);
* an update check whose first write of the state fails leaves "checking" in memory
  (`updates.py:228`), and one that ends after a worker's report replaces "updated"
  (`updates.py:250`).

## 6. Not modelled

| part | why |
|---|---|
| UI handoff (`broker.py:710-744`) | one pending request and a timer thread; what a late callback can lose is one request to open the panel |
| claiming the socket path (`server.py`) | needs two processes started within microseconds; the models take the rule that one handler runs at a time |
| coalescing and the other requests of the panel's connection | they only ask for a status, and the latest answer is as good as any |
| setup and account forms of the panel | their requests change nothing before the broker answers, and the handlers are in `ProfileLifecycle` |
| names, preferences, tab order, link groups, migration of the single-instance file (`profiles.py`) | values that no other state depends on |
| families of people, search terms, wording of rows | data; the outcome of every read is chosen freely instead |
| reading back damaged stores (`quick_return.py`, `build_receipts.py`) | a store that cannot be read counts as empty |
| ownership and mode checks of `shortcuts.py`, `shortcut_keymap.py` | the state of the file system and of libxkbcommon |
| knowledge base, Model Map | reads of public documentation: parsing and caching without shared state |
| command line, agent protocol | argument parsing and printing; the grants and the wait for an answer are in `PersonalLinks` |
| contracts, navigation, HTTP helpers, mock data, views | stateless, fixed or layout |

Worth proving next: that the limits of the code are never passed where no
property says so yet (the drafts of `PersonalLinks`, recent links and receipts), and
the steps that the liveness properties rest on (each step of a handler or worker
leads nearer to its end).
