------------------------------- MODULE LiveSearch ------------------------------
(***************************************************************************)
(* Search in Rock and the Personal Links list: the adapter with its        *)
(* registry of shown rows, its cached access check and its cached links    *)
(* (rock_rest_adapter.py), and the handlers that use it                    *)
(* (broker_operations.py, broker.py).                                      *)
(*                                                                         *)
(* The broker serves one request at a time.  The reads of one request run  *)
(* in parallel, but their results are taken in a fixed order while nothing *)
(* else touches the adapter, so a request is one step, in which every read *)
(* may succeed, be refused or fail.  A safe id is a keyed digest of the    *)
(* row, the same for every profile, so the row stands for its id.          *)
(***************************************************************************)
EXTENDS Naturals, Sequences, FiniteSets, SequencesExt

CONSTANTS
    Profiles,        \* profiles with a login
    Categories,      \* SEARCH_SPECS
    RecordsOf,       \* what Rock can find in a category
    Links, Shared,   \* Personal Links, and those of shared sections
    RegistryLimit,   \* MAX_TARGETS
    LinkLimit,       \* MAX_PERSONAL_LINKS
    RowsPerCategory, \* ROWS_PER_CATEGORY
    MaxChanges       \* bound: changes of links and preferences

NoProfile == "none"
All == "all"
Records == UNION {RecordsOf[c] : c \in Categories}
Rows == Records \cup Links

ASSUME LiveSearchBounds ==
    /\ IsFiniteSet(Categories) /\ IsFiniteSet(Records) /\ IsFiniteSet(Links)
    /\ DOMAIN RecordsOf = Categories /\ Records \cap Links = {} /\ Shared \subseteq Links
    /\ \A c, d \in Categories : c # d => RecordsOf[c] \cap RecordsOf[d] = {}
    /\ NoProfile \notin Profiles /\ All \notin Categories
    /\ {RegistryLimit, LinkLimit, RowsPerCategory, MaxChanges} \subseteq Nat
    /\ RegistryLimit >= LinkLimit + RowsPerCategory * Cardinality(Categories)

VARIABLES
    profile,    \* the selected profile that is signed in, if any
    enabled,    \* the preference enabledCategories
    registry,   \* _registry, least recent first; under which profile it was shown
    access,     \* _search_capabilities
    list,       \* _personal_links_cache
    deletions,  \* _personal_link_deletions
    answer,     \* an answer that is sent, if a property is about its kind
    bookmarks,  \* the links Rock has for who is signed in
    granted,    \* history: what the latest complete check under this profile allowed
    expected,   \* history: what acknowledged changes say of each link
    changes     \* changes of links and preferences so far

adapterVars == <<registry, access, list, deletions>>
rockVars == <<bookmarks, expected, changes>>
vars == <<profile, enabled, adapterVars, answer, rockVars, granted>>

NoAccess == [loaded |-> FALSE, fresh |-> FALSE, available |-> {}]
NoList == [loaded |-> FALSE, fresh |-> FALSE, rows |-> {}]
\* An answer, with what matches in Rock, which it need not say.
Answer(source, asked, read, missing, matching, rows, links) ==
    [source |-> source, asked |-> asked, read |-> read, unavailable |-> missing,
     matching |-> matching, rows |-> rows, links |-> links]
Unread(source, asked, missing) == Answer(source, asked, {}, missing, {}, {}, {})
NoAnswer == Unread("none", {}, {})

LiveSearchTypeOK ==
    /\ profile \in Profiles \cup {NoProfile} /\ enabled \subseteq Categories
    /\ Len(registry) <= RegistryLimit
    /\ IsInjective([i \in DOMAIN registry |-> registry[i].row])
    /\ \A i \in DOMAIN registry : registry[i].row \in Rows
    /\ access.available \subseteq Categories /\ (access.fresh => access.loaded)
    /\ list.rows \subseteq Links /\ (list.fresh => list.loaded)
    /\ Cardinality(list.rows) <= LinkLimit /\ deletions \subseteq Links
    /\ answer.unavailable \subseteq Categories \cup {"Personal Links"}
    /\ bookmarks \subseteq Links
    /\ granted \subseteq Categories /\ changes \in 0..MaxChanges

Init ==
    /\ profile \in Profiles \cup {NoProfile} /\ enabled = Categories
    /\ registry = <<>> /\ access = NoAccess /\ list = NoList /\ deletions = {}
    /\ answer = NoAnswer
    /\ bookmarks \in SUBSET Links
    /\ granted = {} /\ expected = [l \in Links |-> "unknown"] /\ changes = 0

Change == changes < MaxChanges /\ changes' = changes + 1

--------------------------------------------------------------------------------
(* The registry and the caches.                                            *)

Without(held, row) ==
    IF \E i \in DOMAIN held : held[i].row = row
    THEN RemoveAt(held, CHOOSE i \in DOMAIN held : held[i].row = row)
    ELSE held

\* Mutant: a row that is registered again keeps its place.
Register_KeepsPlace(held, row) ==
    IF \E i \in DOMAIN held : held[i].row = row THEN held
    ELSE LET all == Append(held, [row |-> row, under |-> profile])
         IN SubSeq(all, IF Len(all) > RegistryLimit THEN 2 ELSE 1, Len(all))

\* _register: the row becomes the latest, and the oldest one goes.
Register(held, row) ==
    LET all == Append(Without(held, row), [row |-> row, under |-> profile])
    IN SubSeq(all, IF Len(all) > RegistryLimit THEN 2 ELSE 1, Len(all))

\* The rows of an answer are registered one after the other.
Registering(held, rows) ==
    LET after[i \in 0..Len(rows)] == IF i = 0 THEN held ELSE Register(after[i - 1], rows[i])
    IN after
RegisterAll(held, rows) == Registering(held, rows)[Len(rows)]

Resolves(row) == \E i \in DOMAIN registry : registry[i].row = row

\* Mutant: what was shown stays.
Clear_KeepsRows ==
    access' = NoAccess /\ list' = NoList /\ deletions' = {} /\ UNCHANGED registry

\* clear, and what set_origin and set_profile_scope do.
Clear == registry' = <<>> /\ access' = NoAccess /\ list' = NoList /\ deletions' = {}

\* The profile is switched, signed in to or out of, or the context changes; who
\* is signed in has links of his own.
Activate(p) ==
    /\ profile' = p /\ Clear /\ answer' = NoAnswer /\ granted' = {}
    /\ bookmarks' \in SUBSET Links /\ expected' = [l \in Links |-> "unknown"]
    /\ UNCHANGED <<enabled, changes>>

\* _rock_configure, when another login has been saved for the profile and the
\* rename that follows fails, or saving it fails halfway and cannot be undone:
\* nobody tells the adapter. (If nobody was signed in there is nothing to clear.)
SignInUnfinished ==
    /\ profile # NoProfile /\ answer' = NoAnswer
    /\ bookmarks' \in SUBSET Links /\ expected' = [l \in Links |-> "unknown"]
    /\ UNCHANGED <<profile, enabled, adapterVars, changes, granted>>

FiveMinutes ==
    /\ access' = [access EXCEPT !.fresh = FALSE] /\ list' = [list EXCEPT !.fresh = FALSE]
    /\ answer' = NoAnswer
    /\ UNCHANGED <<profile, enabled, registry, deletions, rockVars, granted>>

SetCategories(s) ==
    /\ Change /\ enabled' = s /\ answer' = NoAnswer
    /\ UNCHANGED <<profile, adapterVars, bookmarks, expected, granted>>

--------------------------------------------------------------------------------
(* The access check.                                                       *)

\* searchable_categories: a failed read spoils a check, unless there is an
\* answer of an earlier one, however old.
Checked(force, cookie, outcome) ==
    IF ~force /\ access.loaded /\ access.fresh THEN [how |-> "cached", access |-> access]
    ELSE IF ~cookie THEN [how |-> "failed", access |-> access]
    ELSE IF \E c \in Categories : outcome[c] = "failed"
    THEN [how |-> IF access.loaded THEN "reused" ELSE "failed", access |-> access]
    ELSE [how |-> "complete",
          access |-> [loaded |-> TRUE, fresh |-> TRUE,
                      available |-> {c \in Categories : outcome[c] = "ok"}]]

Checks(force) ==
    {Checked(force, cookie, outcome) :
        cookie \in BOOLEAN, outcome \in [Categories -> {"ok", "denied", "failed"}]}

Keep(check) ==
    /\ access' = check.access
    /\ granted' = IF check.how = "complete" THEN check.access.available ELSE granted

\* _search_capabilities: the panel asks for it, and may ask for a new check.
CheckAccess(force) ==
    /\ profile # NoProfile
    /\ \E check \in Checks(force) : Keep(check)
    /\ answer' = NoAnswer
    /\ UNCHANGED <<profile, enabled, registry, list, deletions, rockVars>>

--------------------------------------------------------------------------------
(* Personal Links.                                                         *)

\* As many of Rock's links as the adapter takes.
Listed == LET s == SetToSeq(bookmarks)
          IN Range(SubSeq(s, 1, IF Len(s) > LinkLimit THEN LinkLimit ELSE Len(s)))

\* Mutant: the deletable links of the list before are kept.
Fetched_KeepsDeletions(held) ==
    [ok |-> TRUE, registry |-> RegisterAll(held, SetToSeq(Listed)),
     list |-> [loaded |-> TRUE, fresh |-> TRUE, rows |-> Listed],
     deletions |-> deletions \cup (Listed \ Shared)]

\* personal_links, when Rock answers; the user may delete his own links.
Fetched(held) ==
    [ok |-> TRUE, registry |-> RegisterAll(held, SetToSeq(Listed)),
     list |-> [loaded |-> TRUE, fresh |-> TRUE, rows |-> Listed],
     deletions |-> Listed \ Shared]

\* personal_links from the cache, and when the read fails.
Unchanged(ok, held) == [ok |-> ok, registry |-> held, list |-> list, deletions |-> deletions]

PersonalLinks(force, held) ==
    IF ~force /\ list.loaded /\ list.fresh THEN {Unchanged(TRUE, held)}
    ELSE {Fetched(held), Unchanged(FALSE, held)}

Hold(got) == registry' = got.registry /\ list' = got.list /\ deletions' = got.deletions

\* _navigation_status, when the panel opens.
ListLinks ==
    /\ profile # NoProfile
    /\ \E got \in PersonalLinks(TRUE, registry) :
         /\ Hold(got)
         /\ answer' = Answer("links", {}, {}, {}, {}, {}, IF got.ok THEN got.list.rows ELSE {})
    /\ UNCHANGED <<profile, enabled, access, rockVars, granted>>

\* Mutant: nobody tells the adapter.
Invalidate_Forgotten == UNCHANGED <<list, deletions>>

\* invalidate_personal_links.
Invalidate == list' = NoList /\ deletions' = {}

\* A save or a deletion that Rock applied; without its answer the adapter is
\* not told of it, and nothing is known.
ChangeLink(l, there, answered) ==
    /\ Change /\ profile # NoProfile
    /\ there => l \notin bookmarks /\ l \notin Shared
    /\ ~there => l \in deletions \cap bookmarks
    /\ bookmarks' = IF there THEN bookmarks \cup {l} ELSE bookmarks \ {l}
    /\ expected' = [expected EXCEPT ![l] =
         IF ~answered THEN "unknown" ELSE IF there THEN "there" ELSE "gone"]
    /\ IF answered THEN Invalidate ELSE UNCHANGED <<list, deletions>>
    /\ answer' = NoAnswer
    /\ UNCHANGED <<profile, enabled, registry, access, granted>>

\* The user, or who shares a section, changes a link in Rock itself.
OthersChangeLink(l) ==
    /\ Change /\ profile # NoProfile /\ answer' = NoAnswer
    /\ bookmarks' = IF l \in bookmarks THEN bookmarks \ {l} ELSE bookmarks \cup {l}
    /\ expected' = [expected EXCEPT ![l] = "unknown"]
    /\ UNCHANGED <<profile, enabled, adapterVars, granted>>

--------------------------------------------------------------------------------
(* Search.                                                                 *)

Asked(scope) == enabled \cap (IF scope = All THEN Categories ELSE {scope})

Refused(source, scope, missing) ==
    /\ answer' = Unread(source, Asked(scope), missing)
    /\ UNCHANGED <<profile, enabled, adapterVars, rockVars, granted>>

\* A category that is switched off, or nobody is signed in.
SearchNothing(scope) ==
    \/ scope \notin enabled \cup {All} /\ Refused("disabled", scope, {})
    \/ /\ scope \in enabled \cup {All} /\ profile = NoProfile
       /\ Refused("unavailable", scope, Asked(scope))

\* What Rock finds in a category: what matches, up to a page.
Page(found, matching, c) ==
    LET all == matching \cap RecordsOf[c]  some == found \cap RecordsOf[c] IN
    \/ some = all /\ Cardinality(some) <= RowsPerCategory
    \/ some \subseteq all /\ Cardinality(some) = RowsPerCategory

In(read) == UNION {RecordsOf[c] : c \in read}
Finds(read, matching) == {s \in SUBSET matching : \A c \in read : Page(s, matching, c)}

\* Every read failed: search raises and the handler names what it asked for.
ReadNothing(scope, read) ==
    /\ read # {} /\ answer' = Answer("unavailable", Asked(scope), read, read, {}, {}, {})
    /\ UNCHANGED <<registry, list, deletions>>

\* Mutant: a category whose read failed is passed over.
Missing_PassedOver(failed, got) == IF got THEN {} ELSE {"Personal Links"}

\* What the answer names as unavailable.
Missing(failed, got) == failed \cup IF got THEN {} ELSE {"Personal Links"}

\* search, then the links that match, unless one category was asked for. In a
\* category that could not be read anything may match, so everything does.
Read(scope, read) ==
    \E failed \in SUBSET read :
      /\ failed = read => read = {}
      /\ \E matching \in SUBSET In(read \ failed) : \E found \in Finds(read \ failed, matching) :
           LET held == RegisterAll(registry, SetToSeq(found)) IN
           IF scope = All
           THEN \E got \in PersonalLinks(FALSE, held) :
                  /\ Hold(got)
                  /\ answer' = Answer("live", Asked(scope), read, Missing(failed, got.ok),
                       matching \cup In(failed), found, IF got.ok THEN got.list.rows ELSE {})
           ELSE /\ registry' = held /\ UNCHANGED <<list, deletions>>
                /\ answer' = Answer("live", Asked(scope), read, Missing(failed, TRUE),
                     matching \cup In(failed), found, {})

\* Mutant: a single category is read without asking whether it is allowed.
Target_Scoped(scope, available) == IF scope = All THEN enabled \cap available ELSE {scope}

\* What is read of what was asked for.
Target(scope, available) == (IF scope = All THEN enabled ELSE {scope}) \cap available

\* _search: in all categories, if there are words to look for, or in one.
Search(scope) ==
    /\ scope \in enabled \cup {All} /\ profile # NoProfile
    /\ \E check \in Checks(FALSE) :
         LET read == Target(scope, check.access.available) IN
         /\ Keep(check)
         /\ \/ /\ check.how = "failed"
               /\ answer' = Unread("access_check_failed", Asked(scope), {})
               /\ UNCHANGED <<registry, list, deletions>>
            \/ /\ check.how # "failed" /\ scope # All /\ read = {}
               /\ answer' = Unread("not_authorized", Asked(scope), {})
               /\ UNCHANGED <<registry, list, deletions>>
            \/ /\ check.how # "failed" /\ scope = All
               /\ answer' = Unread("live", {}, {}) \* no words
               /\ UNCHANGED <<registry, list, deletions>>
            \/ /\ check.how # "failed" /\ (read = {} => scope = All)
               /\ ReadNothing(scope, read) \/ Read(scope, read)
    /\ UNCHANGED <<profile, enabled, rockVars>>

\* The answer is sent; only then another request is served (and time passes, or
\* somebody changes a link).
Send ==
    /\ answer # NoAnswer /\ answer' = NoAnswer
    /\ UNCHANGED <<profile, enabled, adapterVars, rockVars, granted>>

Next ==
    \/ Send
    \/ /\ answer = NoAnswer
       /\ \/ \E p \in Profiles \cup {NoProfile} : Activate(p)
          \/ \E s \in SUBSET Categories : SetCategories(s)
          \/ \E scope \in Categories \cup {All} : SearchNothing(scope)
          \/ \E scope \in Categories \cup {All} : Search(scope)
          \/ \E force \in BOOLEAN : CheckAccess(force)
          \/ \E l \in Links, there, answered \in BOOLEAN : ChangeLink(l, there, answered)
          \/ \E l \in Links : OthersChangeLink(l)
          \/ SignInUnfinished \/ FiveMinutes \/ ListLinks

Spec == Init /\ [][Next]_vars

--------------------------------------------------------------------------------
(* Properties.                                                             *)

\* A search reads only what is switched on and what the latest complete access
\* check under the profile allowed, and leaves nothing of that out in silence: in
\* each such category that was asked for, what matches is shown, up to a page, or
\* the category is named as unavailable, whatever was cached, refused or failing.
\* Only an answer that the access itself could not be checked names none.
SearchCoversTheAllowed ==
    /\ answer.read \subseteq enabled \cap granted
    /\ answer.source # "access_check_failed" =>
         \A c \in answer.asked \cap granted :
            \/ c \in answer.unavailable
            \/ c \in answer.read /\ Page(answer.rows, answer.matching, c)

\* Every record of an answer, and every link of a freshly read list, can be
\* opened: the registry has not dropped it for another row of that answer.
ShownRowsOpen ==
    \A row \in answer.rows \cup (IF answer.source = "links" THEN answer.links ELSE {}) :
        Resolves(row)

\* What can be opened, described or bookmarked by its id was shown under the
\* selected profile.
RowsOfTheProfile == \A i \in DOMAIN registry : registry[i].under = profile

\* The links that can be deleted by their ids are the user's own links of the
\* list that search uses, and none once that list is dropped.
DeletionsMatchList == deletions = list.rows \ Shared

\* A change of a link that Rock acknowledged shows in every list from then on,
\* cached or not, unless it is changed in Rock or the change is lost; a new link
\* is missing only from a list that is full.
ListFollowsChanges ==
    list.loaded => \A l \in Links :
        /\ expected[l] = "gone" => l \notin list.rows
        /\ expected[l] = "there" => l \in list.rows \/ Cardinality(list.rows) >= LinkLimit
================================================================================
