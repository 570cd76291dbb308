---------------------------- MODULE LiveSearchProofs ---------------------------
(***************************************************************************)
(* Proofs about search: it reads what is allowed and passes over none of   *)
(* it, what can be deleted is on the list, the rows just shown can be      *)
(* opened, the registry holds rows of the selected profile only, and the   *)
(* list follows acknowledged changes, for all profiles, categories,        *)
(* records, links and limits and any number of changes.                    *)
(*                                                                         *)
(* The invariant for the first is that a loaded answer of the access check *)
(* is the one of the latest complete check (AccessIsGranted), also when an *)
(* expired one is reused; the second needs no strengthening.  For the      *)
(* others it is RegistryInv: the registry is a sequence of entries of the  *)
(* present profile, no longer than its limit, and what an acknowledged     *)
(* change says of a link is so in Rock.  RegisterAllKeeps says what is     *)
(* left of the registry after a whole answer was put into it.              *)
(***************************************************************************)
EXTENDS LiveSearch, SequenceTheorems, FiniteSetTheorems, WellFoundedInduction, TLAPS

\* A cached access check is the latest complete one under the profile.
AccessIsGranted ==
    /\ access.loaded \in BOOLEAN
    /\ access.loaded => access.available = granted

SearchInv == AccessIsGranted /\ SearchCoversTheAllowed

\* The part of Read that follows its choices.
Found(scope, read, failed, matching, found) ==
    LET held == RegisterAll(registry, SetToSeq(found)) IN
    IF scope = All
    THEN \E got \in PersonalLinks(FALSE, held) :
           /\ Hold(got)
           /\ answer' = Answer("live", Asked(scope), read, Missing(failed, got.ok),
                matching \cup In(failed), found, IF got.ok THEN got.list.rows ELSE {})
    ELSE /\ registry' = held /\ UNCHANGED <<list, deletions>>
         /\ answer' = Answer("live", Asked(scope), read, Missing(failed, TRUE),
              matching \cup In(failed), found, {})

--------------------------------------------------------------------------------
(* The access check.                                                       *)

\* A check that has not failed says what the latest complete one allowed,
\* which is itself if it is complete (searchable_categories).
LEMMA CheckedIsGranted ==
    ASSUME AccessIsGranted, NEW force \in BOOLEAN, NEW check \in Checks(force), Keep(check)
    PROVE  /\ AccessIsGranted'
           /\ check.how # "failed" => check.access.available = granted'
<1>1. PICK cookie \in BOOLEAN, outcome \in [Categories -> {"ok", "denied", "failed"}] :
         check = Checked(force, cookie, outcome)
  BY DEF Checks
<1>2. CASE ~force /\ access.loaded /\ access.fresh
  <2>1. check = [how |-> "cached", access |-> access]
    BY <1>1, <1>2 DEF Checked
  <2> QED BY <1>2, <2>1 DEF Keep, AccessIsGranted
<1>3. CASE ~(~force /\ access.loaded /\ access.fresh) /\ ~cookie
  <2>1. check = [how |-> "failed", access |-> access]
    BY <1>1, <1>3 DEF Checked
  <2> QED BY <2>1 DEF Keep, AccessIsGranted
<1>4. CASE /\ ~(~force /\ access.loaded /\ access.fresh) /\ cookie
           /\ \E c \in Categories : outcome[c] = "failed"
  <2>1. check = [how |-> IF access.loaded THEN "reused" ELSE "failed", access |-> access]
    BY <1>1, <1>4 DEF Checked
  <2>2. granted' = granted /\ access' = access
    BY <2>1 DEF Keep
  <2> QED BY <2>1, <2>2 DEF AccessIsGranted
<1>5. CASE /\ ~(~force /\ access.loaded /\ access.fresh) /\ cookie
           /\ ~\E c \in Categories : outcome[c] = "failed"
  <2>1. check = [how |-> "complete", access |-> [loaded |-> TRUE, fresh |-> TRUE,
                    available |-> {c \in Categories : outcome[c] = "ok"}]]
    BY <1>1, <1>5 DEF Checked
  <2>2. access'.loaded = TRUE /\ access'.available = granted'
    BY <2>1 DEF Keep
  <2> QED BY <2>1, <2>2 DEF Keep, AccessIsGranted
<1> QED BY <1>2, <1>3, <1>4, <1>5

--------------------------------------------------------------------------------
(* The invariant.                                                          *)

\* An answer for which nothing was read says so of all that was allowed.
LEMMA UnreadCovers ==
    ASSUME answer'.read = {},
           \/ answer'.source = "access_check_failed"
           \/ answer'.asked \cap granted' \subseteq answer'.unavailable
    PROVE  SearchCoversTheAllowed'
BY DEF SearchCoversTheAllowed

LEMMA NothingCovers ==
    ASSUME answer' = NoAnswer
    PROVE  SearchCoversTheAllowed'
BY UnreadCovers DEF NoAnswer, Unread, Answer

LEMMA SearchInvInit == Init => SearchInv
BY DEF Init, SearchInv, AccessIsGranted, SearchCoversTheAllowed, NoAccess, NoAnswer, Unread, Answer

\* Records belong to one category, so what may match in those that could not
\* be read changes nothing in the others.
LEMMA PageApart ==
    ASSUME NEW c \in Categories, NEW failed \in SUBSET Categories, c \notin failed,
           NEW found, NEW matching, Page(found, matching, c)
    PROVE  Page(found, matching \cup In(failed), c)
<1>1. In(failed) \cap RecordsOf[c] = {}
  BY LiveSearchBounds DEF In
<1>2. (matching \cup In(failed)) \cap RecordsOf[c] = matching \cap RecordsOf[c]
  BY <1>1
<1> QED BY <1>2 DEF Page

LEMMA FoundAnswers ==
    ASSUME NEW scope, NEW read, NEW failed, NEW matching, NEW found,
           Found(scope, read, failed, matching, found)
    PROVE  /\ answer'.source = "live" /\ answer'.asked = Asked(scope) /\ answer'.read = read
           /\ failed \subseteq answer'.unavailable
           /\ answer'.matching = matching \cup In(failed) /\ answer'.rows = found
<1>1. PICK got \in BOOLEAN : \E links :
        answer' = Answer("live", Asked(scope), read, Missing(failed, got),
                         matching \cup In(failed), found, links)
  <2>1. CASE scope = All
    <3>1. PICK got \in PersonalLinks(FALSE, RegisterAll(registry, SetToSeq(found))) :
            answer' = Answer("live", Asked(scope), read, Missing(failed, got.ok),
                 matching \cup In(failed), found, IF got.ok THEN got.list.rows ELSE {})
      BY <2>1 DEF Found
    <3>2. got.ok = TRUE \/ got.ok = FALSE
      <4> DEFINE held == RegisterAll(registry, SetToSeq(found))
      <4>1. got \in PersonalLinks(FALSE, held)
        BY <3>1
      <4> HIDE DEF held
      <4>2. got = Unchanged(TRUE, held) \/ got = Fetched(held) \/ got = Unchanged(FALSE, held)
        BY <4>1 DEF PersonalLinks
      <4> QED BY <4>2 DEF Fetched, Unchanged
    <3> QED BY <3>1, <3>2
  <2>2. CASE scope # All
    BY <2>2 DEF Found
  <2> QED BY <2>1, <2>2
<1>2. failed \subseteq Missing(failed, got)
  BY DEF Missing
<1> QED BY <1>1, <1>2 DEF Answer

\* What was asked for and is allowed is the target of the search; each category
\* of it failed and is named, or gave its page (search).
LEMMA ReadCovers ==
    ASSUME NEW scope \in enabled \cup {All}, enabled \subseteq Categories, NEW read,
           read = Target(scope, granted'), UNCHANGED enabled, Read(scope, read)
    PROVE  SearchCoversTheAllowed'
<1>1. PICK failed \in SUBSET read : \E matching \in SUBSET In(read \ failed) :
         \E found \in Finds(read \ failed, matching) : Found(scope, read, failed, matching, found)
  BY DEF Read, Found
<1>2. PICK matching \in SUBSET In(read \ failed) :
         \E found \in Finds(read \ failed, matching) : Found(scope, read, failed, matching, found)
  BY <1>1
<1>3. PICK found \in Finds(read \ failed, matching) : Found(scope, read, failed, matching, found)
  BY <1>2
<1>4. /\ answer'.asked = Asked(scope) /\ answer'.read = read /\ failed \subseteq answer'.unavailable
      /\ answer'.matching = matching \cup In(failed) /\ answer'.rows = found
  BY <1>3, FoundAnswers
<1>5. read \subseteq enabled \cap granted' /\ Asked(scope) \cap granted' \subseteq read
  BY DEF Target, Asked
<1>6. ASSUME NEW c \in answer'.asked \cap granted', c \notin answer'.unavailable
      PROVE  c \in answer'.read /\ Page(answer'.rows, answer'.matching, c)
  <2>1. c \in read \ failed /\ c \in Categories /\ failed \subseteq Categories
    BY <1>4, <1>5, <1>6
  <2>2. Page(found, matching, c)
    BY <2>1 DEF Finds
  <2>3. Page(found, matching \cup In(failed), c)
    BY <2>1, <2>2, PageApart
  <2> QED BY <1>4, <2>1, <2>3
<1> QED BY <1>4, <1>5, <1>6 DEF SearchCoversTheAllowed

LEMMA SearchKeepsInv ==
    ASSUME SearchInv, enabled \subseteq Categories,
           NEW scope \in Categories \cup {All}, Search(scope)
    PROVE  SearchInv'
<1>1. PICK check \in Checks(FALSE) :
         LET read == Target(scope, check.access.available) IN
         /\ Keep(check)
         /\ \/ answer' = Unread("access_check_failed", Asked(scope), {})
            \/ /\ check.how # "failed" /\ read = {}
               /\ answer' = Unread("not_authorized", Asked(scope), {})
            \/ answer' = Unread("live", {}, {})
            \/ check.how # "failed" /\ (ReadNothing(scope, read) \/ Read(scope, read))
  BY DEF Search
<1> DEFINE read == Target(scope, check.access.available)
<1>2. /\ AccessIsGranted'
      /\ check.how # "failed" => check.access.available = granted'
  BY <1>1, CheckedIsGranted DEF SearchInv
<1>3. enabled' = enabled /\ scope \in enabled \cup {All}
  BY DEF Search
<1>4. ASSUME check.how # "failed"
      PROVE  read \subseteq enabled \cap granted' /\ Asked(scope) \cap granted' \subseteq read
  BY <1>2, <1>3, <1>4 DEF Target, Asked
<1>5. CASE answer' = Unread("access_check_failed", Asked(scope), {}) \/ answer' = Unread("live", {}, {})
  BY <1>2, <1>5, UnreadCovers DEF SearchInv, Unread, Answer
<1>6. CASE check.how # "failed" /\ read = {} /\ answer' = Unread("not_authorized", Asked(scope), {})
  BY <1>2, <1>4, <1>6, UnreadCovers DEF SearchInv, Unread, Answer
<1>7. CASE check.how # "failed" /\ ReadNothing(scope, read)
  <2>1. answer'.read = read /\ answer'.asked = Asked(scope) /\ answer'.unavailable = read
    BY <1>7 DEF ReadNothing, Answer
  <2> QED BY <1>2, <1>3, <1>4, <1>7, <2>1 DEF SearchInv, SearchCoversTheAllowed
<1>8. CASE check.how # "failed" /\ Read(scope, read)
  <2>1. read = Target(scope, granted')
    BY <1>2, <1>8
  <2> QED BY <1>2, <1>3, <1>8, <2>1, ReadCovers DEF SearchInv
<1> QED BY <1>1, <1>5, <1>6, <1>7, <1>8

LEMMA SearchInvNext ==
    ASSUME SearchInv, enabled \subseteq Categories, [Next]_vars
    PROVE  SearchInv'
<1> USE DEF SearchInv
<1>1. ASSUME NEW p \in Profiles \cup {NoProfile}, Activate(p) PROVE SearchInv'
  BY <1>1, NothingCovers DEF Activate, Clear, AccessIsGranted, NoAccess
<1>2. ASSUME UNCHANGED <<access, granted>>, answer' = NoAnswer PROVE SearchInv'
  BY <1>2, NothingCovers DEF AccessIsGranted
<1>3. ASSUME NEW scope \in Categories \cup {All}, SearchNothing(scope) PROVE SearchInv'
  <2>1. UNCHANGED <<access, granted>>
    BY <1>3 DEF SearchNothing, Refused, adapterVars
  <2>2. /\ answer'.read = {} /\ answer'.asked = Asked(scope)
        /\ answer'.unavailable = Asked(scope) \/ (scope \notin enabled \cup {All})
    BY <1>3 DEF SearchNothing, Refused, Unread, Answer
  <2>3. scope \notin enabled \cup {All} => Asked(scope) = {}
    BY DEF Asked
  <2> QED BY <2>1, <2>2, <2>3, UnreadCovers DEF AccessIsGranted
<1>4. ASSUME NEW scope \in Categories \cup {All}, Search(scope) PROVE SearchInv'
  BY <1>4, SearchKeepsInv
<1>5. ASSUME NEW force \in BOOLEAN, CheckAccess(force) PROVE SearchInv'
  BY <1>5, CheckedIsGranted, NothingCovers DEF CheckAccess
<1>6. ASSUME \/ \E s \in SUBSET Categories : SetCategories(s)
             \/ \E l \in Links, there, answered \in BOOLEAN : ChangeLink(l, there, answered)
             \/ \E l \in Links : OthersChangeLink(l)
             \/ SignInUnfinished \/ Send
      PROVE  SearchInv'
  BY <1>2, <1>6 DEF SetCategories, ChangeLink, OthersChangeLink, SignInUnfinished, Send, adapterVars
<1>7. CASE FiveMinutes
  <2>1. access' = [access EXCEPT !.fresh = FALSE] /\ granted' = granted /\ answer' = NoAnswer
    BY <1>7 DEF FiveMinutes
  <2>2. access'.loaded = access.loaded /\ access'.available = access.available
    BY <2>1
  <2> QED BY <2>1, <2>2, NothingCovers DEF AccessIsGranted
<1>8. CASE ListLinks
  <2>1. answer'.read = {} /\ answer'.asked = {}
    BY <1>8 DEF ListLinks, Answer
  <2> QED BY <1>8, <2>1, UnreadCovers DEF ListLinks, AccessIsGranted
<1>9. CASE UNCHANGED vars
  BY <1>9 DEF vars, adapterVars, AccessIsGranted, SearchCoversTheAllowed
<1> QED BY <1>1, <1>3, <1>4, <1>5, <1>6, <1>7, <1>8, <1>9 DEF Next

LEMMA EnabledNext ==
    ASSUME enabled \subseteq Categories, [Next]_vars
    PROVE  enabled' \subseteq Categories
BY DEF Next, vars, Activate, SetCategories, SearchNothing, Refused, Search, CheckAccess, ChangeLink,
   OthersChangeLink, SignInUnfinished, FiveMinutes, ListLinks, Send

\* Whatever is cached, expired, refused or failing: what is read is switched on
\* and allowed by the latest complete access check under the profile, and of what
\* is, nothing that was asked for is missing from the answer without being named
\* (_search, search and searchable_categories).
THEOREM SearchCovers == Spec => []SearchCoversTheAllowed
<1> DEFINE I == SearchInv /\ enabled \subseteq Categories
<1>1. Init => I
  BY SearchInvInit DEF Init
<1>2. I /\ [Next]_vars => I'
  BY SearchInvNext, EnabledNext
<1>3. I => SearchCoversTheAllowed
  BY DEF SearchInv
<1> QED BY <1>1, <1>2, <1>3, PTL DEF Spec

--------------------------------------------------------------------------------
(* Deletions.                                                              *)

\* What personal_links answers, its list and its deletions go together.
LEMMA ListsMatch ==
    ASSUME DeletionsMatchList, NEW force, NEW held, NEW got \in PersonalLinks(force, held), Hold(got)
    PROVE  DeletionsMatchList'
BY DEF PersonalLinks, Fetched, Unchanged, Hold, DeletionsMatchList

LEMMA DeletionsInit == Init => DeletionsMatchList
BY DEF Init, NoList, DeletionsMatchList

LEMMA DeletionsNext == DeletionsMatchList /\ [Next]_vars => DeletionsMatchList'
<1> SUFFICES ASSUME DeletionsMatchList, [Next]_vars PROVE DeletionsMatchList'
  OBVIOUS
<1>1. ASSUME NEW p \in Profiles \cup {NoProfile}, Activate(p) PROVE DeletionsMatchList'
  BY <1>1 DEF Activate, Clear, NoList, DeletionsMatchList
<1>2. ASSUME NEW scope \in Categories \cup {All}, Search(scope)
      PROVE DeletionsMatchList'
  <2>1. ASSUME NEW read, Read(scope, read) PROVE DeletionsMatchList'
    BY <2>1, ListsMatch DEF Read, DeletionsMatchList
  <2>2. ASSUME UNCHANGED <<list, deletions>> PROVE DeletionsMatchList'
    BY <2>2 DEF DeletionsMatchList
  <2> QED BY <1>2, <2>1, <2>2 DEF Search, ReadNothing
<1>3. CASE ListLinks
  BY <1>3, ListsMatch DEF ListLinks
<1>4. ASSUME NEW l \in Links, NEW there \in BOOLEAN, NEW answered \in BOOLEAN,
             ChangeLink(l, there, answered)
      PROVE DeletionsMatchList'
  BY <1>4 DEF ChangeLink, Invalidate, NoList, DeletionsMatchList
<1>5. CASE FiveMinutes
  <2>1. list' = [list EXCEPT !.fresh = FALSE] /\ deletions' = deletions
    BY <1>5 DEF FiveMinutes
  <2>2. list'.rows = list.rows
    BY <2>1
  <2> QED BY <2>1, <2>2 DEF DeletionsMatchList
<1>6. ASSUME \/ \E s \in SUBSET Categories : SetCategories(s)
             \/ \E scope \in Categories \cup {All} : SearchNothing(scope)
             \/ \E force \in BOOLEAN : CheckAccess(force)
             \/ \E l \in Links : OthersChangeLink(l)
             \/ SignInUnfinished \/ Send
             \/ UNCHANGED vars
      PROVE DeletionsMatchList'
  BY <1>6 DEF SetCategories, SearchNothing, Refused, CheckAccess, OthersChangeLink,
     SignInUnfinished, Send, vars, adapterVars, DeletionsMatchList
<1> QED BY <1>1, <1>2, <1>3, <1>4, <1>5, <1>6 DEF Next

\* A deletion id names one of the user's own links of the list in use, and
\* none when there is no list (personal_links, invalidate_personal_links).
THEOREM DeletionsMatch == Spec => []DeletionsMatchList
BY DeletionsInit, DeletionsNext, PTL DEF Spec

--------------------------------------------------------------------------------
(* Natural numbers and sequences.                                          *)

LEMMA LeastNumber ==
    ASSUME NEW T, T \subseteq Nat, T # {}
    PROVE  \E n \in T : \A k \in T : n <= k
<1> DEFINE R == OpToRel(<, Nat)
<1>1. IsWellFoundedOn(R, Nat)
  BY NatLessThanWellFounded
<1>2. \A n, k \in Nat : k < n => <<k, n>> \in R
  BY DEF OpToRel
<1> HIDE DEF R
<1>3. PICK n \in T : \A k \in T : ~ (<<k, n>> \in R)
  BY <1>1, WFMin
<1>4. \A k \in T : ~ (k < n)
  BY <1>2, <1>3
<1> QED BY <1>4

\* Induction over the natural numbers, for a set of them.
LEMMA SetInduction ==
    ASSUME NEW T, 0 \in T, \A n \in Nat : n \in T => n + 1 \in T
    PROVE  Nat \subseteq T
<1> DEFINE rest == {n \in Nat : n \notin T}
<1>1. ASSUME rest # {} PROVE FALSE
  <2>1. PICK n \in rest : \A k \in rest : n <= k
    BY <1>1, LeastNumber
  <2>2. n # 0 /\ n - 1 \in Nat /\ n - 1 \notin rest
    BY <2>1
  <2> QED BY <2>1, <2>2
<1> QED BY <1>1

LEMMA RemoveAtProperties ==
    ASSUME NEW S, NEW s \in Seq(S), NEW k \in 1..Len(s)
    PROVE  /\ RemoveAt(s, k) \in Seq(S) /\ Len(RemoveAt(s, k)) = Len(s) - 1
           /\ \A i \in 1..(Len(s) - 1) :
                RemoveAt(s, k)[i] = IF i < k THEN s[i] ELSE s[i + 1]
<1> DEFINE a == SubSeq(s, 1, k - 1)  b == SubSeq(s, k + 1, Len(s))
<1>1. Len(s) \in Nat /\ k \in Nat /\ 1 <= k /\ k <= Len(s)
  OBVIOUS
<1>2. a \in Seq(S) /\ Len(a) = k - 1 /\ \A i \in 1..(k - 1) : a[i] = s[i]
  BY <1>1, SubSeqProperties
<1>3. b \in Seq(S) /\ Len(b) = Len(s) - k
  BY <1>1, SubSeqProperties
<1>4. \A i \in 1..(Len(s) - k) : b[i] = s[k + i]
  <2> SUFFICES ASSUME NEW i \in 1..(Len(s) - k) PROVE b[i] = s[k + i]
    OBVIOUS
  <2>1. b[i] = s[(k + 1) + i - 1]
    BY <1>1, SubSeqProperties
  <2> QED BY <1>1, <2>1
<1>5. RemoveAt(s, k) = a \o b
  BY DEF RemoveAt
<1> HIDE DEF a, b
<1>6. /\ a \o b \in Seq(S) /\ Len(a \o b) = Len(a) + Len(b)
      /\ \A i \in 1..(Len(a) + Len(b)) : (a \o b)[i] = IF i <= Len(a) THEN a[i] ELSE b[i - Len(a)]
  BY <1>2, <1>3, ConcatProperties
<1>7. ASSUME NEW i \in 1..(Len(s) - 1) PROVE (a \o b)[i] = IF i < k THEN s[i] ELSE s[i + 1]
  <2>1. CASE i < k
    <3>1. i <= Len(a) /\ i \in 1..(Len(a) + Len(b)) /\ i \in 1..(k - 1)
      BY <1>1, <1>2, <1>3, <2>1
    <3> QED BY <1>2, <1>6, <2>1, <3>1
  <2>2. CASE ~(i < k)
    <3>1. /\ ~(i <= Len(a)) /\ i \in 1..(Len(a) + Len(b)) /\ i - Len(a) \in 1..(Len(s) - k)
          /\ k + (i - Len(a)) = i + 1
      BY <1>1, <1>2, <1>3, <2>2
    <3> QED BY <1>4, <1>6, <2>2, <3>1
  <2> QED BY <2>1, <2>2
<1> QED BY <1>1, <1>2, <1>3, <1>5, <1>6, <1>7

--------------------------------------------------------------------------------
(* The registry.                                                           *)

Entry == [row : Rows, under : Profiles \cup {NoProfile}]
Typed(held) == held \in Seq(Entry) /\ Len(held) <= RegistryLimit
OfTheProfile(held) == \A i \in 1..Len(held) : held[i].under = profile

\* The row is among the latest n.
Within(held, n, row) == \E i \in 1..Len(held) : held[i].row = row /\ Len(held) - i < n

\* Without takes out one entry, of the row if there is one; the others come no
\* further from the end.
LEMMA WithoutKeeps ==
    ASSUME NEW held \in Seq(Entry), NEW row, NEW kept, kept = Without(held, row)
    PROVE  /\ kept \in Seq(Entry) /\ Len(kept) <= Len(held)
           /\ \A i \in 1..Len(kept) : \E j \in 1..Len(held) : kept[i] = held[j]
           /\ \A j \in 1..Len(held) : held[j].row # row =>
                \E i \in 1..Len(kept) : kept[i] = held[j] /\ Len(kept) - i <= Len(held) - j
           /\ (\E j \in 1..Len(held) : held[j].row = row) => Len(kept) = Len(held) - 1
<1>1. Len(held) \in Nat /\ DOMAIN held = 1..Len(held)
  OBVIOUS
<1>2. CASE \E i \in DOMAIN held : held[i].row = row
  <2> DEFINE k == CHOOSE i \in DOMAIN held : held[i].row = row
  <2>1. k \in 1..Len(held) /\ held[k].row = row
    BY <1>1, <1>2
  <2>2. kept = RemoveAt(held, k)
    BY <1>2 DEF Without
  <2> HIDE DEF k
  <2>3. /\ kept \in Seq(Entry) /\ Len(kept) = Len(held) - 1
        /\ \A i \in 1..(Len(held) - 1) : kept[i] = IF i < k THEN held[i] ELSE held[i + 1]
    BY <2>1, <2>2, RemoveAtProperties
  <2>4. ASSUME NEW i \in 1..Len(kept) PROVE \E j \in 1..Len(held) : kept[i] = held[j]
    <3>1. i \in 1..Len(held) /\ i + 1 \in 1..Len(held)
      BY <1>1, <2>3
    <3> QED BY <2>3, <3>1
  <2>5. ASSUME NEW j \in 1..Len(held), held[j].row # row
        PROVE  \E i \in 1..Len(kept) : kept[i] = held[j] /\ Len(kept) - i <= Len(held) - j
    <3>1. CASE j < k
      <4>1. j \in 1..Len(kept) /\ kept[j] = held[j]
        BY <1>1, <2>1, <2>3, <3>1
      <4> QED BY <1>1, <2>3, <4>1
    <3>2. CASE j > k
      <4>1. j - 1 \in 1..Len(kept) /\ ~(j - 1 < k) /\ (j - 1) + 1 = j
        BY <1>1, <2>1, <2>3, <3>2
      <4>2. kept[j - 1] = held[j]
        BY <2>3, <4>1
      <4> QED BY <1>1, <2>3, <4>1, <4>2
    <3> QED BY <2>1, <2>5, <3>1, <3>2
  <2>6. Len(kept) <= Len(held)
    BY <1>1, <2>3
  <2> QED BY <2>3, <2>4, <2>5, <2>6
<1>3. CASE ~\E i \in DOMAIN held : held[i].row = row
  <2>1. kept = held
    BY <1>3 DEF Without
  <2>2. \A i \in 1..Len(held) : held[i] = held[i] /\ Len(held) - i <= Len(held) - i
    BY <1>1
  <2>3. ~\E j \in 1..Len(held) : held[j].row = row
    BY <1>1, <1>3
  <2>4. Len(kept) <= Len(held)
    BY <1>1, <2>1
  <2> QED BY <2>1, <2>2, <2>3, <2>4
<1> QED BY <1>2, <1>3

\* _register: the registry stays typed and within its limit, holds what was
\* shown before and the new entry, which is the latest; others move back by one.
LEMMA RegisterKeeps ==
    ASSUME NEW held, Typed(held), profile \in Profiles \cup {NoProfile}, NEW row \in Rows,
           NEW new, new = Register(held, row)
    PROVE  /\ Typed(new)
           /\ OfTheProfile(held) => OfTheProfile(new)
           /\ RegistryLimit >= 1 => Within(new, 1, row)
           /\ \A n \in Nat, other \in Rows :
                n < RegistryLimit /\ Within(held, n, other) => Within(new, n + 1, other)
<1> DEFINE kept == Without(held, row)  entry == [row |-> row, under |-> profile]
           all == Append(kept, entry)
           first == IF Len(all) > RegistryLimit THEN 2 ELSE 1
<1>1. held \in Seq(Entry) /\ entry \in Entry /\ Len(held) \in Nat /\ Len(held) <= RegistryLimit
  BY DEF Typed, Entry
<1>2. RegistryLimit \in Nat
  BY LiveSearchBounds
<1>3. /\ kept \in Seq(Entry) /\ Len(kept) \in Nat /\ Len(kept) <= RegistryLimit
      /\ \A i \in 1..Len(kept) : \E j \in 1..Len(held) : kept[i] = held[j]
      /\ \A j \in 1..Len(held) : held[j].row # row =>
           \E i \in 1..Len(kept) : kept[i] = held[j] /\ Len(kept) - i <= Len(held) - j
  BY <1>1, <1>2, WithoutKeeps, LenProperties
<1> HIDE DEF kept, entry
<1>4. /\ all \in Seq(Entry) /\ Len(all) = Len(kept) + 1
      /\ \A i \in 1..Len(kept) : all[i] = kept[i]
      /\ all[Len(kept) + 1] = entry
  BY <1>1, <1>3, AppendProperties
<1>a. Len(kept) \in Nat /\ Len(kept) <= RegistryLimit /\ Len(all) = Len(kept) + 1
  BY <1>3, <1>4
<1>5. new = SubSeq(all, first, Len(all)) /\ first \in {1, 2}
  BY DEF Register, kept, entry
<1> HIDE DEF all
<1>b. \/ first = 2 /\ Len(all) = RegistryLimit + 1
      \/ first = 1 /\ Len(all) <= RegistryLimit
  BY <1>2, <1>a
<1> HIDE DEF first
<1>6. \A i \in first..Len(all) : all[i] \in Entry
  BY <1>3, <1>4, <1>5, ElementOfSeq
<1>7. /\ new \in Seq(Entry) /\ Len(new) = Len(all) - first + 1
      /\ \A i \in 1..(Len(all) - first + 1) : new[i] = all[first + i - 1]
  <2>1. first \in Int /\ Len(all) \in Int
    BY <1>3, <1>4, <1>5
  <2>2. (IF first <= Len(all) THEN Len(all) - first + 1 ELSE 0) = Len(all) - first + 1
    BY <1>2, <1>a, <1>b
  <2>3. /\ SubSeq(all, first, Len(all)) \in Seq(Entry)
        /\ Len(SubSeq(all, first, Len(all))) = IF first <= Len(all) THEN Len(all) - first + 1 ELSE 0
        /\ \A i \in 1..(Len(all) - first + 1) : SubSeq(all, first, Len(all))[i] = all[first + i - 1]
    BY <1>6, <2>1, SubSeqProperties
  <2> QED BY <1>5, <2>2, <2>3
<1>8. Len(new) <= RegistryLimit
  BY <1>2, <1>a, <1>b, <1>7
<1>9. ASSUME OfTheProfile(held) PROVE OfTheProfile(new)
  <2> SUFFICES ASSUME NEW i \in 1..Len(new) PROVE new[i].under = profile
    BY DEF OfTheProfile
  <2> DEFINE m == first + i - 1
  <2>1. m \in 1..(Len(kept) + 1) /\ new[i] = all[m]
    BY <1>3, <1>4, <1>5, <1>7
  <2>2. CASE m \in 1..Len(kept)
    <3>1. PICK j \in 1..Len(held) : kept[m] = held[j]
      BY <1>3, <2>2
    <3> QED BY <1>4, <1>9, <2>1, <2>2, <3>1 DEF OfTheProfile
  <2>3. CASE m = Len(kept) + 1
    BY <1>4, <2>1, <2>3 DEF entry
  <2> QED BY <1>3, <2>1, <2>2, <2>3
<1>10. ASSUME RegistryLimit >= 1 PROVE Within(new, 1, row)
  <2>1. Len(new) \in 1..Len(new) /\ first + Len(new) - 1 = Len(kept) + 1
    BY <1>2, <1>a, <1>b, <1>7, <1>10
  <2>2. new[Len(new)] = entry
    BY <1>4, <1>7, <2>1
  <2> QED BY <1>3, <1>4, <1>7, <2>1, <2>2 DEF Within, entry
<1>11. ASSUME NEW n \in Nat, NEW other \in Rows, n < RegistryLimit, Within(held, n, other)
       PROVE  Within(new, n + 1, other)
  <2>1. CASE other = row
    <3>1. Within(new, 1, row)
      BY <1>2, <1>10, <1>11
    <3> QED BY <1>7, <2>1, <3>1 DEF Within
  <2>2. CASE other # row
    <3>1. PICK j \in 1..Len(held) : held[j].row = other /\ Len(held) - j < n
      BY <1>11 DEF Within
    <3>2. PICK i \in 1..Len(kept) : kept[i] = held[j] /\ Len(kept) - i <= Len(held) - j
      BY <1>3, <2>2, <3>1
    <3> DEFINE m == i - first + 1
    <3> DEFINE d == Len(kept) - i
    <3>a. i \in Nat /\ 1 <= i /\ i <= Len(kept) /\ d < n
      BY <1>1, <1>3, <3>1, <3>2
    <3>b. i >= first
      BY <1>2, <1>a, <1>b, <1>11, <3>a
    <3>3. m \in 1..Len(new) /\ first + m - 1 = i /\ Len(new) - m < n + 1
      BY <1>a, <1>b, <1>5, <1>7, <3>a, <3>b
    <3>4. new[m].row = other
      BY <1>4, <1>7, <3>1, <3>2, <3>3
    <3> QED BY <3>3, <3>4 DEF Within
  <2> QED BY <2>1, <2>2
<1> QED BY <1>7, <1>8, <1>9, <1>10, <1>11 DEF Typed

\* The loop over the rows of an answer has a result after each row.
LEMMA RegisteringIs ==
    ASSUME NEW held, NEW rows \in Seq(Rows), NEW after, after = Registering(held, rows)
    PROVE  /\ after[0] = held
           /\ \A i \in 1..Len(rows) : after[i] = Register(after[i - 1], rows[i])
<1> DEFINE Loop(f, n) == f = [i \in 0..n |-> IF i = 0 THEN held ELSE Register(f[i - 1], rows[i])]
           T == {n \in Nat : \E f : Loop(f, n)}
<1>1. 0 \in T
  <2> DEFINE f == [i \in 0..0 |-> held]
  <2>1. \A i \in 0..0 : i = 0
    OBVIOUS
  <2>2. Loop(f, 0)
    BY <2>1
  <2> QED BY <2>2
<1>2. ASSUME NEW n \in Nat, n \in T PROVE n + 1 \in T
  <2>1. PICK f : Loop(f, n)
    BY <1>2
  <2> DEFINE g == [i \in 0..(n + 1) |-> IF i <= n THEN f[i] ELSE Register(f[n], rows[n + 1])]
             h == [i \in 0..(n + 1) |-> IF i = 0 THEN held ELSE Register(g[i - 1], rows[i])]
  <2>2. ASSUME NEW i \in 0..(n + 1) PROVE g[i] = h[i]
    <3>1. CASE i = 0
      <4>1. f[0] = held
        BY <2>1
      <4> QED BY <3>1, <4>1
    <3>2. CASE i \in 1..n
      <4>1. i \in 0..n /\ i - 1 \in 0..n /\ i - 1 \in 0..(n + 1) /\ i - 1 <= n /\ i <= n /\ i # 0
        BY <3>2
      <4>2. f[i] = Register(f[i - 1], rows[i])
        BY <2>1, <4>1
      <4>3. g[i] = f[i] /\ g[i - 1] = f[i - 1] /\ h[i] = Register(g[i - 1], rows[i])
        BY <4>1
      <4> QED BY <4>2, <4>3
    <3>3. CASE i = n + 1
      <4>1. i # 0 /\ i - 1 = n /\ n \in 0..(n + 1) /\ ~(i <= n)
        BY <3>3
      <4>2. g[i] = Register(f[n], rows[n + 1]) /\ g[n] = f[n] /\ h[i] = Register(g[n], rows[n + 1])
        BY <3>3, <4>1
      <4> QED BY <4>2
    <3>4. i = 0 \/ i \in 1..n \/ i = n + 1
      OBVIOUS
    <3> QED BY <3>1, <3>2, <3>3, <3>4
  <2>3. g = h
    BY <2>2
  <2>4. Loop(g, n + 1)
    BY <2>3
  <2>5. n + 1 \in Nat
    OBVIOUS
  <2> HIDE DEF g, Loop
  <2> QED BY <2>4, <2>5
<1>3. Len(rows) \in T
  <2> HIDE DEF T
  <2>1. Len(rows) \in Nat
    OBVIOUS
  <2> QED BY <1>1, <1>2, <2>1, SetInduction
<1>4. after = CHOOSE f : Loop(f, Len(rows))
  BY DEF Registering
<1>5. Loop(after, Len(rows))
  BY <1>3, <1>4
<1>6. Len(rows) \in Nat
  OBVIOUS
<1>7. after[0] = held
  BY <1>5, <1>6
<1>8. ASSUME NEW i \in 1..Len(rows) PROVE after[i] = Register(after[i - 1], rows[i])
  BY <1>5, <1>6
<1> QED BY <1>7, <1>8

\* After all rows of an answer: the registry is typed and of the profile, the
\* answer's rows are the latest if they fit, and others move back by as many.
LEMMA RegisterAllKeeps ==
    ASSUME NEW held, Typed(held), profile \in Profiles \cup {NoProfile},
           NEW rows \in Seq(Rows), NEW new, new = RegisterAll(held, rows)
    PROVE  /\ Typed(new)
           /\ OfTheProfile(held) => OfTheProfile(new)
           /\ Len(rows) <= RegistryLimit => \A j \in 1..Len(rows) : Within(new, Len(rows), rows[j])
           /\ \A n \in Nat, other \in Rows :
                n + Len(rows) <= RegistryLimit /\ Within(held, n, other) =>
                    Within(new, n + Len(rows), other)
<1> DEFINE after == Registering(held, rows)
           Keeps(i) ==
             /\ Typed(after[i])
             /\ OfTheProfile(held) => OfTheProfile(after[i])
             /\ i <= RegistryLimit => \A j \in 1..i : Within(after[i], i + 1 - j, rows[j])
             /\ \A n \in Nat, other \in Rows :
                  n + i <= RegistryLimit /\ Within(held, n, other) => Within(after[i], n + i, other)
           T == {i \in Nat : i <= Len(rows) => Keeps(i)}
<1>1. Len(rows) \in Nat /\ RegistryLimit \in Nat
  BY LiveSearchBounds
<1>2. /\ after[0] = held
      /\ \A i \in 1..Len(rows) : after[i] = Register(after[i - 1], rows[i])
  BY RegisteringIs
<1> HIDE DEF after
<1>3. 0 \in T
  <2>1. \A n \in Nat : n + 0 = n
    OBVIOUS
  <2>2. 1..0 = {}
    OBVIOUS
  <2> QED BY <1>2, <2>1, <2>2
<1>4. ASSUME NEW i \in Nat, i \in T PROVE i + 1 \in T
  <2> SUFFICES ASSUME i + 1 <= Len(rows) PROVE Keeps(i + 1)
    OBVIOUS
  <2>1. Keeps(i) /\ i + 1 \in 1..Len(rows) /\ rows[i + 1] \in Rows /\ (i + 1) - 1 = i
    BY <1>1, <1>4
  <2>2. after[i + 1] = Register(after[i], rows[i + 1])
    BY <1>2, <2>1
  <2>3. /\ Typed(after[i + 1])
        /\ OfTheProfile(after[i]) => OfTheProfile(after[i + 1])
        /\ RegistryLimit >= 1 => Within(after[i + 1], 1, rows[i + 1])
        /\ \A n \in Nat, other \in Rows :
             n < RegistryLimit /\ Within(after[i], n, other) => Within(after[i + 1], n + 1, other)
    BY <2>1, <2>2, RegisterKeeps
  <2>4. ASSUME i + 1 <= RegistryLimit, NEW j \in 1..(i + 1)
        PROVE  Within(after[i + 1], (i + 1) + 1 - j, rows[j])
    <3>1. CASE j = i + 1
      <4>1. (i + 1) + 1 - j = 1 /\ RegistryLimit >= 1
        BY <1>1, <2>4, <3>1
      <4> QED BY <2>3, <3>1, <4>1
    <3>2. CASE j \in 1..i
      <4>1. /\ i + 1 - j \in Nat /\ i + 1 - j < RegistryLimit /\ (i + 1 - j) + 1 = (i + 1) + 1 - j
            /\ i <= RegistryLimit /\ j \in 1..Len(rows)
        BY <1>1, <2>1, <2>4, <3>2
      <4>2. Within(after[i], i + 1 - j, rows[j]) /\ rows[j] \in Rows
        BY <2>1, <3>2, <4>1
      <4>3. Within(after[i + 1], (i + 1 - j) + 1, rows[j])
        BY <2>3, <4>1, <4>2
      <4> QED BY <4>1, <4>3
    <3> QED BY <3>1, <3>2
  <2>5. ASSUME NEW n \in Nat, NEW other \in Rows, n + (i + 1) <= RegistryLimit, Within(held, n, other)
        PROVE  Within(after[i + 1], n + (i + 1), other)
    <3>1. n + i <= RegistryLimit /\ n + i < RegistryLimit /\ n + i \in Nat /\ (n + i) + 1 = n + (i + 1)
      BY <1>1, <2>5
    <3>2. Within(after[i], n + i, other)
      BY <2>1, <2>5, <3>1
    <3>3. Within(after[i + 1], (n + i) + 1, other)
      BY <2>3, <3>1, <3>2
    <3> QED BY <3>1, <3>3
  <2> QED BY <2>1, <2>3, <2>4, <2>5
<1>5. Keeps(Len(rows))
  <2>1. T \subseteq Nat
    OBVIOUS
  <2>2. Len(rows) \in T
    <3> HIDE DEF T
    <3> QED BY <1>1, <1>3, <1>4, SetInduction
  <2> QED BY <1>1, <2>2
<1>6. new = after[Len(rows)]
  BY DEF RegisterAll, after
<1>7. Typed(new)
  BY <1>5, <1>6
<1>8. ASSUME Len(rows) <= RegistryLimit, NEW j \in 1..Len(rows) PROVE Within(new, Len(rows), rows[j])
  <2>1. Within(new, Len(rows) + 1 - j, rows[j])
    BY <1>5, <1>6, <1>8
  <2>2. PICK i \in 1..Len(new) : new[i].row = rows[j] /\ Len(new) - i < Len(rows) + 1 - j
    BY <2>1 DEF Within
  <2>3. Len(new) \in Nat
    BY <1>7 DEF Typed
  <2>4. Len(new) - i < Len(rows)
    BY <1>1, <2>2, <2>3
  <2> QED BY <2>2, <2>4 DEF Within
<1> QED BY <1>5, <1>6, <1>7, <1>8

--------------------------------------------------------------------------------
(* Finite sets of rows.                                                    *)

LEMMA SetToSeqProperties ==
    ASSUME NEW S, IsFiniteSet(S), NEW s, s = SetToSeq(S)
    PROVE  /\ s \in Seq(S) /\ Len(s) = Cardinality(S) /\ IsInjective(s)
           /\ \A x \in S : \E i \in 1..Len(s) : s[i] = x
<1> DEFINE n == Cardinality(S)
<1>1. n \in Nat /\ ExistsBijection(1..n, S)
  BY FS_CardinalityType
<1>2. PICK f \in Bijection(1..n, S) : TRUE
  BY <1>1 DEF ExistsBijection
<1>3. f \in [1..n -> S] /\ IsInjective(f)
  BY <1>2 DEF Bijection, Injection
<1>4. s \in [1..n -> S] /\ IsInjective(s)
  BY <1>3 DEF SetToSeq
<1>5. IsFiniteSet(1..n) /\ Cardinality(1..n) = n
  BY <1>1, FS_Interval
<1>6. s \in Injection(1..n, S)
  BY <1>4 DEF Injection
<1>7. s \in Surjection(1..n, S)
  BY <1>5, <1>6, FS_Injection
<1>8. s \in Seq(S) /\ Len(s) = n
  BY <1>1, <1>4
<1>9. \A x \in S : \E i \in 1..n : s[i] = x
  BY <1>7 DEF Surjection
<1> QED BY <1>4, <1>8, <1>9

\* If each of some categories contributes at most RowsPerCategory rows, then
\* they all contribute at most so many times their number.
LEMMA FoundInCategories ==
    ASSUME NEW n \in Nat, NEW C \in SUBSET Categories, Cardinality(C) = n,
           NEW found \in SUBSET UNION {RecordsOf[c] : c \in C},
           \A c \in C : Cardinality(found \cap RecordsOf[c]) <= RowsPerCategory
    PROVE  IsFiniteSet(found) /\ Cardinality(found) <= RowsPerCategory * n
<1> DEFINE Bounded(D, k) == \A s \in SUBSET UNION {RecordsOf[c] : c \in D} :
             (\A c \in D : Cardinality(s \cap RecordsOf[c]) <= RowsPerCategory) =>
                Cardinality(s) <= RowsPerCategory * k
           T == {k \in Nat : \A D \in SUBSET Categories : Cardinality(D) = k => Bounded(D, k)}
<1>1. RowsPerCategory \in Nat
  BY LiveSearchBounds
<1>2. ASSUME NEW D \in SUBSET Categories
      PROVE  IsFiniteSet(D) /\ UNION {RecordsOf[c] : c \in D} \subseteq Records
  <2>1. IsFiniteSet(D)
    BY FS_Subset, LiveSearchBounds
  <2> QED BY <2>1 DEF Records
<1>3. ASSUME NEW s, s \subseteq Records PROVE IsFiniteSet(s)
  BY <1>3, FS_Subset, LiveSearchBounds
<1>4. 0 \in T
  <2> SUFFICES ASSUME NEW D \in SUBSET Categories, Cardinality(D) = 0,
                      NEW s \in SUBSET UNION {RecordsOf[c] : c \in D}
               PROVE  Cardinality(s) <= RowsPerCategory * 0
    OBVIOUS
  <2>1. D = {}
    BY <1>2, FS_EmptySet
  <2>2. s = {}
    BY <2>1
  <2>3. Cardinality(s) = 0
    BY <2>2, FS_EmptySet
  <2> QED BY <1>1, <2>3
<1>5. ASSUME NEW k \in Nat, k \in T PROVE k + 1 \in T
  <2> SUFFICES ASSUME NEW D \in SUBSET Categories, Cardinality(D) = k + 1,
                      NEW s \in SUBSET UNION {RecordsOf[c] : c \in D},
                      \A c \in D : Cardinality(s \cap RecordsOf[c]) <= RowsPerCategory
               PROVE  Cardinality(s) <= RowsPerCategory * (k + 1)
    OBVIOUS
  <2>1. PICK c \in D : TRUE
    <3>1. ASSUME D = {} PROVE FALSE
      <4>1. Cardinality(D) = 0
        BY <3>1, FS_EmptySet
      <4> QED BY <4>1
    <3> QED BY <3>1
  <2> DEFINE E == D \ {c}  there == s \cap RecordsOf[c]  rest == s \ RecordsOf[c]
  <2>2. E \in SUBSET Categories /\ Cardinality(E) = k
    <3>1. Cardinality(D \ {c}) = IF c \in D THEN Cardinality(D) - 1 ELSE Cardinality(D)
      BY <1>2, FS_RemoveElement
    <3>2. Cardinality(E) = (k + 1) - 1
      BY <2>1, <3>1
    <3> QED BY <3>2
  <2>3. IsFiniteSet(s) /\ IsFiniteSet(there) /\ IsFiniteSet(rest)
    <3>1. s \subseteq Records /\ there \subseteq Records /\ rest \subseteq Records
      BY <1>2
    <3> QED BY <1>3, <3>1
  <2>4. rest \in SUBSET UNION {RecordsOf[d] : d \in E}
    OBVIOUS
  <2>5. ASSUME NEW d \in E PROVE Cardinality(rest \cap RecordsOf[d]) <= RowsPerCategory
    <3>1. IsFiniteSet(s \cap RecordsOf[d]) /\ rest \cap RecordsOf[d] \subseteq s \cap RecordsOf[d]
      BY <2>3, FS_Intersection
    <3>2. /\ Cardinality(rest \cap RecordsOf[d]) <= Cardinality(s \cap RecordsOf[d])
          /\ IsFiniteSet(rest \cap RecordsOf[d])
      BY <3>1, FS_Subset
    <3>3. Cardinality(rest \cap RecordsOf[d]) \in Nat /\ Cardinality(s \cap RecordsOf[d]) \in Nat
      BY <3>1, <3>2, FS_CardinalityType
    <3>4. Cardinality(s \cap RecordsOf[d]) <= RowsPerCategory
      OBVIOUS
    <3> QED BY <1>1, <3>2, <3>3, <3>4
  <2>6. Cardinality(rest) <= RowsPerCategory * k
    <3>1. Bounded(E, k)
      BY <1>5, <2>2
    <3> QED BY <2>4, <2>5, <3>1
  <2>7. Cardinality(there) <= RowsPerCategory
    BY <2>1
  <2>8. Cardinality(s) = Cardinality(there) + Cardinality(rest)
    <3>1. s = there \cup rest /\ there \cap rest = {}
      OBVIOUS
    <3>2. Cardinality(there \cap rest) = 0
      BY <3>1, FS_EmptySet
    <3>3. Cardinality(there \cup rest) = Cardinality(there) + Cardinality(rest) - 0
      BY <2>3, <3>2, FS_Union
    <3>4. Cardinality(there) \in Nat /\ Cardinality(rest) \in Nat
      BY <2>3, FS_CardinalityType
    <3>5. Cardinality(s) = Cardinality(there) + Cardinality(rest) - 0
      BY <3>1, <3>3
    <3> HIDE DEF there, rest
    <3> QED BY <3>4, <3>5
  <2>9. Cardinality(there) \in Nat /\ Cardinality(rest) \in Nat
    BY <2>3, FS_CardinalityType
  <2>10. RowsPerCategory * (k + 1) = RowsPerCategory * k + RowsPerCategory /\ RowsPerCategory * k \in Nat
    BY <1>1
  <2> HIDE DEF there, rest
  <2> QED BY <1>1, <2>6, <2>7, <2>8, <2>9, <2>10
<1>6. n \in T
  <2> HIDE DEF T
  <2> QED BY <1>4, <1>5, SetInduction
<1>7. found \subseteq Records
  BY <1>2
<1> QED BY <1>3, <1>6, <1>7

\* What is found in one answer fits into the registry with the links of a list.
LEMMA FoundFits ==
    ASSUME NEW read \in SUBSET Categories, NEW matching \in SUBSET In(read),
           NEW found \in Finds(read, matching)
    PROVE  /\ found \subseteq Rows /\ IsFiniteSet(found)
           /\ Cardinality(found) + LinkLimit <= RegistryLimit
<1> DEFINE n == Cardinality(read)  m == Cardinality(Categories)
<1>1. IsFiniteSet(read) /\ n <= m
  BY FS_Subset, LiveSearchBounds
<1>2. n \in Nat /\ m \in Nat
  BY <1>1, FS_CardinalityType, LiveSearchBounds
<1>3. /\ found \in SUBSET UNION {RecordsOf[c] : c \in read}
      /\ \A c \in read : Cardinality(found \cap RecordsOf[c]) <= RowsPerCategory
  <2>1. /\ found \subseteq matching /\ matching \subseteq UNION {RecordsOf[c] : c \in read}
        /\ \A c \in read : Page(found, matching, c)
    BY DEF Finds, In
  <2>2. ASSUME NEW c \in read PROVE Cardinality(found \cap RecordsOf[c]) <= RowsPerCategory
    <3>1. CASE Cardinality(found \cap RecordsOf[c]) = RowsPerCategory
      <4>1. RowsPerCategory \in Nat
        BY LiveSearchBounds
      <4> QED BY <3>1, <4>1
    <3>2. CASE Cardinality(found \cap RecordsOf[c]) <= RowsPerCategory
      BY <3>2
    <3> QED BY <2>1, <3>1, <3>2 DEF Page
  <2> QED BY <2>1, <2>2
<1>4. IsFiniteSet(found) /\ Cardinality(found) <= RowsPerCategory * n
  BY <1>2, <1>3, FoundInCategories
<1>5. Cardinality(found) \in Nat
  BY <1>4, FS_CardinalityType
<1>6. /\ {RegistryLimit, LinkLimit, RowsPerCategory} \subseteq Nat
      /\ RegistryLimit >= LinkLimit + RowsPerCategory * m
  BY LiveSearchBounds
<1>7. RowsPerCategory * n <= RowsPerCategory * m
  <2>1. PICK d \in Nat : m = n + d
    <3>1. m - n \in Nat /\ m = n + (m - n)
      BY <1>1, <1>2
    <3> QED BY <3>1
  <2>2. RowsPerCategory * (n + d) = RowsPerCategory * n + RowsPerCategory * d
    BY <1>2, <1>6, <2>1
  <2>3. RowsPerCategory * n \in Nat /\ RowsPerCategory * d \in Nat
    BY <1>2, <1>6, <2>1
  <2> QED BY <2>1, <2>2, <2>3
<1>8. RowsPerCategory * n \in Nat /\ RowsPerCategory * m \in Nat
  BY <1>2, <1>6
<1>9. Cardinality(found) + LinkLimit <= RegistryLimit
  <2> HIDE DEF n, m
  <2> QED BY <1>4, <1>5, <1>6, <1>7, <1>8
<1>10. found \subseteq Rows
  BY <1>3 DEF Rows, Records
<1> QED BY <1>4, <1>9, <1>10

LEMMA PrefixProperties ==
    ASSUME NEW S, NEW s \in Seq(S), NEW n \in 0..Len(s)
    PROVE  /\ SubSeq(s, 1, n) \in Seq(S) /\ Len(SubSeq(s, 1, n)) = n
           /\ \A i \in 1..n : SubSeq(s, 1, n)[i] = s[i]
<1>1. Len(s) \in Nat /\ n \in Nat /\ n <= Len(s)
  OBVIOUS
<1> QED BY <1>1, SubSeqProperties

\* The links the adapter takes are Rock's, all of them unless the list is full.
LEMMA ListedIs ==
    ASSUME IsFiniteSet(bookmarks), bookmarks \subseteq Links
    PROVE  /\ Listed \subseteq bookmarks /\ IsFiniteSet(Listed)
           /\ Cardinality(Listed) <= LinkLimit
           /\ Listed = bookmarks \/ Cardinality(Listed) >= LinkLimit
<1> DEFINE B == bookmarks  s == SetToSeq(B)
           n == IF Len(s) > LinkLimit THEN LinkLimit ELSE Len(s)
           t == SubSeq(s, 1, n)
<1>1. /\ s \in Seq(B) /\ Len(s) = Cardinality(B)
      /\ \A x \in B : \E i \in 1..Len(s) : s[i] = x
      /\ IsInjective(s)
  BY SetToSeqProperties
<1>2. s \in [1..Len(s) -> B]
  BY <1>1, LenProperties
<1>3. Listed = Range(t)
  BY DEF Listed
<1> HIDE DEF s
<1>4. LinkLimit \in Nat /\ Len(s) \in Nat
  BY <1>1, LiveSearchBounds
<1>5. n \in Nat /\ n <= Len(s) /\ n <= LinkLimit /\ (n = Len(s) \/ n = LinkLimit)
  BY <1>4
<1> HIDE DEF n
<1>6. /\ t \in Seq(B) /\ Len(t) = n
      /\ \A i \in 1..n : t[i] = s[i]
  <2>1. n \in 0..Len(s)
    BY <1>4, <1>5
  <2> HIDE DEF B
  <2> QED BY <1>1, <2>1, PrefixProperties
<1> HIDE DEF t
<1>7. t \in [1..n -> B] /\ DOMAIN t = 1..n
  BY <1>5, <1>6
<1>8. Listed = {t[i] : i \in 1..n}
  BY <1>3, <1>7 DEF Range
<1>9. Listed \subseteq B
  BY <1>7, <1>8
<1>10. t \in Bijection(1..n, Listed)
  <2>1. t \in [1..n -> Listed]
    BY <1>7, <1>8
  <2>2. \A i, j \in 1..n : t[i] = t[j] => i = j
    BY <1>1, <1>2, <1>4, <1>5, <1>6 DEF IsInjective
  <2> QED BY <1>7, <1>8, <2>1, <2>2 DEF Bijection, Injection, Surjection, IsInjective
<1>11. IsFiniteSet(Listed) /\ Cardinality(Listed) = n
  <2>1. ExistsBijection(1..n, Listed)
    BY <1>10 DEF ExistsBijection
  <2>2. Cardinality(Listed) = n
    BY <1>5, <2>1, FS_CountingElements
  <2>3. IsFiniteSet(Listed)
    BY <1>9, FS_Subset
  <2> QED BY <2>2, <2>3
<1>12. n = Len(s) => B \subseteq Listed
  BY <1>1, <1>6, <1>8
<1> QED BY <1>4, <1>5, <1>9, <1>11, <1>12

--------------------------------------------------------------------------------
(* What is shown can be opened, and lists follow changes.                  *)

Shown(held, row) == \E i \in 1..Len(held) : held[i].row = row

\* What acknowledged changes say of a link is so in Rock.
ExpectedIsTrue ==
    \A l \in Links :
        /\ expected[l] = "there" => profile # NoProfile /\ l \in bookmarks
        /\ expected[l] = "gone" => profile # NoProfile /\ l \notin bookmarks

\* A list answers to what acknowledged changes say.
Follows(held) ==
    \A l \in Links :
        /\ expected[l] = "gone" => l \notin held.rows
        /\ expected[l] = "there" => l \in held.rows \/ Cardinality(held.rows) >= LinkLimit

RegistryInv ==
    /\ profile \in Profiles \cup {NoProfile} /\ enabled \subseteq Categories
    /\ bookmarks \subseteq Links
    /\ expected \in [Links -> {"unknown", "there", "gone"}]
    /\ Typed(registry) /\ RowsOfTheProfile
    /\ ShownRowsOpen
    /\ ExpectedIsTrue
    /\ ListFollowsChanges

LEMMA TypedRegistry ==
    ASSUME NEW held, Typed(held)
    PROVE  Len(held) \in Nat /\ DOMAIN held = 1..Len(held)
BY LenProperties DEF Typed

LEMMA RegistryIs ==
    ASSUME Typed(registry)
    PROVE  /\ RowsOfTheProfile <=> OfTheProfile(registry)
           /\ \A row : Resolves(row) <=> Shown(registry, row)
<1>1. DOMAIN registry = 1..Len(registry)
  BY TypedRegistry
<1> QED BY <1>1 DEF RowsOfTheProfile, OfTheProfile, Resolves, Shown

LEMMA RegistryIsNext ==
    ASSUME Typed(registry')
    PROVE  /\ RowsOfTheProfile' <=> \A i \in 1..Len(registry') : registry'[i].under = profile'
           /\ \A row : Resolves(row)' <=> Shown(registry', row)
<1>1. DOMAIN registry' = 1..Len(registry')
  BY TypedRegistry
<1> QED BY <1>1 DEF RowsOfTheProfile, Resolves, Shown

\* personal_links: what it answers, read or cached, keeps to the profile and
\* follows the changes; the links that are read are registered, and push out
\* nothing that is among the latest of a search.
LEMMA PersonalLinksKeep ==
    ASSUME RegistryInv, profile # NoProfile, NEW force \in BOOLEAN,
           NEW held, Typed(held), OfTheProfile(held), NEW got \in PersonalLinks(force, held)
    PROVE  /\ Typed(got.registry) /\ OfTheProfile(got.registry)
           /\ got.list = list \/ Follows(got.list)
           /\ \A n \in Nat, row \in Rows :
                n + LinkLimit <= RegistryLimit /\ Within(held, n, row) => Shown(got.registry, row)
           /\ force /\ got.ok => \A l \in got.list.rows : Shown(got.registry, l)
<1>1. CASE \E ok \in BOOLEAN : got = Unchanged(ok, held) /\ (force => ~ok)
  <2>1. got.registry = held /\ got.list = list /\ (force => ~got.ok)
    BY <1>1 DEF Unchanged
  <2>2. \A n \in Nat, row \in Rows : Within(held, n, row) => Shown(held, row)
    BY DEF Within, Shown
  <2> QED BY <2>1, <2>2
<1>2. CASE got = Fetched(held)
  <2> DEFINE rows == SetToSeq(Listed)
  <2>1. got.registry = RegisterAll(held, rows) /\ got.list.rows = Listed
    BY <1>2 DEF Fetched
  <2>2. bookmarks \subseteq Links /\ IsFiniteSet(bookmarks)
    <3>1. bookmarks \subseteq Links
      BY DEF RegistryInv
    <3> QED BY <3>1, FS_Subset, LiveSearchBounds
  <2>3. /\ Listed \subseteq bookmarks /\ IsFiniteSet(Listed)
        /\ Cardinality(Listed) <= LinkLimit
        /\ Listed = bookmarks \/ Cardinality(Listed) >= LinkLimit
    BY <2>2, ListedIs
  <2>4. /\ rows \in Seq(Listed) /\ Len(rows) = Cardinality(Listed)
        /\ \A x \in Listed : \E i \in 1..Len(rows) : rows[i] = x
    BY <2>3, SetToSeqProperties
  <2>5. Listed \subseteq Rows
    BY <2>2, <2>3 DEF Rows
  <2>6. rows \in Seq(Rows) /\ Len(rows) \in Nat
    BY <2>4, <2>5, SeqMonotonic
  <2> HIDE DEF rows
  <2>7. profile \in Profiles \cup {NoProfile}
    BY DEF RegistryInv
  <2>8. LinkLimit \in Nat /\ RegistryLimit \in Nat /\ LinkLimit <= RegistryLimit
    <3> DEFINE m == Cardinality(Categories)
    <3>1. /\ {RegistryLimit, LinkLimit, RowsPerCategory} \subseteq Nat
          /\ RegistryLimit >= LinkLimit + RowsPerCategory * m
      BY LiveSearchBounds
    <3>2. m \in Nat
      BY FS_CardinalityType, LiveSearchBounds
    <3>3. RowsPerCategory * m \in Nat
      BY <3>1, <3>2
    <3> HIDE DEF m
    <3> QED BY <3>1, <3>3
  <2>9. /\ Typed(got.registry) /\ OfTheProfile(got.registry)
        /\ Len(rows) <= RegistryLimit =>
              \A j \in 1..Len(rows) : Within(got.registry, Len(rows), rows[j])
        /\ \A n \in Nat, other \in Rows :
             n + Len(rows) <= RegistryLimit /\ Within(held, n, other) =>
                Within(got.registry, n + Len(rows), other)
    BY <2>1, <2>6, <2>7, RegisterAllKeeps
  <2>10. Len(rows) <= LinkLimit
    BY <2>3, <2>4
  <2>11. ASSUME NEW n \in Nat, NEW row \in Rows, n + LinkLimit <= RegistryLimit, Within(held, n, row)
         PROVE  Shown(got.registry, row)
    <3>1. n + Len(rows) <= RegistryLimit
      BY <2>6, <2>8, <2>10, <2>11
    <3> QED BY <2>9, <2>11, <3>1 DEF Within, Shown
  <2>12. ASSUME NEW l \in Listed PROVE Shown(got.registry, l)
    <3>1. PICK j \in 1..Len(rows) : rows[j] = l
      BY <2>4
    <3>2. Len(rows) <= RegistryLimit
      BY <2>6, <2>8, <2>10
    <3> QED BY <2>9, <3>1, <3>2 DEF Within, Shown
  <2>13. Follows(got.list)
    BY <2>1, <2>3 DEF Follows, RegistryInv, ExpectedIsTrue
  <2> QED BY <2>1, <2>9, <2>11, <2>12, <2>13
<1>3. got = Fetched(held) \/ \E ok \in BOOLEAN : got = Unchanged(ok, held) /\ (force => ~ok)
  BY DEF PersonalLinks
<1> QED BY <1>1, <1>2, <1>3

LEMMA RegistryInvInit == Init => RegistryInv
<1> SUFFICES ASSUME Init PROVE RegistryInv
  OBVIOUS
<1>1. registry = <<>> /\ Typed(registry) /\ Len(registry) = 0 /\ DOMAIN registry = {}
  <2>1. <<>> \in Seq(Entry) /\ Len(<<>>) = 0 /\ DOMAIN <<>> = {}
    BY EmptySeq
  <2> QED BY <2>1, LiveSearchBounds DEF Init, Typed
<1>2. answer.rows = {} /\ answer.source = "none" /\ ~list.loaded
  BY DEF Init, NoAnswer, Unread, Answer, NoList
<1> QED BY <1>1, <1>2 DEF Init, RegistryInv, RowsOfTheProfile, ShownRowsOpen, ExpectedIsTrue, ListFollowsChanges

\* Steps that leave the registry, or empty it with the switch of the profile.
LEMMA NoAnswerOpens ==
    ASSUME answer'.rows = {}, answer'.source # "links" \/ answer'.links = {}
    PROVE  ShownRowsOpen'
BY DEF ShownRowsOpen

LEMMA ActivateKeepsRegistry ==
    ASSUME RegistryInv, NEW p \in Profiles \cup {NoProfile}, Activate(p)
    PROVE  RegistryInv'
<1>1. registry' = <<>> /\ profile' = p /\ bookmarks' \subseteq Links /\ list'.loaded = FALSE
      /\ expected' = [l \in Links |-> "unknown"] /\ answer' = NoAnswer
  BY DEF Activate, Clear, NoList
<1>e. enabled' = enabled
  BY DEF Activate
<1>2. Typed(registry') /\ Len(registry') = 0 /\ DOMAIN registry' = {}
  <2>1. <<>> \in Seq(Entry) /\ Len(<<>>) = 0 /\ DOMAIN <<>> = {}
    BY EmptySeq
  <2> QED BY <1>1, <2>1, LiveSearchBounds DEF Typed
<1>3. ShownRowsOpen'
  BY <1>1, NoAnswerOpens DEF NoAnswer, Unread, Answer
<1> QED BY <1>1, <1>e, <1>2, <1>3 DEF RegistryInv, RowsOfTheProfile, ExpectedIsTrue, ListFollowsChanges, Typed

\* The answer of a search: what was found is registered, then the links.
LEMMA ReadKeepsRegistry ==
    ASSUME RegistryInv, profile # NoProfile, NEW scope, NEW read \in SUBSET Categories,
           Read(scope, read), UNCHANGED <<profile, enabled, rockVars>>
    PROVE  RegistryInv'
<1>1. PICK failed \in SUBSET read : \E matching \in SUBSET In(read \ failed) :
         \E found \in Finds(read \ failed, matching) : Found(scope, read, failed, matching, found)
  BY DEF Read, Found
<1>2. PICK matching \in SUBSET In(read \ failed) :
         \E found \in Finds(read \ failed, matching) : Found(scope, read, failed, matching, found)
  BY <1>1
<1>p. PICK found \in Finds(read \ failed, matching) : Found(scope, read, failed, matching, found)
  BY <1>2
<1> DEFINE rows == SetToSeq(found)  held == RegisterAll(registry, rows)  n == Cardinality(found)
<1>3. /\ found \subseteq Rows /\ IsFiniteSet(found) /\ n + LinkLimit <= RegistryLimit
  <2>1. read \ failed \in SUBSET Categories
    OBVIOUS
  <2> QED BY <2>1, FoundFits
<1>4. /\ rows \in Seq(found) /\ Len(rows) = n /\ n \in Nat
      /\ \A x \in found : \E i \in 1..Len(rows) : rows[i] = x
  BY <1>3, SetToSeqProperties, FS_CardinalityType
<1>5. rows \in Seq(Rows)
  BY <1>3, <1>4, SeqMonotonic
<1>6. LinkLimit \in Nat /\ RegistryLimit \in Nat /\ n <= RegistryLimit
  <2> HIDE DEF n
  <2>1. LinkLimit \in Nat /\ RegistryLimit \in Nat
    BY LiveSearchBounds
  <2> QED BY <1>3, <1>4, <2>1
<1>7. Typed(registry) /\ OfTheProfile(registry) /\ profile \in Profiles \cup {NoProfile}
  BY RegistryIs DEF RegistryInv
<1>8. /\ Typed(held) /\ OfTheProfile(held)
      /\ \A row \in found : Within(held, n, row)
  <2> HIDE DEF n, rows
  <2>1. /\ Typed(held) /\ OfTheProfile(held)
        /\ \A j \in 1..Len(rows) : Within(held, Len(rows), rows[j])
    BY <1>4, <1>5, <1>6, <1>7, RegisterAllKeeps
  <2>2. ASSUME NEW row \in found PROVE Within(held, n, row)
    <3>1. PICK j \in 1..Len(rows) : rows[j] = row
      BY <1>4
    <3> QED BY <1>4, <2>1, <3>1
  <2> QED BY <2>1, <2>2
<1> HIDE DEF held, n
<1>9. answer'.rows = found /\ answer'.source = "live"
  BY <1>p, FoundAnswers
<1>10. CASE scope = All
  <2>1. PICK got \in PersonalLinks(FALSE, held) : Hold(got)
    BY <1>p, <1>10 DEF Found, held, rows
  <2>2. /\ Typed(got.registry) /\ OfTheProfile(got.registry)
        /\ got.list = list \/ Follows(got.list)
        /\ \A row \in found : Shown(got.registry, row)
    BY <1>3, <1>4, <1>8, <2>1, PersonalLinksKeep
  <2>3. registry' = got.registry /\ list' = got.list
    BY <2>1 DEF Hold
  <2>4. Typed(registry') /\ RowsOfTheProfile' /\ \A row \in found : Resolves(row)'
    BY <2>2, <2>3, RegistryIsNext DEF OfTheProfile, Typed
  <2>5. ShownRowsOpen'
    BY <1>9, <2>4 DEF ShownRowsOpen
  <2>6. ListFollowsChanges'
    BY <2>2, <2>3 DEF ListFollowsChanges, RegistryInv, Follows, rockVars
  <2> QED BY <2>4, <2>5, <2>6 DEF RegistryInv, ExpectedIsTrue, rockVars, Typed
<1>11. CASE scope # All
  <2>1. registry' = held /\ list' = list
    BY <1>p, <1>11 DEF Found, held, rows
  <2>2. \A row \in found : Shown(held, row)
    BY <1>8 DEF Within, Shown
  <2>4. Typed(registry') /\ RowsOfTheProfile' /\ \A row \in found : Resolves(row)'
    BY <1>8, <2>1, <2>2, RegistryIsNext DEF OfTheProfile, Typed
  <2>5. ShownRowsOpen'
    BY <1>9, <2>4 DEF ShownRowsOpen
  <2> QED BY <2>1, <2>4, <2>5 DEF RegistryInv, ExpectedIsTrue, ListFollowsChanges, rockVars, Typed
<1> QED BY <1>10, <1>11

LEMMA SearchKeepsRegistry ==
    ASSUME RegistryInv, NEW scope \in Categories \cup {All}, Search(scope)
    PROVE  RegistryInv'
<1>1. UNCHANGED <<profile, enabled, rockVars>> /\ profile # NoProfile /\ scope \in enabled \cup {All}
  BY DEF Search
<1>2. ASSUME UNCHANGED <<registry, list, deletions>>, answer'.rows = {}, answer'.source # "links"
      PROVE  RegistryInv'
  <2>1. ShownRowsOpen'
    BY <1>2, NoAnswerOpens
  <2> QED BY <1>1, <1>2, <2>1
      DEF RegistryInv, RowsOfTheProfile, ExpectedIsTrue, ListFollowsChanges, rockVars, Typed
<1>3. PICK check \in Checks(FALSE) :
         \/ /\ \/ answer' = Unread("access_check_failed", Asked(scope), {})
               \/ answer' = Unread("not_authorized", Asked(scope), {})
               \/ answer' = Unread("live", {}, {})
            /\ UNCHANGED <<registry, list, deletions>>
         \/ ReadNothing(scope, Target(scope, check.access.available))
         \/ Read(scope, Target(scope, check.access.available))
  BY DEF Search
<1>4. Target(scope, check.access.available) \subseteq Categories
  BY <1>1 DEF Target, RegistryInv
<1>5. ASSUME NEW read \in SUBSET Categories, Read(scope, read) PROVE RegistryInv'
  BY <1>1, <1>5, ReadKeepsRegistry
<1>6. ASSUME NEW read, ReadNothing(scope, read) PROVE RegistryInv'
  BY <1>2, <1>6 DEF ReadNothing, Answer
<1>7. CASE /\ \/ answer' = Unread("access_check_failed", Asked(scope), {})
              \/ answer' = Unread("not_authorized", Asked(scope), {})
              \/ answer' = Unread("live", {}, {})
           /\ UNCHANGED <<registry, list, deletions>>
  BY <1>2, <1>7 DEF Unread, Answer
<1> QED BY <1>3, <1>4, <1>5, <1>6, <1>7

\* A change of a link: after its answer there is no list, and without one
\* nothing is said of the link.
LEMMA ChangeKeepsRegistry ==
    ASSUME RegistryInv, NEW l \in Links, NEW there \in BOOLEAN, NEW answered \in BOOLEAN,
           ChangeLink(l, there, answered)
    PROVE  RegistryInv'
<1>1. /\ profile' = profile /\ enabled' = enabled /\ registry' = registry /\ answer' = NoAnswer
      /\ profile # NoProfile /\ profile \in Profiles
      /\ bookmarks' = IF there THEN bookmarks \cup {l} ELSE bookmarks \ {l}
      /\ expected' = [expected EXCEPT ![l] =
           IF ~answered THEN "unknown" ELSE IF there THEN "there" ELSE "gone"]
      /\ IF answered THEN Invalidate ELSE UNCHANGED <<list, deletions>>
  BY DEF ChangeLink, RegistryInv
<1>2. /\ bookmarks' \subseteq Links
      /\ expected' \in [Links -> {"unknown", "there", "gone"}]
      /\ \A m \in Links : m # l => expected'[m] = expected[m]
      /\ expected'[l] = IF ~answered THEN "unknown" ELSE IF there THEN "there" ELSE "gone"
  BY <1>1 DEF RegistryInv
<1>3. ShownRowsOpen'
  BY <1>1, NoAnswerOpens DEF NoAnswer, Unread, Answer
<1>4. ExpectedIsTrue'
  BY <1>1, <1>2 DEF RegistryInv, ExpectedIsTrue
<1>5. ListFollowsChanges'
  <2>1. CASE answered
    BY <1>1, <2>1 DEF Invalidate, NoList, ListFollowsChanges
  <2>2. CASE ~answered
    <3>1. list' = list
      BY <1>1, <2>2
    <3>2. \A m \in Links : expected'[m] = expected[m] \/ expected'[m] = "unknown"
      BY <1>2, <2>2
    <3> QED BY <3>1, <3>2 DEF RegistryInv, ListFollowsChanges
  <2> QED BY <2>1, <2>2
<1> QED BY <1>1, <1>2, <1>3, <1>4, <1>5 DEF RegistryInv, RowsOfTheProfile, Typed

LEMMA OthersKeepRegistry ==
    ASSUME RegistryInv, NEW l \in Links, OthersChangeLink(l)
    PROVE  RegistryInv'
<1>1. /\ UNCHANGED <<profile, enabled, registry, list>> /\ answer' = NoAnswer /\ profile # NoProfile
      /\ bookmarks' = IF l \in bookmarks THEN bookmarks \ {l} ELSE bookmarks \cup {l}
      /\ expected' = [expected EXCEPT ![l] = "unknown"]
  BY DEF OthersChangeLink, adapterVars
<1>2. /\ bookmarks' \subseteq Links
      /\ \A m \in Links : m # l => (m \in bookmarks' <=> m \in bookmarks)
      /\ expected' \in [Links -> {"unknown", "there", "gone"}]
      /\ \A m \in Links : expected'[m] = IF m = l THEN "unknown" ELSE expected[m]
  BY <1>1 DEF RegistryInv
<1>3. ShownRowsOpen'
  BY <1>1, NoAnswerOpens DEF NoAnswer, Unread, Answer
<1>4. ExpectedIsTrue'
  BY <1>1, <1>2 DEF RegistryInv, ExpectedIsTrue
<1>5. ListFollowsChanges'
  BY <1>1, <1>2 DEF RegistryInv, ListFollowsChanges
<1> QED BY <1>1, <1>2, <1>3, <1>4, <1>5 DEF RegistryInv, RowsOfTheProfile, Typed

\* An unfinished sign-in: nothing is said of the links of the new user.
LEMMA SignInKeepsRegistry ==
    ASSUME RegistryInv, SignInUnfinished
    PROVE  RegistryInv'
<1>1. /\ UNCHANGED <<profile, enabled, registry, list>> /\ answer' = NoAnswer
      /\ bookmarks' \subseteq Links /\ expected' = [l \in Links |-> "unknown"]
  BY DEF SignInUnfinished, adapterVars
<1>2. ShownRowsOpen'
  BY <1>1, NoAnswerOpens DEF NoAnswer, Unread, Answer
<1> QED BY <1>1, <1>2 DEF RegistryInv, RowsOfTheProfile, ExpectedIsTrue, ListFollowsChanges, Typed

\* The links list, read when the panel opens.
LEMMA ListKeepsRegistry ==
    ASSUME RegistryInv, ListLinks
    PROVE  RegistryInv'
<1>1. PICK got \in PersonalLinks(TRUE, registry) :
         /\ Hold(got)
         /\ answer' = Answer("links", {}, {}, {}, {}, {}, IF got.ok THEN got.list.rows ELSE {})
  BY DEF ListLinks
<1>2. profile # NoProfile /\ UNCHANGED <<profile, enabled, bookmarks, expected>>
  BY DEF ListLinks, rockVars
<1>3. Typed(registry) /\ OfTheProfile(registry)
  BY RegistryIs DEF RegistryInv
<1>4. /\ Typed(got.registry) /\ OfTheProfile(got.registry)
      /\ got.list = list \/ Follows(got.list)
      /\ got.ok => \A l \in got.list.rows : Shown(got.registry, l)
  BY <1>2, <1>3, PersonalLinksKeep
<1>5. registry' = got.registry /\ list' = got.list
  BY <1>1 DEF Hold
<1>6. Typed(registry') /\ RowsOfTheProfile'
      /\ (got.ok => \A l \in got.list.rows : Resolves(l)')
  BY <1>2, <1>4, <1>5, RegistryIsNext DEF OfTheProfile, Typed
<1>7. answer'.rows = {} /\ answer'.links = IF got.ok THEN got.list.rows ELSE {}
  BY <1>1 DEF Answer
<1>8. ShownRowsOpen'
  BY <1>6, <1>7 DEF ShownRowsOpen
<1>9. ListFollowsChanges'
  BY <1>2, <1>4, <1>5 DEF ListFollowsChanges, RegistryInv, Follows
<1> QED BY <1>2, <1>6, <1>8, <1>9 DEF RegistryInv, ExpectedIsTrue, Typed

LEMMA RegistryInvNext == RegistryInv /\ [Next]_vars => RegistryInv'
<1> SUFFICES ASSUME RegistryInv, [Next]_vars PROVE RegistryInv'
  OBVIOUS
<1>1. ASSUME NEW p \in Profiles \cup {NoProfile}, Activate(p) PROVE RegistryInv'
  BY <1>1, ActivateKeepsRegistry
<1>2. ASSUME NEW scope \in Categories \cup {All}, Search(scope)
      PROVE RegistryInv'
  BY <1>2, SearchKeepsRegistry
<1>3. CASE ListLinks
  BY <1>3, ListKeepsRegistry
<1>4. ASSUME NEW l \in Links, NEW there \in BOOLEAN, NEW answered \in BOOLEAN,
             ChangeLink(l, there, answered)
      PROVE RegistryInv'
  BY <1>4, ChangeKeepsRegistry
<1>5. ASSUME (\E l \in Links : OthersChangeLink(l)) \/ SignInUnfinished PROVE RegistryInv'
  BY <1>5, OthersKeepRegistry, SignInKeepsRegistry
<1>6. CASE FiveMinutes
  <2>1. /\ list' = [list EXCEPT !.fresh = FALSE]
        /\ UNCHANGED <<profile, enabled, registry, bookmarks, expected>> /\ answer' = NoAnswer
    BY <1>6 DEF FiveMinutes, rockVars
  <2>2. list'.rows = list.rows /\ list'.loaded = list.loaded
    BY <2>1
  <2>3. ShownRowsOpen'
    BY <2>1, NoAnswerOpens DEF NoAnswer, Unread, Answer
  <2> QED BY <2>1, <2>2, <2>3 DEF RegistryInv, RowsOfTheProfile, ExpectedIsTrue, ListFollowsChanges, Typed
<1>7. ASSUME UNCHANGED <<profile, registry, list, bookmarks, expected>>, enabled' \subseteq Categories,
             answer' = answer \/ (answer'.rows = {} /\ answer'.source # "links")
      PROVE RegistryInv'
  <2>1. ShownRowsOpen'
    BY <1>7 DEF ShownRowsOpen, Resolves, RegistryInv
  <2> QED BY <1>7, <2>1 DEF RegistryInv, RowsOfTheProfile, ExpectedIsTrue, ListFollowsChanges, Typed
<1>8. ASSUME (\E s \in SUBSET Categories : SetCategories(s)) \/ Send PROVE RegistryInv'
  BY <1>7, <1>8 DEF SetCategories, Send, adapterVars, rockVars, NoAnswer, Unread, Answer, RegistryInv
<1>9. ASSUME NEW scope \in Categories \cup {All}, SearchNothing(scope) PROVE RegistryInv'
  <2>1. /\ UNCHANGED <<profile, enabled, registry, list, bookmarks, expected>>
        /\ answer'.rows = {} /\ answer'.source # "links"
    BY <1>9 DEF SearchNothing, Refused, adapterVars, rockVars, Unread, Answer
  <2> QED BY <1>7, <2>1 DEF RegistryInv
<1>10. ASSUME NEW force \in BOOLEAN, CheckAccess(force) PROVE RegistryInv'
  BY <1>7, <1>10 DEF CheckAccess, rockVars, NoAnswer, Unread, Answer, RegistryInv
<1>11. CASE UNCHANGED vars
  BY <1>7, <1>11 DEF vars, adapterVars, rockVars, RegistryInv
<1> QED BY <1>1, <1>2, <1>3, <1>4, <1>5, <1>6, <1>8, <1>9, <1>10, <1>11 DEF Next

\* Whatever was shown, switched and registered before, every record of the latest
\* answer, or every link of the list that was just read, is in the registry: it is
\* large enough for what one answer shows (_register, MAX_TARGETS).
THEOREM ShownOpen == Spec => []ShownRowsOpen
<1>1. RegistryInv => ShownRowsOpen
  BY DEF RegistryInv
<1> QED BY <1>1, RegistryInvInit, RegistryInvNext, PTL DEF Spec

\* Every row in the registry was put there under the selected profile, so none of
\* another profile can be opened by its id (clear, set_profile_scope, _register).
THEOREM RowsStayWithProfile == Spec => []RowsOfTheProfile
<1>1. RegistryInv => RowsOfTheProfile
  BY DEF RegistryInv
<1> QED BY <1>1, RegistryInvInit, RegistryInvNext, PTL DEF Spec

\* A list, cached or read, never contradicts an acknowledged change
\* (invalidate_personal_links, personal_links).
THEOREM ListFollows == Spec => []ListFollowsChanges
<1>1. RegistryInv => ListFollowsChanges
  BY DEF RegistryInv
<1> QED BY <1>1, RegistryInvInit, RegistryInvNext, PTL DEF Spec
================================================================================
