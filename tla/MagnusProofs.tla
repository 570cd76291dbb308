------------------------------ MODULE MagnusProofs -----------------------------
(***************************************************************************)
(* Proofs about Magnus in the broker: what can be used was shown under the *)
(* profile, builds are sent once and receipts are true, and downloads keep *)
(* other files, for any profiles, apps, files and limits, and any number   *)
(* of builds, downloads and faults.                                        *)
(*                                                                         *)
(* The invariant says what the request in progress has done so far: a      *)
(* build that is about to be sent has not been sent, one that was accepted *)
(* is of the selected profile, and the name a download writes to is one it *)
(* has created.                                                            *)
(***************************************************************************)
EXTENDS Magnus, SequenceTheorems, FiniteSetTheorems, WellFoundedInduction, TLAPS

Entry == [item : Items, to : Profiles]

\* The registry: items shown under the profile Magnus was last told of.
RegistryFits ==
    /\ profile \in Profiles \cup {NoProfile}
    /\ registry \in Seq(Entry) /\ ItemsOfTheProfile

--------------------------------------------------------------------------------
(* Natural numbers and sequences.                                          *)

LEMMA LeastNumber ==
    ASSUME NEW T, T \subseteq Nat, T # {}
    PROVE  \E n \in T : \A k \in T : n <= k
<1> DEFINE R == OpToRel(<, Nat)
<1>1. IsWellFoundedOn(R, Nat)
  BY NatLessThanWellFounded
<1>2. \A n, k \in Nat : k < n => <<k, n>> \in R
  BY DEF OpToRel
<1> HIDE DEF R
<1>3. PICK n \in T : \A k \in T : ~ (<<k, n>> \in R)
  BY <1>1, WFMin
<1>4. \A k \in T : ~ (k < n)
  BY <1>2, <1>3
<1> QED BY <1>4

\* Induction over the natural numbers, for a set of them.
LEMMA SetInduction ==
    ASSUME NEW T, 0 \in T, \A n \in Nat : n \in T => n + 1 \in T
    PROVE  Nat \subseteq T
<1> DEFINE rest == {n \in Nat : n \notin T}
<1>1. ASSUME rest # {} PROVE FALSE
  <2>1. PICK n \in rest : \A k \in rest : n <= k
    BY <1>1, LeastNumber
  <2>2. n # 0 /\ n - 1 \in Nat /\ n - 1 \notin rest
    BY <2>1
  <2> QED BY <2>1, <2>2
<1> QED BY <1>1

LEMMA RemoveAtProperties ==
    ASSUME NEW S, NEW s \in Seq(S), NEW k \in 1..Len(s)
    PROVE  /\ RemoveAt(s, k) \in Seq(S) /\ Len(RemoveAt(s, k)) = Len(s) - 1
           /\ \A i \in 1..(Len(s) - 1) :
                RemoveAt(s, k)[i] = IF i < k THEN s[i] ELSE s[i + 1]
<1> DEFINE a == SubSeq(s, 1, k - 1)  b == SubSeq(s, k + 1, Len(s))
<1>1. Len(s) \in Nat /\ k \in Nat /\ 1 <= k /\ k <= Len(s)
  OBVIOUS
<1>2. a \in Seq(S) /\ Len(a) = k - 1 /\ \A i \in 1..(k - 1) : a[i] = s[i]
  BY <1>1, SubSeqProperties
<1>3. b \in Seq(S) /\ Len(b) = Len(s) - k
  BY <1>1, SubSeqProperties
<1>4. \A i \in 1..(Len(s) - k) : b[i] = s[k + i]
  <2> SUFFICES ASSUME NEW i \in 1..(Len(s) - k) PROVE b[i] = s[k + i]
    OBVIOUS
  <2>1. b[i] = s[(k + 1) + i - 1]
    BY <1>1, SubSeqProperties
  <2> QED BY <1>1, <2>1
<1>5. RemoveAt(s, k) = a \o b
  BY DEF RemoveAt
<1> HIDE DEF a, b
<1>6. /\ a \o b \in Seq(S) /\ Len(a \o b) = Len(a) + Len(b)
      /\ \A i \in 1..(Len(a) + Len(b)) : (a \o b)[i] = IF i <= Len(a) THEN a[i] ELSE b[i - Len(a)]
  BY <1>2, <1>3, ConcatProperties
<1>7. ASSUME NEW i \in 1..(Len(s) - 1) PROVE (a \o b)[i] = IF i < k THEN s[i] ELSE s[i + 1]
  <2>1. CASE i < k
    <3>1. i <= Len(a) /\ i \in 1..(Len(a) + Len(b)) /\ i \in 1..(k - 1)
      BY <1>1, <1>2, <1>3, <2>1
    <3> QED BY <1>2, <1>6, <2>1, <3>1
  <2>2. CASE ~(i < k)
    <3>1. /\ ~(i <= Len(a)) /\ i \in 1..(Len(a) + Len(b)) /\ i - Len(a) \in 1..(Len(s) - k)
          /\ k + (i - Len(a)) = i + 1
      BY <1>1, <1>2, <1>3, <2>2
    <3> QED BY <1>4, <1>6, <2>2, <3>1
  <2> QED BY <2>1, <2>2
<1> QED BY <1>1, <1>2, <1>3, <1>5, <1>6, <1>7

--------------------------------------------------------------------------------
(* The registry.                                                           *)

Shown(shown) == shown \in Seq(Entry) /\ \A i \in 1..Len(shown) : shown[i].to = profile

LEMMA RegistryIs ==
    /\ registry \in Seq(Entry) /\ ItemsOfTheProfile <=> Shown(registry)
    /\ registry' \in Seq(Entry) /\ ItemsOfTheProfile' <=>
          registry' \in Seq(Entry) /\ \A i \in 1..Len(registry') : registry'[i].to = profile'
BY LenProperties DEF Shown, ItemsOfTheProfile

LEMMA WithoutKeeps ==
    ASSUME NEW shown, Shown(shown), NEW item
    PROVE  Shown(Without(shown, item)) /\ Len(Without(shown, item)) <= Len(shown)
<1> DEFINE kept == Without(shown, item)  k == Place(shown, item)
<1>1. Len(shown) \in Nat /\ DOMAIN shown = 1..Len(shown) /\ shown \in Seq(Entry)
  BY DEF Shown
<1>2. CASE Holds(shown, item)
  <2>1. k \in 1..Len(shown)
    BY <1>1, <1>2 DEF Holds, Place
  <2>2. kept = RemoveAt(shown, k)
    BY <1>2 DEF Without
  <2> HIDE DEF k
  <2>3. /\ kept \in Seq(Entry) /\ Len(kept) = Len(shown) - 1
        /\ \A i \in 1..(Len(shown) - 1) : kept[i] = IF i < k THEN shown[i] ELSE shown[i + 1]
    BY <1>1, <2>1, <2>2, RemoveAtProperties
  <2> HIDE DEF kept
  <2>4. ASSUME NEW i \in 1..Len(kept) PROVE kept[i].to = profile
    <3>1. i \in 1..Len(shown) /\ i + 1 \in 1..Len(shown)
      BY <1>1, <2>3
    <3> QED BY <2>3, <3>1 DEF Shown
  <2>5. Len(kept) <= Len(shown)
    BY <1>1, <2>3
  <2> QED BY <2>3, <2>4, <2>5 DEF Shown, kept
<1>3. CASE ~Holds(shown, item)
  BY <1>1, <1>3 DEF Without
<1> QED BY <1>2, <1>3

\* What is kept of a history is a part of it.
LEMMA LastOfProperties ==
    ASSUME NEW S, NEW s \in Seq(S), NEW limit \in Nat \ {0}
    PROVE  /\ LastOf(s, limit) \in Seq(S)
           /\ \A i \in 1..Len(LastOf(s, limit)) : \E j \in 1..Len(s) : LastOf(s, limit)[i] = s[j]
<1> DEFINE first == IF Len(s) > limit THEN Len(s) - limit + 1 ELSE 1
           last == Len(s)  new == SubSeq(s, first, last)
<1>1. last \in Nat
  OBVIOUS
<1>2. first \in Int /\ last \in Int /\ 1 <= first
  BY <1>1
<1>3. LastOf(s, limit) = new
  BY DEF LastOf
<1> HIDE DEF first
<1>4. \A i \in first..last : s[i] \in S
  BY <1>1, <1>2, ElementOfSeq
<1>5. /\ new \in Seq(S) /\ Len(new) = IF first <= last THEN last - first + 1 ELSE 0
      /\ \A i \in 1..(last - first + 1) : new[i] = s[first + i - 1]
  <2> HIDE DEF last
  <2> QED BY <1>2, <1>4, SubSeqProperties
<1> HIDE DEF new
<1>6. ASSUME NEW i \in 1..Len(new) PROVE \E j \in 1..Len(s) : new[i] = s[j]
  <2>1. i \in 1..(last - first + 1) /\ first + i - 1 \in 1..Len(s)
    BY <1>1, <1>2, <1>5
  <2> QED BY <1>5, <2>1
<1> QED BY <1>3, <1>5, <1>6

LEMMA LastOfKeeps ==
    ASSUME NEW shown, Shown(shown), NEW limit \in Nat \ {0}
    PROVE  Shown(LastOf(shown, limit))
<1>1. shown \in Seq(Entry)
  BY DEF Shown
<1> QED BY <1>1, LastOfProperties DEF Shown

LEMMA AppendKeeps ==
    ASSUME NEW shown, Shown(shown), NEW entry \in Entry, entry.to = profile
    PROVE  Shown(Append(shown, entry))
<1>1. shown \in Seq(Entry) /\ Len(shown) \in Nat
  BY DEF Shown
<1>2. /\ Append(shown, entry) \in Seq(Entry) /\ Len(Append(shown, entry)) = Len(shown) + 1
      /\ \A i \in 1..Len(shown) : Append(shown, entry)[i] = shown[i]
      /\ Append(shown, entry)[Len(shown) + 1] = entry
  BY <1>1, AppendProperties
<1>3. \A i \in 1..(Len(shown) + 1) : i \in 1..Len(shown) \/ i = Len(shown) + 1
  BY <1>1
<1> QED BY <1>2, <1>3 DEF Shown

LEMMA RegisterKeeps ==
    ASSUME NEW shown, Shown(shown), profile \in Profiles, NEW item \in Items
    PROVE  Shown(Register(shown, item))
<1> DEFINE entry == [item |-> item, to |-> profile]  kept == Without(shown, item)
<1>1. entry \in Entry /\ entry.to = profile
  BY DEF Entry
<1>2. Shown(Append(kept, entry))
  <2> HIDE DEF entry
  <2> QED BY <1>1, WithoutKeeps, AppendKeeps
<1>3. ItemLimit \in Nat \ {0}
  BY MagnusBounds
<1> QED BY <1>2, <1>3, LastOfKeeps DEF Register

\* The loop over the items of a listing has a result after each item.
LEMMA RegisteringIs ==
    ASSUME NEW shown, NEW items \in Seq(Items), NEW after, after = Registering(shown, items)
    PROVE  /\ after[0] = shown
           /\ \A i \in 1..Len(items) : after[i] = Register(after[i - 1], items[i])
<1> DEFINE Loop(f, n) == f = [i \in 0..n |-> IF i = 0 THEN shown ELSE Register(f[i - 1], items[i])]
           T == {n \in Nat : \E f : Loop(f, n)}
<1>1. 0 \in T
  <2> DEFINE f == [i \in 0..0 |-> shown]
  <2>1. \A i \in 0..0 : i = 0
    OBVIOUS
  <2>2. Loop(f, 0)
    BY <2>1
  <2> QED BY <2>2
<1>2. ASSUME NEW n \in Nat, n \in T PROVE n + 1 \in T
  <2>1. PICK f : Loop(f, n)
    BY <1>2
  <2> DEFINE g == [i \in 0..(n + 1) |-> IF i <= n THEN f[i] ELSE Register(f[n], items[n + 1])]
             h == [i \in 0..(n + 1) |-> IF i = 0 THEN shown ELSE Register(g[i - 1], items[i])]
  <2>2. ASSUME NEW i \in 0..(n + 1) PROVE g[i] = h[i]
    <3>1. CASE i = 0
      <4>1. f[0] = shown
        BY <2>1
      <4> QED BY <3>1, <4>1
    <3>2. CASE i \in 1..n
      <4>1. i \in 0..n /\ i - 1 \in 0..n /\ i - 1 \in 0..(n + 1) /\ i - 1 <= n /\ i <= n /\ i # 0
        BY <3>2
      <4>2. f[i] = Register(f[i - 1], items[i])
        BY <2>1, <4>1
      <4>3. g[i] = f[i] /\ g[i - 1] = f[i - 1] /\ h[i] = Register(g[i - 1], items[i])
        BY <4>1
      <4> QED BY <4>2, <4>3
    <3>3. CASE i = n + 1
      <4>1. i # 0 /\ i - 1 = n /\ n \in 0..(n + 1) /\ ~(i <= n)
        BY <3>3
      <4>2. g[i] = Register(f[n], items[n + 1]) /\ g[n] = f[n] /\ h[i] = Register(g[n], items[n + 1])
        BY <3>3, <4>1
      <4> QED BY <4>2
    <3>4. i = 0 \/ i \in 1..n \/ i = n + 1
      OBVIOUS
    <3> QED BY <3>1, <3>2, <3>3, <3>4
  <2>3. g = h
    BY <2>2
  <2>4. Loop(g, n + 1)
    BY <2>3
  <2>5. n + 1 \in Nat
    OBVIOUS
  <2> HIDE DEF g, Loop
  <2> QED BY <2>4, <2>5
<1>3. Len(items) \in T
  <2> HIDE DEF T
  <2>1. Len(items) \in Nat
    OBVIOUS
  <2> QED BY <1>1, <1>2, <2>1, SetInduction
<1>4. after = CHOOSE f : Loop(f, Len(items))
  BY DEF Registering
<1>5. Loop(after, Len(items))
  BY <1>3, <1>4
<1>6. Len(items) \in Nat
  OBVIOUS
<1>7. after[0] = shown
  BY <1>5, <1>6
<1>8. ASSUME NEW i \in 1..Len(items) PROVE after[i] = Register(after[i - 1], items[i])
  BY <1>5, <1>6
<1> QED BY <1>7, <1>8

\* A whole listing of the selected profile is registered (browse, _register).
LEMMA RegisterAllKeeps ==
    ASSUME NEW shown, Shown(shown), profile \in Profiles, NEW items \in Seq(Items)
    PROVE  Shown(RegisterAll(shown, items))
<1> DEFINE after == Registering(shown, items)
           T == {i \in Nat : i <= Len(items) => Shown(after[i])}
<1>1. /\ after[0] = shown /\ Len(items) \in Nat
      /\ \A i \in 1..Len(items) : after[i] = Register(after[i - 1], items[i])
  BY RegisteringIs
<1> HIDE DEF after
<1>2. 0 \in T
  BY <1>1
<1>3. ASSUME NEW i \in Nat, i \in T PROVE i + 1 \in T
  <2> SUFFICES ASSUME i + 1 <= Len(items) PROVE Shown(after[i + 1])
    OBVIOUS
  <2>1. Shown(after[i]) /\ i + 1 \in 1..Len(items) /\ items[i + 1] \in Items /\ (i + 1) - 1 = i
    BY <1>1, <1>3
  <2>2. after[i + 1] = Register(after[i], items[i + 1])
    BY <1>1, <2>1
  <2> QED BY <2>1, <2>2, RegisterKeeps
<1>4. Len(items) \in T
  <2> HIDE DEF T
  <2> QED BY <1>1, <1>2, <1>3, SetInduction
<1> QED BY <1>1, <1>4 DEF RegisterAll, after

LEMMA ListingsAreSequences == ASSUME NEW listed \in Listings PROVE listed \in Seq(Items)
<1>1. PICK n \in 0..ListingLimit : listed \in [1..n -> Items]
  BY DEF Listings
<1>2. n \in Nat
  BY MagnusBounds
<1> QED BY <1>1, <1>2

\* What is used stays shown, and is shown only under a profile.
LEMMA UsedKeeps ==
    ASSUME RegistryFits, NEW item, Found(item)
    PROVE  Shown(Used(item)) /\ profile \in Profiles
<1> DEFINE k == Place(registry, item)
<1>1. Shown(registry) /\ registry \in Seq(Entry)
  BY RegistryIs DEF RegistryFits
<1>2. k \in 1..Len(registry)
  BY <1>1, LenProperties DEF Found, Holds, Place
<1>3. registry[k] \in Entry /\ registry[k].to = profile
  BY <1>1, <1>2, ElementOfSeq DEF Shown
<1>4. Shown(Append(Without(registry, item), registry[k]))
  <2> HIDE DEF k
  <2> QED BY <1>1, <1>3, WithoutKeeps, AppendKeeps
<1> QED BY <1>3, <1>4 DEF Used, Entry

LEMMA ShownFits ==
    ASSUME RegistryFits, profile' = profile, Shown(registry')
    PROVE  RegistryFits'
BY RegistryIs DEF RegistryFits, Shown

LEMMA BrowseKeeps == RegistryFits /\ Browse => RegistryFits'
<1> SUFFICES ASSUME RegistryFits, Browse PROVE RegistryFits'
  OBVIOUS
<1>1. PICK shown \in {registry} \cup {Used(app) : app \in {a \in Apps : Found(a)}} :
         registry' = shown \/ \E listed \in Listings : registry' = RegisterAll(shown, listed)
  BY DEF Browse
<1>2. profile \in Profiles /\ profile' = profile
  BY DEF Browse, RegistryFits
<1>3. Shown(shown)
  <2>1. Shown(registry)
    BY RegistryIs DEF RegistryFits
  <2> QED BY <2>1, <1>1, UsedKeeps
<1>4. Shown(registry')
  BY <1>1, <1>2, <1>3, ListingsAreSequences, RegisterAllKeeps
<1> QED BY <1>2, <1>4, ShownFits

LEMMA NothingShown ==
    ASSUME profile' \in Profiles \cup {NoProfile}, registry' = <<>>
    PROVE  RegistryFits'
<1>1. registry' \in Seq(Entry) /\ DOMAIN registry' = {}
  BY EmptySeq
<1> QED BY <1>1 DEF RegistryFits, ItemsOfTheProfile

LEMMA ActivateKeeps ==
    ASSUME RegistryFits, NEW p \in Profiles \cup {NoProfile}, Activate(p)
    PROVE  RegistryFits'
<1>1. CASE p = profile
  BY <1>1 DEF Activate, RegistryFits, ItemsOfTheProfile
<1>2. CASE p # profile
  BY <1>2, NothingShown DEF Activate, Forget
<1> QED BY <1>1, <1>2

LEMMA RegistryKeeps == RegistryFits /\ [Next]_vars => RegistryFits'
<1> SUFFICES ASSUME RegistryFits, [Next]_vars PROVE RegistryFits'
  OBVIOUS
<1>1. ASSUME UNCHANGED <<profile, registry>> PROVE RegistryFits'
  BY <1>1 DEF RegistryFits, ItemsOfTheProfile
<1>2. ASSUME NEW item, Found(item), Use(item), profile' = profile PROVE RegistryFits'
  BY <1>2, UsedKeeps, ShownFits DEF Use
<1>3. ASSUME NEW p \in Profiles, Switch(p) \/ RemoveProfile(p) PROVE RegistryFits'
  BY <1>1, <1>3, ActivateKeeps DEF Switch, RemoveProfile, adapterVars
<1>4. CASE ResetAccess \/ BrokerRestart
  BY <1>4, NothingShown DEF ResetAccess, BrokerRestart, Forget, RegistryFits
<1>5. CASE Probe
  BY <1>1, <1>5, NothingShown DEF Probe, RegistryFits
<1>6. CASE Browse
  BY <1>6, BrowseKeeps
<1>7. ASSUME NEW app \in Apps, BuildShown(app) PROVE RegistryFits'
  BY <1>2, <1>7 DEF BuildShown
<1>8. ASSUME NEW app \in Apps, BuildRecent(app) PROVE RegistryFits'
  BY <1>1, <1>8 DEF BuildRecent, adapterVars
<1>9. ASSUME NEW item \in Items, Describe(item) PROVE RegistryFits'
  BY <1>2, <1>9 DEF Describe
<1>10. ASSUME NEW file \in Files, Preview(file) \/ Download(file) PROVE RegistryFits'
  BY <1>2, <1>10 DEF Preview, Download
<1>11. CASE Post
  BY <1>1, <1>11 DEF Post
<1>12. CASE AddRecent \/ AddReceipt \/ ClearRecents
  BY <1>1, <1>12 DEF AddRecent, AddReceipt, ClearRecents, adapterVars
<1>13. CASE TryName \/ WriteFile \/ Cleanup \/ OthersFiles
  BY <1>1, <1>13 DEF TryName, WriteFile, Cleanup, OthersFiles, adapterVars
<1>14. CASE UNCHANGED vars
  BY <1>1, <1>14 DEF vars, adapterVars
<1> QED BY <1>3, <1>4, <1>5, <1>6, <1>7, <1>8, <1>9, <1>10, <1>11, <1>12, <1>13, <1>14 DEF Next

LEMMA RegistryInit == Init => RegistryFits
<1> SUFFICES ASSUME Init PROVE RegistryFits
  OBVIOUS
<1>1. registry \in Seq(Entry) /\ DOMAIN registry = {}
  BY EmptySeq DEF Init
<1> QED BY <1>1 DEF Init, RegistryFits, ItemsOfTheProfile

\* Whatever profiles are switched, removed and signed in to, and whatever
\* Magnus lists: every item in the registry was put there under the profile
\* Magnus was last told of (_register, _resolve, _reset).
THEOREM ItemsStayWithProfile == Spec => []ItemsOfTheProfile
<1>1. RegistryFits => ItemsOfTheProfile
  BY DEF RegistryFits
<1> QED BY <1>1, RegistryInit, RegistryKeeps, PTL DEF Spec

--------------------------------------------------------------------------------
(* Downloads.                                                              *)

TaskFits ==
    \/ task = NoTask
    \/ task \in [at : {"post", "recent", "receipt"}, build : Builds, app : Apps]
    \/ task \in [at : {"name", "write", "cleanup"}, name : Names, created : BOOLEAN]

\* A download writes and removes only a file it has created.
DownloadFits ==
    /\ TaskFits /\ faults \in Nat
    /\ folder \in [Names -> {Absent, Other, "partial", "saved"}]
    /\ task.at = "name" => ~task.created
    /\ task.at = "write" => task.created
    /\ task.at \in {"write", "cleanup"} /\ task.created => folder[task.name] = "partial"

\* The builds are counted from 1, so there is a next one.
LEMMA NextBuildIs ==
    ASSUME \E n \in Builds : builds[n].state = "none"
    PROVE  NextBuild \in Builds /\ builds[NextBuild].state = "none"
<1> DEFINE T == {n \in Builds : builds[n].state = "none"}
<1>1. PICK n \in T : \A k \in T : n <= k
  <2>1. T \subseteq Nat /\ T # {}
    BY DEF Builds
  <2> QED BY <2>1, LeastNumber
<1>2. \A k \in 1..(n - 1) : k \in Builds /\ ~(n <= k)
  BY MagnusBounds DEF Builds
<1>3. \A k \in 1..(n - 1) : builds[k].state # "none"
  BY <1>1, <1>2
<1> QED BY <1>1, <1>3 DEF NextBuild

LEMMA ConfirmTask ==
    ASSUME NEW app \in Apps, Confirm(app)
    PROVE  /\ task' \in [at : {"post", "recent", "receipt"}, build : Builds, app : Apps]
           /\ task'.at = "post"
BY NextBuildIs DEF Confirm

LEMMA DownloadInit == Init => DownloadFits
BY DEF Init, NoTask, DownloadFits, TaskFits

\* A step that is not a download's own leaves the files, and no download is
\* in progress after it unless it was before.
LEMMA DownloadStays ==
    ASSUME DownloadFits, UNCHANGED folder, faults' \in Nat, TaskFits',
           task' = task \/ task'.at \notin {"name", "write", "cleanup"}
    PROVE  DownloadFits'
BY DEF DownloadFits

LEMMA FaultTyped == ASSUME faults \in Nat, Fault \/ UNCHANGED faults PROVE faults' \in Nat
BY DEF Fault

LEMMA DownloadKeeps == DownloadFits /\ [Next]_vars => DownloadFits'
<1> SUFFICES ASSUME DownloadFits, [Next]_vars PROVE DownloadFits'
  OBVIOUS
<1>a. TaskFits /\ faults \in Nat
  BY DEF DownloadFits
<1>1. ASSUME UNCHANGED <<task, folder, faults>> PROVE DownloadFits'
  BY <1>1 DEF DownloadFits, TaskFits
<1>2. ASSUME NEW p \in Profiles, Switch(p) \/ RemoveProfile(p) PROVE DownloadFits'
  <2>1. UNCHANGED <<task, folder>> /\ (Fault \/ UNCHANGED faults)
    BY <1>2 DEF Switch, RemoveProfile, fileVars
  <2> QED BY <1>a, <2>1, FaultTyped, DownloadStays DEF TaskFits
<1>3. ASSUME NEW app \in Apps, BuildShown(app) \/ BuildRecent(app) PROVE DownloadFits'
  <2>1. Confirm(app) /\ UNCHANGED <<folder, faults>>
    BY <1>3 DEF BuildShown, BuildRecent, fileVars
  <2> QED BY <1>a, <2>1, ConfirmTask, DownloadStays DEF TaskFits
<1>4. ASSUME NEW item \in Items, Describe(item) PROVE DownloadFits'
  BY <1>1, <1>4 DEF Describe, fileVars
<1>5. ASSUME NEW file \in Files, Preview(file) PROVE DownloadFits'
  BY <1>1, <1>5 DEF Preview, fileVars
<1>6. ASSUME NEW file \in Files, Download(file) PROVE DownloadFits'
  <2>1. 1 \in Names
    BY MagnusBounds DEF Names
  <2>2. task' = NoTask \/ task' = [at |-> "name", name |-> 1, created |-> FALSE]
    BY <1>6 DEF Download
  <2>3. UNCHANGED <<folder, faults>>
    BY <1>6 DEF Download
  <2>4. TaskFits' /\ task'.at \in {"idle", "name"} /\ (task'.at = "name" => ~task'.created)
    <3>1. CASE task' = NoTask
      BY <3>1 DEF TaskFits, NoTask
    <3>2. CASE task' = [at |-> "name", name |-> 1, created |-> FALSE]
      BY <2>1, <3>2 DEF TaskFits
    <3> QED BY <2>2, <3>1, <3>2
  <2> QED BY <2>3, <2>4 DEF DownloadFits
<1>7. CASE ResetAccess \/ Probe \/ Browse \/ ClearRecents \/ UNCHANGED vars
  BY <1>1, <1>7 DEF ResetAccess, Probe, Browse, ClearRecents, vars, fileVars
<1>8. CASE Post
  <2>1. task \in [at : {"post", "recent", "receipt"}, build : Builds, app : Apps]
    BY <1>8 DEF Post, DownloadFits, TaskFits, NoTask
  <2>2. task' = NoTask \/ task' = [task EXCEPT !.at = "recent"]
    BY <1>8 DEF Post
  <2>3. UNCHANGED <<folder, faults>>
    BY <1>8 DEF Post, fileVars
  <2>4. TaskFits' /\ task'.at \in {"idle", "recent"}
    BY <2>1, <2>2 DEF TaskFits, NoTask
  <2> QED BY <1>a, <2>3, <2>4, DownloadStays
<1>9. CASE AddRecent
  <2>1. task \in [at : {"post", "recent", "receipt"}, build : Builds, app : Apps]
    BY <1>9 DEF AddRecent, DownloadFits, TaskFits, NoTask
  <2>2. task' = NoTask \/ task' = [task EXCEPT !.at = "receipt"]
    BY <1>9 DEF AddRecent
  <2>3. UNCHANGED folder /\ (Fault \/ UNCHANGED faults)
    BY <1>9 DEF AddRecent, ReadRecents, fileVars
  <2>4. TaskFits' /\ task'.at \in {"idle", "receipt"}
    BY <2>1, <2>2 DEF TaskFits, NoTask
  <2> QED BY <1>a, <2>3, <2>4, FaultTyped, DownloadStays
<1>10. CASE AddReceipt \/ BrokerRestart
  <2>1. task' = NoTask /\ UNCHANGED folder /\ (Fault \/ UNCHANGED faults)
    BY <1>10 DEF AddReceipt, BrokerRestart, ReadReceipts, fileVars
  <2>2. TaskFits' /\ task'.at = "idle"
    BY <2>1 DEF TaskFits, NoTask
  <2> QED BY <1>a, <2>1, <2>2, FaultTyped, DownloadStays
<1>11. ASSUME task.at \in {"name", "write", "cleanup"}
       PROVE  task \in [at : {"name", "write", "cleanup"}, name : Names, created : BOOLEAN]
  BY <1>11 DEF DownloadFits, TaskFits, NoTask
<1>12. CASE TryName
  <2>1. task \in [at : {"name", "write", "cleanup"}, name : Names, created : BOOLEAN] /\ ~task.created
    BY <1>11, <1>12 DEF TryName, DownloadFits
  <2>2. faults' = faults
    BY <1>12 DEF TryName
  <2>3. CASE folder[task.name] = Absent
    <3>1. /\ folder' = [folder EXCEPT ![task.name] = "partial"]
          /\ task' = [task EXCEPT !.at = "write", !.created = TRUE]
      BY <1>12, <2>3 DEF TryName
    <3>2. /\ task' \in [at : {"name", "write", "cleanup"}, name : Names, created : BOOLEAN]
          /\ task'.at = "write" /\ task'.created /\ task'.name = task.name
      BY <2>1, <3>1
    <3>3. /\ folder' \in [Names -> {Absent, Other, "partial", "saved"}]
          /\ folder'[task.name] = "partial"
      BY <2>1, <3>1 DEF DownloadFits
    <3> QED BY <1>a, <2>2, <3>2, <3>3 DEF DownloadFits, TaskFits
  <2>4. CASE folder[task.name] # Absent
    <3>1. /\ folder' = folder
          /\ task' = IF task.name < NameLimit THEN [task EXCEPT !.name = @ + 1]
                     ELSE [task EXCEPT !.at = "cleanup"]
      BY <1>12, <2>4 DEF TryName
    <3>2. task.name < NameLimit => task.name + 1 \in Names
      BY <2>1, MagnusBounds DEF Names
    <3>3. task.at = "name"
      BY <1>12 DEF TryName
    <3>4. /\ task' \in [at : {"name", "write", "cleanup"}, name : Names, created : BOOLEAN]
          /\ ~task'.created /\ task'.at # "write"
      BY <2>1, <3>1, <3>2, <3>3
    <3> QED BY <1>a, <2>2, <3>1, <3>4 DEF DownloadFits, TaskFits
  <2> QED BY <2>3, <2>4
<1>13. CASE WriteFile
  <2>1. task \in [at : {"name", "write", "cleanup"}, name : Names, created : BOOLEAN]
    BY <1>11, <1>13 DEF WriteFile
  <2>2. CASE folder' = [folder EXCEPT ![task.name] = "saved"] /\ task' = NoTask /\ UNCHANGED faults
    BY <1>a, <2>1, <2>2 DEF DownloadFits, TaskFits, NoTask
  <2>3. CASE Fault /\ task' = [task EXCEPT !.at = "cleanup"] /\ UNCHANGED folder
    <3>1. /\ task' \in [at : {"name", "write", "cleanup"}, name : Names, created : BOOLEAN]
          /\ task'.at = "cleanup" /\ task'.name = task.name /\ task'.created = task.created
      BY <2>1, <2>3
    <3>2. task.at = "write"
      BY <1>13 DEF WriteFile
    <3>3. faults' \in Nat
      BY <1>a, <2>3, FaultTyped
    <3> QED BY <2>3, <3>1, <3>2, <3>3 DEF DownloadFits, TaskFits
  <2> QED BY <1>13, <2>2, <2>3 DEF WriteFile
<1>14. CASE Cleanup
  <2>1. task \in [at : {"name", "write", "cleanup"}, name : Names, created : BOOLEAN]
    BY <1>11, <1>14 DEF Cleanup
  <2>2. folder' \in [Names -> {Absent, Other, "partial", "saved"}] /\ task' = NoTask /\ faults' = faults
    BY <1>14, <2>1 DEF Cleanup, DownloadFits
  <2> QED BY <1>a, <2>2 DEF DownloadFits, TaskFits, NoTask
<1>15. CASE OthersFiles
  <2>1. PICK k \in Names :
          \/ folder[k] = Absent /\ folder' = [folder EXCEPT ![k] = Other]
          \/ folder[k] = Other /\ folder' = [folder EXCEPT ![k] = Absent]
    BY <1>15 DEF OthersFiles
  <2>2. faults' \in Nat /\ task' = task
    BY <1>a, <1>15, FaultTyped DEF OthersFiles
  <2>3. folder' \in [Names -> {Absent, Other, "partial", "saved"}]
    BY <2>1 DEF DownloadFits
  <2>4. \A n \in Names : folder[n] = "partial" => folder'[n] = "partial"
    BY <2>1 DEF DownloadFits, Absent, Other
  <2>5. task.at \in {"write", "cleanup"} => task.name \in Names
    BY <1>11
  <2> QED BY <2>2, <2>3, <2>4, <2>5 DEF DownloadFits, TaskFits
<1> QED BY <1>2, <1>3, <1>4, <1>5, <1>6, <1>7, <1>8, <1>9, <1>10, <1>12, <1>13, <1>14, <1>15 DEF Next

\* A finished file and a file of another program change only by a fault.
LEMMA FilesKept ==
    ASSUME DownloadFits, [Next]_vars, NEW k \in Names, folder[k] \in {Other, "saved"},
           folder'[k] # folder[k]
    PROVE  faults' # faults
<1>1. ASSUME UNCHANGED folder PROVE FALSE
  BY <1>1
<1>2. ASSUME task.at \in {"name", "write", "cleanup"} PROVE task.name \in Names
  BY <1>2 DEF DownloadFits, TaskFits, NoTask
<1>3. CASE TryName
  <2>1. folder[task.name] = Absent /\ folder' = [folder EXCEPT ![task.name] = "partial"]
    BY <1>1, <1>3 DEF TryName
  <2>2. k # task.name
    BY <2>1 DEF Absent, Other
  <2> QED BY <2>1, <2>2 DEF DownloadFits
<1>4. CASE WriteFile
  <2>1. folder[task.name] = "partial"
    BY <1>4 DEF WriteFile, DownloadFits
  <2>2. folder' = [folder EXCEPT ![task.name] = "saved"]
    BY <1>1, <1>4 DEF WriteFile
  <2>3. k # task.name
    BY <2>1 DEF Other
  <2> QED BY <2>2, <2>3 DEF DownloadFits
<1>5. CASE Cleanup
  <2>1. folder[task.name] = "partial" /\ folder' = [folder EXCEPT ![task.name] = Absent]
    BY <1>1, <1>5 DEF Cleanup, DownloadFits
  <2>2. k # task.name
    BY <2>1 DEF Other
  <2> QED BY <2>1, <2>2 DEF DownloadFits
<1>6. CASE OthersFiles
  BY <1>6 DEF OthersFiles, Fault, DownloadFits
<1>7. ASSUME \/ \E p \in Profiles : Switch(p) \/ RemoveProfile(p)
             \/ \E app \in Apps : BuildShown(app) \/ BuildRecent(app)
             \/ \E item \in Items : Describe(item)
             \/ \E file \in Files : Preview(file) \/ Download(file)
             \/ ResetAccess \/ Probe \/ Browse \/ Post \/ AddRecent \/ AddReceipt
             \/ ClearRecents \/ BrokerRestart \/ UNCHANGED vars
      PROVE FALSE
  <2>1. UNCHANGED folder
    BY <1>7 DEF Switch, RemoveProfile, BuildShown, BuildRecent, Describe, Preview, Download,
       ResetAccess, Probe, Browse, Post, AddRecent, AddReceipt, ClearRecents, BrokerRestart,
       vars, fileVars
  <2> QED BY <1>1, <2>1
<1> QED BY <1>3, <1>4, <1>5, <1>6, <1>7 DEF Next

\* At whatever step a download fails, also when every name is taken, what was
\* there before stays (download, O_EXCL and its unlink).
THEOREM FilesStay == Spec => DownloadsKeepFiles
<1>1. DownloadFits /\ [Next]_vars =>
        [\A k \in Names : folder[k] \in {Other, "saved"} /\ folder'[k] # folder[k] => faults' # faults]_vars
  BY FilesKept
<1> QED BY <1>1, DownloadInit, DownloadKeeps, PTL DEF Spec, DownloadsKeepFiles

--------------------------------------------------------------------------------
(* Builds.                                                                 *)

States == {"confirmed", "accepted", "failed", "dropped", "receipted", "unpersisted", "crashed"}
Build == [state : {"none"}] \cup [state : States, app : Apps, for : Profiles]
Building == task.at \in {"post", "recent", "receipt"}

\* A receipt of the profile is of an accepted build that was confirmed under it.
Receipt(p, n) == posts[n].accepted > 0 /\ builds[n].state # "none" /\ builds[n].for = p

\* A build that is not confirmed has not been sent.
UnsentFit == \A n \in Builds : builds[n].state = "none" => posts[n].sent = 0

\* The request sends its build once, under the profile it was confirmed for.
RequestFits ==
    /\ Building => /\ profile \in Profiles /\ builds[task.build].state # "none"
                   /\ builds[task.build].for = profile
    /\ task.at = "post" => posts[task.build].sent = 0
    /\ task.at \in {"recent", "receipt"} => posts[task.build].accepted > 0

ReceiptsFit == \A p \in Profiles : \A i \in 1..Len(receipts[p]) : Receipt(p, receipts[p][i])

BuildFits ==
    /\ TaskFits
    /\ posts \in [Builds -> [sent : Nat, accepted : Nat]]
    /\ builds \in [Builds -> Build] /\ receipts \in [Profiles -> Seq(Builds)]
    /\ NoBuildIsRetried /\ UnsentFit /\ RequestFits /\ ReceiptsFit

LEMMA BuildInit == Init => BuildFits
<1> SUFFICES ASSUME Init PROVE BuildFits
  OBVIOUS
<1>1. receipts = [p \in Profiles |-> <<>>]
  BY DEF Init
<1>2. receipts \in [Profiles -> Seq(Builds)] /\ \A p \in Profiles : Len(receipts[p]) = 0
  <2>1. <<>> \in Seq(Builds) /\ Len(<<>>) = 0
    BY EmptySeq
  <2> QED BY <1>1, <2>1
<1>3. \A p \in Profiles : 1..Len(receipts[p]) = {}
  BY <1>2
<1>4. task = NoTask /\ posts = [n \in Builds |-> [sent |-> 0, accepted |-> 0]]
      /\ builds = [n \in Builds |-> [state |-> "none"]]
  BY DEF Init
<1> QED BY <1>2, <1>3, <1>4 DEF BuildFits, TaskFits, NoTask, Building,
     NoBuildIsRetried, UnsentFit, RequestFits, ReceiptsFit, Build

\* What became of a build is noted; the rest of its record stays.
LEMMA EndedIs ==
    ASSUME BuildFits, task \in [at : {"post", "recent", "receipt"}, build : Builds, app : Apps],
           NEW state \in States, builds' = Ended(state)
    PROVE  /\ builds' \in [Builds -> Build]
           /\ \A n \in Builds : builds'[n].state = "none" <=> builds[n].state = "none"
           /\ \A n \in Builds : builds[n].state # "none" => builds'[n].for = builds[n].for
<1>1. task.build \in Builds /\ builds[task.build].state # "none"
  BY DEF BuildFits, RequestFits, Building
<1>2. builds[task.build] \in [state : States, app : Apps, for : Profiles]
  BY <1>1 DEF BuildFits, Build
<1> DEFINE new == [builds[task.build] EXCEPT !.state = state]
<1>3. new \in [state : States, app : Apps, for : Profiles]
      /\ new.state # "none" /\ new.for = builds[task.build].for
  BY <1>2 DEF States
<1>4. builds' = [builds EXCEPT ![task.build] = new]
  BY DEF Ended
<1> HIDE DEF new
<1>5. new \in Build
  BY <1>3 DEF Build
<1> QED BY <1>1, <1>3, <1>4, <1>5 DEF BuildFits

\* A step that sends nothing, ends the request or carries on, and at most
\* notes what became of its build and drops receipts.
LEMMA BuildStays ==
    ASSUME BuildFits, UNCHANGED posts, TaskFits',
           builds' = builds \/ (Building /\ \E state \in States : builds' = Ended(state)),
           receipts' \in [Profiles -> Seq(Builds)],
           \A p \in Profiles : receipts'[p] = receipts[p] \/ receipts'[p] = <<>>,
           \/ task'.at \notin {"post", "recent", "receipt"}
           \/ task' = task /\ profile' = profile
           \/ /\ task.at = "recent" /\ task'.at = "receipt"
              /\ task'.build = task.build /\ profile' = profile
    PROVE  BuildFits'
<1>1. /\ builds' \in [Builds -> Build]
      /\ \A n \in Builds : builds'[n].state = "none" <=> builds[n].state = "none"
      /\ \A n \in Builds : builds[n].state # "none" => builds'[n].for = builds[n].for
  <2>1. CASE builds' = builds
    BY <2>1 DEF BuildFits
  <2>2. CASE Building /\ \E state \in States : builds' = Ended(state)
    <3>1. task \in [at : {"post", "recent", "receipt"}, build : Builds, app : Apps]
      BY <2>2 DEF Building, BuildFits, TaskFits, NoTask
    <3> QED BY <2>2, <3>1, EndedIs
  <2> QED BY <2>1, <2>2
<1>2. NoBuildIsRetried' /\ UnsentFit'
  BY <1>1 DEF BuildFits, NoBuildIsRetried, UnsentFit
<1>3. ASSUME NEW p \in Profiles, NEW i \in 1..Len(receipts'[p])
      PROVE  /\ posts'[receipts'[p][i]].accepted > 0 /\ builds'[receipts'[p][i]].state # "none"
             /\ builds'[receipts'[p][i]].for = p
  <2>1. CASE receipts'[p] = <<>>
    <3>1. Len(<<>>) = 0
      BY EmptySeq
    <3> QED BY <2>1, <3>1
  <2>2. CASE receipts'[p] = receipts[p]
    <3>1. i \in 1..Len(receipts[p]) /\ receipts[p] \in Seq(Builds)
      BY <2>2 DEF BuildFits
    <3>2. receipts[p][i] \in Builds /\ Receipt(p, receipts[p][i])
      BY <3>1, ElementOfSeq DEF BuildFits, ReceiptsFit
    <3>3. posts[receipts[p][i]].accepted > 0
      BY <3>2 DEF Receipt
    <3> QED BY <1>1, <2>2, <3>2, <3>3 DEF Receipt
  <2> QED BY <2>1, <2>2
<1>4. ASSUME task'.at \in {"post", "recent", "receipt"}
      PROVE  /\ Building /\ task'.build = task.build /\ profile' = profile /\ task.build \in Builds
             /\ task'.at = "post" => task.at = "post"
             /\ task'.at \in {"recent", "receipt"} => task.at \in {"recent", "receipt"}
  BY <1>4 DEF Building, BuildFits, TaskFits, NoTask
<1>5. RequestFits'
  <2>1. CASE task'.at \in {"post", "recent", "receipt"}
    <3>1. RequestFits
      BY DEF BuildFits
    <3> QED BY <1>1, <1>4, <2>1, <3>1 DEF RequestFits, Building
  <2>2. CASE task'.at \notin {"post", "recent", "receipt"}
    BY <2>2 DEF RequestFits, Building
  <2> QED BY <2>1, <2>2
<1>6. ReceiptsFit'
  BY <1>3 DEF ReceiptsFit, Receipt
<1> QED BY <1>1, <1>2, <1>5, <1>6 DEF BuildFits

\* A confirmation: the next build, which nobody has sent.
LEMMA ConfirmFits ==
    ASSUME BuildFits, profile \in Profiles, NEW app \in Apps, Confirm(app),
           UNCHANGED <<profile, posts, receipts>>
    PROVE  BuildFits'
<1> DEFINE n == NextBuild  new == [state |-> "confirmed", app |-> app, for |-> profile]
<1>1. n \in Builds /\ builds[n].state = "none"
  BY NextBuildIs DEF Confirm
<1>2. builds' = [builds EXCEPT ![n] = new] /\ task' = [at |-> "post", build |-> n, app |-> app]
  BY DEF Confirm
<1>3. new \in Build /\ new.state = "confirmed" /\ new.for = profile
  BY DEF States, Build
<1> HIDE DEF n, new
<1>4. /\ builds' \in [Builds -> Build]
      /\ builds'[n] = new /\ \A m \in Builds \ {n} : builds'[m] = builds[m]
  BY <1>1, <1>2, <1>3 DEF BuildFits
<1>5. /\ TaskFits' /\ task'.at = "post" /\ task'.build = n
  BY <1>1, <1>2 DEF TaskFits
<1>6. posts[n].sent = 0
  BY <1>1 DEF BuildFits, UnsentFit
<1>7. ReceiptsFit'
  <2> SUFFICES ASSUME NEW p \in Profiles, NEW i \in 1..Len(receipts[p])
               PROVE  /\ posts[receipts[p][i]].accepted > 0 /\ builds'[receipts[p][i]].state # "none"
                      /\ builds'[receipts[p][i]].for = p
    BY DEF ReceiptsFit, Receipt
  <2>1. receipts[p] \in Seq(Builds)
    BY DEF BuildFits
  <2>2. receipts[p][i] \in Builds /\ Receipt(p, receipts[p][i])
    BY <2>1, ElementOfSeq DEF BuildFits, ReceiptsFit
  <2>3. receipts[p][i] # n
    BY <1>1, <2>2 DEF Receipt
  <2> QED BY <1>4, <2>2, <2>3 DEF Receipt
<1>8. UnsentFit'
  BY <1>3, <1>4 DEF BuildFits, UnsentFit
<1>9. RequestFits'
  BY <1>3, <1>4, <1>5, <1>6 DEF RequestFits, Building
<1> QED BY <1>4, <1>5, <1>7, <1>8, <1>9 DEF BuildFits, NoBuildIsRetried

\* The one POST of a build (_run_build).
LEMMA PostFits == BuildFits /\ Post => BuildFits'
<1> SUFFICES ASSUME BuildFits, Post PROVE BuildFits'
  OBVIOUS
<1> DEFINE b == task.build
<1>1. task \in [at : {"post", "recent", "receipt"}, build : Builds, app : Apps] /\ task.at = "post"
  BY DEF Post, BuildFits, TaskFits, NoTask
<1>2. b \in Builds /\ profile \in Profiles /\ posts[b].sent = 0 /\ posts[b] \in [sent : Nat, accepted : Nat]
      /\ builds[b].state # "none" /\ builds[b].for = profile
  BY <1>1 DEF BuildFits, RequestFits, Building
<1>3. PICK state \in {"accepted", "failed"} :
        /\ builds' = Ended(state)
        /\ posts' \in {Sent, [Sent EXCEPT ![task.build].accepted = @ + 1]}
        /\ state = "accepted" => /\ posts' = [Sent EXCEPT ![task.build].accepted = @ + 1]
                                 /\ task' = [task EXCEPT !.at = "recent"]
        /\ state = "failed" => task' = NoTask
  BY DEF Post
<1>4. UNCHANGED <<profile, receipts>>
  BY DEF Post
<1>5. /\ posts' \in [Builds -> [sent : Nat, accepted : Nat]]
      /\ posts'[b].sent = 1 /\ posts'[b].accepted >= posts[b].accepted
      /\ state = "accepted" => posts'[b].accepted > 0
      /\ \A m \in Builds \ {b} : posts'[m] = posts[m]
  <2> DEFINE old == posts[b]
             once == [old EXCEPT !.sent = @ + 1]  more == [once EXCEPT !.accepted = @ + 1]
  <2>a. old \in [sent : Nat, accepted : Nat] /\ old.sent = 0
    BY <1>2
  <2>b. old.accepted \in Nat
    BY <2>a
  <2>1. /\ once \in [sent : Nat, accepted : Nat] /\ once.sent = 1 /\ once.accepted = old.accepted
        /\ more \in [sent : Nat, accepted : Nat] /\ more.sent = 1 /\ more.accepted = old.accepted + 1
    <3> HIDE DEF old
    <3>1. once \in [sent : Nat, accepted : Nat] /\ once.sent = 1 /\ once.accepted = old.accepted
      BY <2>a
    <3> HIDE DEF once
    <3>2. more \in [sent : Nat, accepted : Nat]
      BY <3>1
    <3>3. more.sent = once.sent /\ more.accepted = once.accepted + 1
      BY <3>1
    <3> QED BY <3>1, <3>2, <3>3
  <2>2. Sent = [posts EXCEPT ![b] = once]
    BY DEF Sent
  <2>3. [Sent EXCEPT ![task.build].accepted = @ + 1] = [posts EXCEPT ![b] = more]
    BY <1>2, <2>2 DEF BuildFits
  <2> HIDE DEF once, more, b
  <2>4. posts \in [Builds -> [sent : Nat, accepted : Nat]] /\ posts[b].accepted \in Nat
    BY <1>2 DEF BuildFits
  <2>5. posts' = [posts EXCEPT ![b] = once] \/ posts' = [posts EXCEPT ![b] = more]
    BY <1>3, <2>2, <2>3
  <2>6. state = "accepted" => posts' = [posts EXCEPT ![b] = more]
    BY <1>3, <2>3
  <2> QED BY <1>2, <2>1, <2>4, <2>5, <2>6
<1>6. /\ builds' \in [Builds -> Build]
      /\ \A n \in Builds : builds'[n].state = "none" <=> builds[n].state = "none"
      /\ \A n \in Builds : builds[n].state # "none" => builds'[n].for = builds[n].for
  BY <1>1, <1>3, EndedIs DEF States
<1>7. /\ TaskFits' /\ task'.at = (IF state = "accepted" THEN "recent" ELSE "idle")
      /\ state = "accepted" => task'.build = b
  BY <1>1, <1>3 DEF TaskFits, NoTask
<1>8. NoBuildIsRetried'
  <2>1. \A m \in Builds : posts[m].sent <= 1
    BY DEF NoBuildIsRetried, BuildFits
  <2>2. \A m \in Builds : posts'[m].sent <= 1
    <3> SUFFICES ASSUME NEW m \in Builds PROVE posts'[m].sent <= 1
      OBVIOUS
    <3>1. CASE m = b
      <4>1. posts'[m].sent = 1
        BY <1>5, <3>1
      <4> QED BY <4>1
    <3>2. CASE m # b
      <4>1. posts'[m] = posts[m]
        BY <1>5, <3>2
      <4> QED BY <2>1, <4>1
    <3> QED BY <3>1, <3>2
  <2> QED BY <2>2 DEF NoBuildIsRetried
<1>9. UnsentFit'
  <2>1. UnsentFit
    BY DEF BuildFits
  <2> QED BY <1>2, <1>5, <1>6, <2>1 DEF UnsentFit
<1>10. ReceiptsFit'
  <2> SUFFICES ASSUME NEW p \in Profiles, NEW i \in 1..Len(receipts[p])
               PROVE  /\ posts'[receipts[p][i]].accepted > 0 /\ builds'[receipts[p][i]].state # "none"
                      /\ builds'[receipts[p][i]].for = p
    BY <1>4 DEF ReceiptsFit, Receipt
  <2> DEFINE n == receipts[p][i]
  <2>1. receipts[p] \in Seq(Builds)
    BY DEF BuildFits
  <2>2. n \in Builds /\ Receipt(p, n)
    BY <2>1, ElementOfSeq DEF BuildFits, ReceiptsFit
  <2> HIDE DEF n
  <2>3. posts \in [Builds -> [sent : Nat, accepted : Nat]] /\ posts' \in [Builds -> [sent : Nat, accepted : Nat]]
    BY <1>5 DEF BuildFits
  <2>4. posts[n].accepted \in Nat /\ posts'[n].accepted \in Nat
    BY <2>2, <2>3
  <2>5. posts'[n].accepted >= posts[n].accepted
    BY <1>5, <2>2, <2>4
  <2>6. posts'[n].accepted > 0
    BY <2>2, <2>4, <2>5 DEF Receipt
  <2> QED BY <1>6, <2>2, <2>6 DEF Receipt, n
<1>11. RequestFits'
  BY <1>2, <1>4, <1>5, <1>6, <1>7 DEF RequestFits, Building
<1> QED BY <1>4, <1>5, <1>6, <1>7, <1>8, <1>9, <1>10, <1>11 DEF BuildFits

\* The receipt of the build in progress becomes the latest of its profile.
LEMMA AddReceiptFits == BuildFits /\ AddReceipt => BuildFits'
<1> SUFFICES ASSUME BuildFits, AddReceipt PROVE BuildFits'
  OBVIOUS
<1>1. task \in [at : {"post", "recent", "receipt"}, build : Builds, app : Apps] /\ task.at = "receipt"
  BY DEF AddReceipt, BuildFits, TaskFits, NoTask
<1>2. /\ task.build \in Builds /\ profile \in Profiles /\ posts[task.build].accepted > 0
      /\ builds[task.build].state # "none" /\ builds[task.build].for = profile
  BY <1>1 DEF BuildFits, RequestFits, Building
<1>3. task' = NoTask /\ TaskFits' /\ task'.at = "idle"
  BY DEF AddReceipt, TaskFits, NoTask
<1>4. UNCHANGED <<profile, posts>>
  BY DEF AddReceipt, adapterVars
<1>5. CASE builds' = Ended("unpersisted") /\ UNCHANGED receipts
  <2>1. Building
    BY <1>1 DEF Building
  <2> QED BY <1>3, <1>4, <1>5, <2>1, BuildStays DEF States, BuildFits
<1>6. CASE /\ builds' = Ended("receipted")
           /\ \E rows \in {receipts[profile], <<>>} : WriteReceipts(WithReceipt(rows))
  <2>1. PICK rows \in {receipts[profile], <<>>} : WriteReceipts(WithReceipt(rows))
    BY <1>6
  <2> DEFINE all == Append(rows, task.build)  new == LastOf(all, ReceiptLimit)
  <2>2. rows \in Seq(Builds) /\ Len(rows) \in Nat /\ \A i \in 1..Len(rows) : Receipt(profile, rows[i])
    <3>1. CASE rows = receipts[profile]
      BY <1>2, <3>1 DEF BuildFits, ReceiptsFit
    <3>2. CASE rows = <<>>
      BY <3>2, EmptySeq
    <3> QED BY <3>1, <3>2
  <2>3. /\ all \in Seq(Builds) /\ Len(all) = Len(rows) + 1
        /\ \A i \in 1..Len(rows) : all[i] = rows[i]
        /\ all[Len(rows) + 1] = task.build
    BY <1>2, <2>2, AppendProperties
  <2> HIDE DEF all
  <2>4. ASSUME NEW i \in 1..Len(all) PROVE Receipt(profile, all[i])
    <3>1. CASE i \in 1..Len(rows)
      BY <2>2, <2>3, <3>1
    <3>2. CASE i = Len(rows) + 1
      BY <1>2, <2>3, <3>2 DEF Receipt
    <3> QED BY <2>2, <2>3, <3>1, <3>2
  <2>5. /\ new \in Seq(Builds)
        /\ \A i \in 1..Len(new) : \E j \in 1..Len(all) : new[i] = all[j]
    <3>1. ReceiptLimit \in Nat \ {0}
      BY MagnusBounds
    <3> QED BY <2>3, <3>1, LastOfProperties
  <2>6. receipts' = [receipts EXCEPT ![profile] = new]
    BY <2>1 DEF WriteReceipts, WithReceipt, all
  <2> HIDE DEF new
  <2>7. receipts' \in [Profiles -> Seq(Builds)] /\ receipts'[profile] = new
        /\ \A p \in Profiles \ {profile} : receipts'[p] = receipts[p]
    BY <1>2, <2>5, <2>6 DEF BuildFits
  <2>8. /\ builds' \in [Builds -> Build]
        /\ \A n \in Builds : builds'[n].state = "none" <=> builds[n].state = "none"
        /\ \A n \in Builds : builds[n].state # "none" => builds'[n].for = builds[n].for
    BY <1>1, <1>6, EndedIs DEF States
  <2>9. ReceiptsFit'
    <3> SUFFICES ASSUME NEW p \in Profiles, NEW i \in 1..Len(receipts'[p])
                 PROVE  /\ posts[receipts'[p][i]].accepted > 0 /\ builds'[receipts'[p][i]].state # "none"
                        /\ builds'[receipts'[p][i]].for = p
      BY <1>4 DEF ReceiptsFit, Receipt
    <3> DEFINE n == receipts'[p][i]
    <3>1. n \in Builds
      BY <2>7, ElementOfSeq
    <3>2. Receipt(p, n)
      <4>1. CASE p = profile
        BY <2>4, <2>5, <2>7, <4>1
      <4>2. CASE p # profile
        BY <2>7, <4>2 DEF BuildFits, ReceiptsFit
      <4> QED BY <4>1, <4>2
    <3> HIDE DEF n
    <3> QED BY <2>8, <3>1, <3>2 DEF Receipt, n
  <2>10. NoBuildIsRetried' /\ UnsentFit'
    BY <1>4, <2>8 DEF BuildFits, NoBuildIsRetried, UnsentFit
  <2>11. RequestFits'
    BY <1>3 DEF RequestFits, Building
  <2>12. posts' \in [Builds -> [sent : Nat, accepted : Nat]]
    BY <1>4 DEF BuildFits
  <2> QED BY <1>3, <2>7, <2>8, <2>9, <2>10, <2>11, <2>12 DEF BuildFits
<1> QED BY <1>5, <1>6 DEF AddReceipt

LEMMA BuildKeeps ==
    ASSUME RegistryFits, TaskFits', BuildFits, [Next]_vars
    PROVE  BuildFits'
<1>a. receipts \in [Profiles -> Seq(Builds)] /\ TaskFits
  BY DEF BuildFits
<1>1. ASSUME UNCHANGED <<task, profile, receipts, builds, posts>> PROVE BuildFits'
  BY <1>a, <1>1, BuildStays
<1>2. ASSUME task.at \notin {"post", "recent", "receipt"}, task'.at \notin {"post", "recent", "receipt"},
             UNCHANGED <<receipts, builds, posts>>
      PROVE  BuildFits'
  BY <1>a, <1>2, BuildStays
<1>3. ASSUME NEW p \in Profiles, Switch(p) PROVE BuildFits'
  <2>1. UNCHANGED <<task, receipts, builds, posts>> /\ task.at = "idle"
    BY <1>3 DEF Switch, Ready, buildVars
  <2> QED BY <1>2, <2>1
<1>4. ASSUME NEW p \in Profiles, RemoveProfile(p) PROVE BuildFits'
  <2>1. UNCHANGED <<task, builds, posts>> /\ task.at = "idle"
    BY <1>4 DEF RemoveProfile, Ready
  <2>2. receipts' = receipts \/ receipts' = [receipts EXCEPT ![p] = <<>>]
    BY <1>4 DEF RemoveProfile
  <2>3. /\ receipts' \in [Profiles -> Seq(Builds)]
        /\ \A q \in Profiles : receipts'[q] = receipts[q] \/ receipts'[q] = <<>>
    BY <1>a, <2>2, EmptySeq
  <2> QED BY <2>1, <2>3, BuildStays
<1>5. ASSUME NEW app \in Apps, BuildShown(app) PROVE BuildFits'
  <2>1. Found(app) /\ Confirm(app) /\ UNCHANGED <<profile, posts, receipts>>
    BY <1>5 DEF BuildShown
  <2> QED BY <2>1, UsedKeeps, ConfirmFits
<1>6. ASSUME NEW app \in Apps, BuildRecent(app) PROVE BuildFits'
  <2>1. profile \in Profiles
    BY <1>6 DEF BuildRecent, Resolves, RegistryFits
  <2>2. Confirm(app) /\ UNCHANGED <<profile, posts, receipts>>
    BY <1>6 DEF BuildRecent, adapterVars
  <2> QED BY <2>1, <2>2, ConfirmFits
<1>7. ASSUME NEW item \in Items, Describe(item) PROVE BuildFits'
  BY <1>1, <1>7 DEF Describe, buildVars
<1>8. ASSUME NEW file \in Files, Preview(file) PROVE BuildFits'
  BY <1>1, <1>8 DEF Preview, buildVars
<1>9. ASSUME NEW file \in Files, Download(file) PROVE BuildFits'
  <2>1. task.at = "idle" /\ UNCHANGED <<receipts, builds, posts>>
    BY <1>9 DEF Download, Ready, buildVars
  <2>2. task'.at \in {"idle", "name"}
    <3>1. task' = NoTask \/ task' = [at |-> "name", name |-> 1, created |-> FALSE]
      BY <1>9 DEF Download
    <3> QED BY <3>1 DEF NoTask
  <2> QED BY <1>2, <2>1, <2>2
<1>10. CASE ResetAccess \/ Probe \/ Browse \/ ClearRecents \/ OthersFiles \/ UNCHANGED vars
  BY <1>1, <1>10 DEF ResetAccess, Probe, Browse, ClearRecents, OthersFiles, vars, adapterVars, buildVars
<1>11. CASE Post
  BY <1>11, PostFits
<1>12. CASE AddReceipt
  BY <1>12, AddReceiptFits
<1>13. CASE AddRecent
  <2>1. task.at = "recent" /\ UNCHANGED <<profile, receipts, posts>>
    BY <1>13 DEF AddRecent, adapterVars
  <2>2. task \in [at : {"post", "recent", "receipt"}, build : Builds, app : Apps]
    BY <1>a, <2>1 DEF TaskFits, NoTask
  <2>3. CASE task' = [task EXCEPT !.at = "receipt"] /\ builds' = builds
    <3>1. task'.at = "receipt" /\ task'.build = task.build
      BY <2>2, <2>3
    <3> QED BY <1>a, <2>1, <2>3, <3>1, BuildStays
  <2>4. CASE task' = NoTask /\ builds' = Ended("dropped")
    <3>1. task'.at = "idle" /\ Building /\ "dropped" \in States
      BY <2>1, <2>4 DEF NoTask, Building, States
    <3> QED BY <1>a, <2>1, <2>4, <3>1, BuildStays
  <2> QED BY <1>13, <2>3, <2>4 DEF AddRecent
<1>14. CASE BrokerRestart
  <2>1. task' = NoTask /\ UNCHANGED <<profile, receipts, posts>>
    BY <1>14 DEF BrokerRestart
  <2>2. builds' = builds \/ (Building /\ builds' = Ended("crashed"))
    <3>1. CASE "build" \in DOMAIN task
      <4>1. Building
        BY <1>a, <3>1 DEF TaskFits, NoTask, Building
      <4> QED BY <1>14, <3>1, <4>1 DEF BrokerRestart
    <3>2. CASE "build" \notin DOMAIN task
      BY <1>14, <3>2 DEF BrokerRestart
    <3> QED BY <3>1, <3>2
  <2>3. task'.at = "idle" /\ "crashed" \in States
    BY <2>1 DEF NoTask, States
  <2> QED BY <1>a, <2>1, <2>2, <2>3, BuildStays
<1>15. CASE TryName \/ WriteFile \/ Cleanup
  <2>1. task.at \in {"name", "write", "cleanup"} /\ UNCHANGED <<receipts, builds, posts>>
    BY <1>15 DEF TryName, WriteFile, Cleanup, buildVars
  <2>2. task \in [at : {"name", "write", "cleanup"}, name : Names, created : BOOLEAN]
    BY <1>a, <2>1 DEF TaskFits, NoTask
  <2>3. \/ task' = NoTask \/ task' = [task EXCEPT !.at = "cleanup"]
        \/ task' = [task EXCEPT !.at = "write", !.created = TRUE]
        \/ task.at = "name" /\ task' = [task EXCEPT !.name = @ + 1]
    BY <1>15 DEF TryName, WriteFile, Cleanup
  <2>4. task'.at \in {"idle", "name", "write", "cleanup"}
    <3>1. CASE task' = NoTask
      BY <3>1 DEF NoTask
    <3>2. CASE task' = [task EXCEPT !.at = "cleanup"]
      BY <2>2, <3>2
    <3>3. CASE task' = [task EXCEPT !.at = "write", !.created = TRUE]
      BY <2>2, <3>3
    <3>4. CASE task.at = "name" /\ task' = [task EXCEPT !.name = @ + 1]
      BY <2>2, <3>4
    <3> QED BY <2>3, <3>1, <3>2, <3>3, <3>4
  <2> QED BY <1>2, <2>1, <2>4
<1> QED BY <1>3, <1>4, <1>5, <1>6, <1>7, <1>8, <1>9, <1>10, <1>11, <1>12, <1>13, <1>14, <1>15 DEF Next

MagnusInv == RegistryFits /\ DownloadFits /\ BuildFits

LEMMA MagnusInit == Init => MagnusInv
BY RegistryInit, DownloadInit, BuildInit DEF MagnusInv

LEMMA MagnusNext == MagnusInv /\ [Next]_vars => MagnusInv'
<1> SUFFICES ASSUME MagnusInv, [Next]_vars PROVE MagnusInv'
  OBVIOUS
<1>1. RegistryFits' /\ DownloadFits'
  BY RegistryKeeps, DownloadKeeps DEF MagnusInv
<1>2. TaskFits'
  BY <1>1 DEF DownloadFits
<1> QED BY <1>1, <1>2, BuildKeeps DEF MagnusInv

\* Whatever is lost, fails or crashes, and whoever asks again: a confirmation
\* sends at most one request to Magnus (_run_build, _complete_build).
THEOREM BuildsSentOnce == Spec => []NoBuildIsRetried
<1>1. MagnusInv => NoBuildIsRetried
  BY DEF MagnusInv, BuildFits
<1> QED BY <1>1, MagnusInit, MagnusNext, PTL DEF Spec

\* A receipt in a profile's history is of a build Magnus accepted, confirmed
\* under that profile (_complete_build, BuildReceiptStore).
THEOREM ReceiptsTrue == Spec => []ReceiptsAreTrue
<1>1. ASSUME MagnusInv PROVE ReceiptsAreTrue
  <2> SUFFICES ASSUME NEW p \in Profiles, NEW n \in Range(receipts[p])
               PROVE  posts[n].accepted > 0 /\ builds[n].for = p
    BY DEF ReceiptsAreTrue
  <2>1. receipts[p] \in Seq(Builds) /\ ReceiptsFit
    BY <1>1 DEF MagnusInv, BuildFits
  <2>2. PICK i \in 1..Len(receipts[p]) : n = receipts[p][i]
    BY <2>1, LenProperties DEF Range
  <2>3. Receipt(p, n)
    BY <2>1, <2>2 DEF ReceiptsFit
  <2> QED BY <2>3 DEF Receipt
<1> QED BY <1>1, MagnusInit, MagnusNext, PTL DEF Spec
================================================================================
