----------------------------- MODULE JobRunsProofs -----------------------------
(***************************************************************************)
(* Proofs about running a scheduled job, for any number of profiles, jobs, *)
(* placements, requests, drafts and changes of the Rock servers.           *)
(***************************************************************************)
EXTENDS JobRuns, SequenceTheorems, FiniteSetTheorems, TLAPS

Members(s) == {s[i] : i \in 1 .. Len(s)}
Ids(s) == {s[i].id : i \in 1 .. Len(s)}
Distinct(s) == \A i, j \in 1 .. Len(s) : s[i].id = s[j].id => i = j
TaskIds == IF task.step = "idle" THEN {} ELSE {task.id}

(* A request has one line or one answer, in one place.                     *)
Apart(q, live, lost, served_ids, as) ==
    /\ Distinct(q) /\ Distinct(live) /\ Distinct(lost) /\ Distinct(as)
    /\ Ids(q) \cap (Ids(live) \cup Ids(lost) \cup served_ids \cup Ids(as)) = {}
    /\ Ids(live) \cap (Ids(lost) \cup served_ids \cup Ids(as)) = {}
    /\ Ids(lost) \cap (served_ids \cup Ids(as)) = {}
    /\ served_ids \cap Ids(as) = {}
OnePlace == Apart(queue, wire["live"], wire["lost"], TaskIds, answers)

Lines == Members(queue) \cup Members(wire["live"]) \cup Members(wire["lost"])

(* What a line asks for has not happened, and the user knows no outcome;   *)
(* an answer says what has happened, and is the only one.                  *)
Pending(op, id) ==
    /\ id <= revision /\ times[id] = 0
    /\ told[id] \in IF op = "job_run" THEN {"open", "unknown"} ELSE {"unasked"}
AnswerTrue(a) ==
    /\ a.id <= revision /\ told[a.id] \in {"unasked", "open", "unknown"}
    /\ a.state = "requested" => times[a.id] = 1
    /\ a.state \in {"error", "denied"} => times[a.id] = 0
LinesFit ==
    /\ \A l \in Lines : Pending(l.op, l.id)
    /\ \A a \in Members(answers) : AnswerTrue(a)

(* The handler: which reads belong to which request, and what the ones so  *)
(* far have shown.                                                         *)
TaskFits ==
    /\ task.step = "idle" => task = NoTask
    /\ task.step # "idle" =>
         /\ task.op \in Ops /\ task.id \in Requests
         /\ task.step = "record" =>
              task.id <= revision /\ times[task.id] = 1 /\ told[task.id] \in {"open", "unknown"}
         /\ task.step # "record" => Pending(task.op, task.id)
    /\ task.step \in {"access", "post", "record"} => task.op = "job_run"
    /\ task.step = "row" =>
         \/ task.op = "job_run"
         \/ task.op = "job_prepare" /\ placement # NoPlace
    /\ task.op = "job_run" /\ task.step \in {"access", "row", "post", "record"} =>
         task.draft \in Draft /\ task.draft.profile = profile
    /\ task.op = "job_run" /\ task.step \in {"row", "post"} /\ ~task.raced =>
         task.draft.place = rock[profile].place
    /\ task.step = "post" /\ ~task.raced => task.draft.job = rock[profile].job
    /\ \A d \in drafts : d.profile = profile

(* The panel: a run it waits for is open, and higher numbers are unused.   *)
PanelFits ==
    /\ panel.request <= revision
    /\ panel.phase = "sending" => panel.request \in Requests /\ told[panel.request] = "open"
    /\ \A r \in Requests : r > revision => told[r] = "unasked" /\ times[r] = 0

ConnectionTyped ==
    /\ queue \in Seq(Request) /\ connected \in BOOLEAN
    /\ wire \in [{"live", "lost"} -> Seq(Request)]
    /\ answers \in Seq(Answer) /\ served \in BOOLEAN
ManagerTyped ==
    /\ drafts \subseteq Draft /\ IsFiniteSet(drafts) /\ Cardinality(drafts) <= DraftLimit
    /\ placement \in Places \cup {NoPlace} /\ profile \in Profiles
TheirIds == {l.id : l \in Lines} \cup TaskIds \cup Ids(answers)

JobInv ==
    /\ JobTypeOK /\ IsFiniteSet(drafts)
    /\ OnePlace /\ LinesFit /\ TaskFits /\ PanelFits
-----------------------------------------------------------------------------
(* Lines in sequences.                                                     *)

LEMMA EmptyLines ==
    Members(<<>>) = {} /\ Ids(<<>>) = {} /\ Distinct(<<>>)
BY DEF Members, Ids, Distinct

LEMMA IdsOfMembers ==
    ASSUME NEW S, NEW s \in Seq(S)
    PROVE  Ids(s) = {l.id : l \in Members(s)} /\ Members(s) \subseteq S
BY DEF Members, Ids

LEMMA AppendLines ==
    ASSUME NEW S, NEW s \in Seq(S), NEW e \in S
    PROVE  /\ Append(s, e) \in Seq(S)
           /\ Members(Append(s, e)) = Members(s) \cup {e}
           /\ Ids(Append(s, e)) = Ids(s) \cup {e.id}
           /\ Distinct(s) /\ e.id \notin Ids(s) => Distinct(Append(s, e))
<1> DEFINE t == Append(s, e)
<1>1. t \in Seq(S) /\ Len(t) = Len(s) + 1 /\ t[Len(s) + 1] = e /\ Len(s) \in Nat
      /\ \A i \in 1 .. Len(s) : t[i] = s[i]
    OBVIOUS
<1> HIDE DEF t
<1>2. Members(t) = Members(s) \cup {e}
    BY <1>1 DEF Members
<1>3. Ids(t) = Ids(s) \cup {e.id}
    BY <1>1 DEF Ids
<1>4. Distinct(s) /\ e.id \notin Ids(s) => Distinct(t)
    BY <1>1 DEF Distinct, Ids
<1> QED BY <1>1, <1>2, <1>3, <1>4 DEF t

LEMMA ConcatLines ==
    ASSUME NEW S, NEW s \in Seq(S), NEW u \in Seq(S)
    PROVE  /\ s \o u \in Seq(S)
           /\ Members(s \o u) = Members(s) \cup Members(u)
           /\ Ids(s \o u) = Ids(s) \cup Ids(u)
           /\ Distinct(s) /\ Distinct(u) /\ Ids(s) \cap Ids(u) = {} => Distinct(s \o u)
<1> DEFINE t == s \o u
<1>1. /\ t \in Seq(S) /\ Len(t) = Len(s) + Len(u) /\ Len(s) \in Nat /\ Len(u) \in Nat
      /\ \A i \in 1 .. Len(t) : t[i] = IF i <= Len(s) THEN s[i] ELSE u[i - Len(s)]
    BY ConcatProperties
<1> HIDE DEF t
<1>2. \A i \in 1 .. Len(t) : i <= Len(s) => i \in 1 .. Len(s) /\ t[i] = s[i]
    BY <1>1
<1>3. \A i \in 1 .. Len(t) : ~(i <= Len(s)) => i - Len(s) \in 1 .. Len(u) /\ t[i] = u[i - Len(s)]
    BY <1>1
<1>4. \A i \in 1 .. Len(s) : i \in 1 .. Len(t) /\ t[i] = s[i]
    BY <1>1
<1>5. ASSUME NEW i \in 1 .. Len(u) PROVE i + Len(s) \in 1 .. Len(t) /\ t[i + Len(s)] = u[i]
    <2>1. Len(s) \in Nat /\ Len(u) \in Nat /\ Len(t) = Len(s) + Len(u)
        BY <1>1
    <2>2. i + Len(s) \in 1 .. Len(t) /\ ~(i + Len(s) <= Len(s)) /\ (i + Len(s)) - Len(s) = i
        BY <2>1
    <2> QED BY <1>1, <2>2
<1>6. Members(t) = Members(s) \cup Members(u)
    <2>1. \A i \in 1 .. Len(t) : t[i] \in Members(s) \cup Members(u)
        BY <1>2, <1>3 DEF Members
    <2>2. \A i \in 1 .. Len(s) : s[i] \in Members(t)
        BY <1>4 DEF Members
    <2>3. \A i \in 1 .. Len(u) : u[i] \in Members(t)
        BY <1>5 DEF Members
    <2>4. Members(t) \subseteq Members(s) \cup Members(u)
        BY <2>1 DEF Members
    <2>5. Members(s) \subseteq Members(t) /\ Members(u) \subseteq Members(t)
        BY <2>2, <2>3 DEF Members
    <2> QED BY <2>4, <2>5
<1>7. Ids(t) = Ids(s) \cup Ids(u)
    <2>1. \A i \in 1 .. Len(t) : t[i].id \in Ids(s) \cup Ids(u)
        BY <1>2, <1>3 DEF Ids
    <2>2. \A i \in 1 .. Len(s) : s[i].id \in Ids(t)
        BY <1>4 DEF Ids
    <2>3. \A i \in 1 .. Len(u) : u[i].id \in Ids(t)
        BY <1>5 DEF Ids
    <2>4. Ids(t) \subseteq Ids(s) \cup Ids(u)
        BY <2>1 DEF Ids
    <2>5. Ids(s) \subseteq Ids(t) /\ Ids(u) \subseteq Ids(t)
        BY <2>2, <2>3 DEF Ids
    <2> QED BY <2>4, <2>5
<1>8. ASSUME Distinct(s), Distinct(u), Ids(s) \cap Ids(u) = {} PROVE Distinct(t)
    <2> SUFFICES ASSUME NEW i \in 1 .. Len(t), NEW j \in 1 .. Len(t), t[i].id = t[j].id PROVE i = j
        BY DEF Distinct
    <2>1. CASE i <= Len(s) /\ j <= Len(s)
        BY <1>2, <1>8, <2>1 DEF Distinct
    <2>2. CASE ~(i <= Len(s)) /\ ~(j <= Len(s))
        <3>1. i - Len(s) = j - Len(s)
            BY <1>3, <1>8, <2>2 DEF Distinct
        <3> QED BY <1>1, <3>1
    <2>0. \A k \in 1 .. Len(t) : t[k].id \in IF k <= Len(s) THEN Ids(s) ELSE Ids(u)
        BY <1>2, <1>3 DEF Ids
    <2>3. CASE i <= Len(s) /\ ~(j <= Len(s))
        BY <1>8, <2>0, <2>3
    <2>4. CASE ~(i <= Len(s)) /\ j <= Len(s)
        BY <1>8, <2>0, <2>4
    <2> QED BY <2>1, <2>2, <2>3, <2>4
<1> QED BY <1>1, <1>6, <1>7, <1>8 DEF t

LEMMA SplitLines ==
    ASSUME NEW S, NEW s \in Seq(S), NEW n \in 0 .. Len(s)
    PROVE  LET a == SubSeq(s, 1, n)  b == SubSeq(s, n + 1, Len(s)) IN
           /\ a \in Seq(S) /\ b \in Seq(S)
           /\ Members(a) \cup Members(b) \subseteq Members(s)
           /\ Ids(a) \cup Ids(b) \subseteq Ids(s)
           /\ Distinct(s) => Distinct(a) /\ Distinct(b) /\ Ids(a) \cap Ids(b) = {}
<1> DEFINE a == SubSeq(s, 1, n)  b == SubSeq(s, n + 1, Len(s))
<1>0. Len(s) \in Nat /\ n \in Nat /\ n <= Len(s)
    OBVIOUS
<1>1. a \in Seq(S) /\ Len(a) = n /\ \A i \in 1 .. n : i \in 1 .. Len(s) /\ a[i] = s[i]
    BY <1>0, SubSeqProperties
<1>2. b \in Seq(S) /\ Len(b) = Len(s) - n
    BY <1>0, SubSeqProperties
<1>3. \A i \in 1 .. Len(s) - n : n + i \in 1 .. Len(s) /\ b[i] = s[n + i]
    <2> SUFFICES ASSUME NEW i \in 1 .. Len(s) - n PROVE n + i \in 1 .. Len(s) /\ b[i] = s[n + i]
        OBVIOUS
    <2>1. b[i] = s[(n + 1) + i - 1]
        BY <1>0, SubSeqProperties
    <2> QED BY <1>0, <2>1
<1> HIDE DEF a, b
<1>4. Members(a) \subseteq Members(s) /\ Ids(a) \subseteq Ids(s)
    BY <1>1 DEF Members, Ids
<1>5. Members(b) \subseteq Members(s) /\ Ids(b) \subseteq Ids(s)
    BY <1>2, <1>3 DEF Members, Ids
<1>6. ASSUME Distinct(s) PROVE Distinct(a) /\ Distinct(b) /\ Ids(a) \cap Ids(b) = {}
    <2>1. Distinct(a)
        BY <1>1, <1>6 DEF Distinct
    <2>2. Distinct(b)
        BY <1>0, <1>2, <1>3, <1>6 DEF Distinct
    <2>3. ASSUME NEW i \in 1 .. Len(a), NEW j \in 1 .. Len(b) PROVE a[i].id # b[j].id
        <3>1. i \in 1 .. Len(s) /\ a[i] = s[i] /\ i <= n
            BY <1>0, <1>1
        <3>2. n + j \in 1 .. Len(s) /\ b[j] = s[n + j]
            BY <1>0, <1>2, <1>3
        <3>3. i # n + j
            BY <1>0, <1>2, <3>1
        <3> QED BY <1>6, <3>1, <3>2, <3>3 DEF Distinct
    <2> QED BY <2>1, <2>2, <2>3 DEF Ids
<1> QED BY <1>1, <1>2, <1>4, <1>5, <1>6 DEF a, b

LEMMA TailLines ==
    ASSUME NEW S, NEW s \in Seq(S), s # <<>>
    PROVE  /\ Head(s) \in Members(s) /\ Head(s) \in S /\ Head(s).id \in Ids(s)
           /\ Tail(s) \in Seq(S) /\ Members(Tail(s)) \subseteq Members(s)
           /\ Ids(Tail(s)) \subseteq Ids(s)
           /\ Distinct(s) => Distinct(Tail(s)) /\ Head(s).id \notin Ids(Tail(s))
<1> DEFINE t == Tail(s)
<1>1. /\ t \in Seq(S) /\ Len(s) \in Nat /\ Len(s) > 0 /\ Len(t) = Len(s) - 1 /\ Head(s) = s[1]
      /\ s[1] \in S /\ \A i \in 1 .. Len(t) : t[i] = s[i + 1] /\ i + 1 \in 1 .. Len(s)
    BY HeadTailProperties, EmptySeq
<1> HIDE DEF t
<1>2. Head(s) \in Members(s) /\ Head(s).id \in Ids(s)
    BY <1>1 DEF Members, Ids
<1>3. Members(t) \subseteq Members(s) /\ Ids(t) \subseteq Ids(s)
    <2>1. ASSUME NEW i \in 1 .. Len(t) PROVE t[i] \in Members(s) /\ t[i].id \in Ids(s)
        <3>1. t[i] = s[i + 1] /\ i + 1 \in 1 .. Len(s)
            BY <1>1
        <3> QED BY <3>1 DEF Members, Ids
    <2> QED BY <2>1 DEF Members, Ids
<1>4. ASSUME Distinct(s) PROVE Distinct(t) /\ Head(s).id \notin Ids(t)
    <2>1. \A i, j \in 1 .. Len(t) : t[i].id = t[j].id => i + 1 = j + 1
        BY <1>1, <1>4 DEF Distinct
    <2>2. \A i \in 1 .. Len(t) : t[i].id # s[1].id
        <3>1. 1 \in 1 .. Len(s)
            BY <1>1
        <3>2. \A i \in 1 .. Len(t) : i + 1 # 1
            OBVIOUS
        <3> QED BY <1>1, <1>4, <3>1, <3>2 DEF Distinct
    <2>3. Distinct(t)
        BY <2>1 DEF Distinct
    <2> QED BY <1>1, <2>2, <2>3 DEF Ids
<1> QED BY <1>1, <1>2, <1>3, <1>4 DEF t
-----------------------------------------------------------------------------
(* The connection.                                                         *)

LEMMA Typed ==
    ASSUME JobInv
    PROVE  /\ ConnectionTyped /\ ManagerTyped
           /\ panel \in Panel /\ revision \in 0 .. MaxRequests /\ task \in Task
           /\ told \in [Requests -> {"unasked", "open", "done", "not_done", "unknown"}]
           /\ rock \in [Profiles -> Server] /\ changes \in 0 .. MaxChanges
           /\ times \in [Requests -> Nat]
BY DEF JobInv, JobTypeOK, ConnectionTyped, ManagerTyped

LEMMA DownFits ==
    ASSUME ConnectionTyped, NEW written \in Seq(Request), NEW rest \in Seq(Request), NEW T,
           Apart(rest, wire["live"], wire["lost"], T, answers), Distinct(written),
           Ids(written) \cap (Ids(rest) \cup Ids(wire["live"]) \cup Ids(wire["lost"]) \cup T) = {},
           Down(written, rest)
    PROVE  /\ ConnectionTyped'
           /\ Apart(queue', wire'["live"], wire'["lost"], T, answers')
           /\ Lines' = Members(rest) \cup Members(wire["live"]) \cup Members(wire["lost"])
                         \cup Members(written)
           /\ answers' = <<>>
<1>1. wire["live"] \in Seq(Request) /\ wire["lost"] \in Seq(Request) /\ <<>> \in Seq(Request)
      /\ <<>> \in Seq(Answer)
    BY DEF ConnectionTyped
<1> DEFINE a == wire["lost"] \o wire["live"]
<1>2. /\ a \in Seq(Request) /\ Members(a) = Members(wire["lost"]) \cup Members(wire["live"])
      /\ Ids(a) = Ids(wire["lost"]) \cup Ids(wire["live"]) /\ Distinct(a)
    BY <1>1, ConcatLines DEF Apart
<1> DEFINE b == a \o written
<1> HIDE DEF a
<1>3. /\ b \in Seq(Request) /\ Members(b) = Members(a) \cup Members(written)
      /\ Ids(b) = Ids(a) \cup Ids(written) /\ Distinct(b)
    BY <1>2, ConcatLines
<1>4. wire' = [wire EXCEPT !["live"] = <<>>, !["lost"] = b]
    BY DEF Down, ConnectionTyped, a
<1> HIDE DEF b
<1>5. wire'["live"] = <<>> /\ wire'["lost"] = b /\ wire' \in [{"live", "lost"} -> Seq(Request)]
    BY <1>1, <1>3, <1>4 DEF ConnectionTyped
<1>6. queue' = rest /\ answers' = <<>> /\ connected' = FALSE /\ served' = FALSE
    BY DEF Down
<1>7. ConnectionTyped'
    BY <1>1, <1>5, <1>6 DEF ConnectionTyped
<1>8. Apart(queue', wire'["live"], wire'["lost"], T, answers')
    BY <1>2, <1>3, <1>5, <1>6, EmptyLines DEF Apart
<1>9. Lines' = Members(rest) \cup Members(wire["live"]) \cup Members(wire["lost"]) \cup Members(written)
    BY <1>2, <1>3, <1>5, <1>6, EmptyLines DEF Lines
<1> QED BY <1>6, <1>7, <1>8, <1>9

LEMMA FlushFits ==
    ASSUME ConnectionTyped, NEW lines \in Seq(Request), NEW T,
           Apart(lines, wire["live"], wire["lost"], T, answers), Flush(lines)
    PROVE  /\ ConnectionTyped'
           /\ Apart(queue', wire'["live"], wire'["lost"], T, answers')
           /\ Lines' \subseteq Members(lines) \cup Members(wire["live"]) \cup Members(wire["lost"])
           /\ answers' = answers \/ answers' = <<>>
<1>1. wire["live"] \in Seq(Request) /\ wire["lost"] \in Seq(Request)
    BY DEF ConnectionTyped
<1>2. CASE /\ connected' = TRUE /\ queue' = <<>>
           /\ wire' = [wire EXCEPT !["live"] = wire["live"] \o lines]
           /\ UNCHANGED <<answers, served>>
    <2> DEFINE a == wire["live"] \o lines
    <2>1. /\ a \in Seq(Request) /\ Members(a) = Members(wire["live"]) \cup Members(lines)
          /\ Ids(a) = Ids(wire["live"]) \cup Ids(lines) /\ Distinct(a)
        BY <1>1, ConcatLines DEF Apart
    <2> HIDE DEF a
    <2>2. wire'["live"] = a /\ wire'["lost"] = wire["lost"]
          /\ wire' \in [{"live", "lost"} -> Seq(Request)]
        BY <1>2, <2>1 DEF ConnectionTyped, a
    <2>3. ConnectionTyped' /\ queue' = <<>>
        BY <1>2, <2>2 DEF ConnectionTyped
    <2>4. Apart(queue', wire'["live"], wire'["lost"], T, answers')
        BY <1>2, <2>1, <2>2, EmptyLines DEF Apart
    <2>5. Lines' \subseteq Members(lines) \cup Members(wire["live"]) \cup Members(wire["lost"])
        BY <2>1, <2>2, <2>3, EmptyLines DEF Lines
    <2> QED BY <1>2, <2>3, <2>4, <2>5
<1>3. ASSUME NEW n \in 0 .. Len(lines) - 1,
             Down(SubSeq(lines, 1, n), SubSeq(lines, n + 1, Len(lines)))
      PROVE  /\ ConnectionTyped'
             /\ Apart(queue', wire'["live"], wire'["lost"], T, answers')
             /\ Lines' \subseteq Members(lines) \cup Members(wire["live"]) \cup Members(wire["lost"])
             /\ answers' = answers \/ answers' = <<>>
    <2> DEFINE a == SubSeq(lines, 1, n)  b == SubSeq(lines, n + 1, Len(lines))
    <2>1. n \in 0 .. Len(lines)
        BY <1>3
    <2>2. /\ a \in Seq(Request) /\ b \in Seq(Request)
          /\ Members(a) \cup Members(b) \subseteq Members(lines)
          /\ Ids(a) \cup Ids(b) \subseteq Ids(lines)
          /\ Distinct(a) /\ Distinct(b) /\ Ids(a) \cap Ids(b) = {}
        BY <2>1, SplitLines DEF Apart
    <2>3. Down(a, b)
        BY <1>3
    <2> HIDE DEF a, b
    <2>4. Apart(b, wire["live"], wire["lost"], T, answers)
        BY <2>2 DEF Apart
    <2>5. Ids(a) \cap (Ids(b) \cup Ids(wire["live"]) \cup Ids(wire["lost"]) \cup T) = {}
        BY <2>2 DEF Apart
    <2> QED BY <2>2, <2>3, <2>4, <2>5, DownFits
<1> QED BY <1>2, <1>3 DEF Flush

LEMMA SubmitFits ==
    ASSUME ConnectionTyped, NEW waiting \in Seq(Request), NEW line \in Request, NEW T,
           Apart(waiting, wire["live"], wire["lost"], T, answers),
           line.id \notin Ids(waiting) \cup Ids(wire["live"]) \cup Ids(wire["lost"])
                            \cup T \cup Ids(answers),
           Submit(waiting, line)
    PROVE  /\ ConnectionTyped'
           /\ Apart(queue', wire'["live"], wire'["lost"], T, answers')
           /\ Lines' \subseteq Members(waiting) \cup Members(wire["live"]) \cup Members(wire["lost"])
                                 \cup {line}
           /\ answers' = answers \/ answers' = <<>>
<1> DEFINE q == Append(waiting, line)
<1>1. /\ q \in Seq(Request) /\ Members(q) = Members(waiting) \cup {line}
      /\ Ids(q) = Ids(waiting) \cup {line.id} /\ Distinct(q)
    BY AppendLines DEF Apart
<1> HIDE DEF q
<1>2. Apart(q, wire["live"], wire["lost"], T, answers)
    BY <1>1 DEF Apart
<1>3. CASE connected
    <2>1. Flush(q)
        BY <1>3 DEF Submit, q
    <2> QED BY <1>1, <1>2, <2>1, FlushFits
<1>4. CASE ~connected
    <2>1. queue' = q /\ UNCHANGED <<connected, wire, answers, served>>
        BY <1>4 DEF Submit, q
    <2> QED BY <1>1, <1>2, <2>1 DEF ConnectionTyped, Lines
<1> QED BY <1>3, <1>4
-----------------------------------------------------------------------------
(* Steps of the panel and of the connection.                               *)

LEMMA LineFacts ==
    ASSUME JobInv
    PROVE  /\ \A l \in Lines : l \in Request /\ l.id \in Requests /\ l.id <= revision
           /\ Ids(queue) \cup Ids(wire["live"]) \cup Ids(wire["lost"]) = {l.id : l \in Lines}
           /\ \A a \in Members(answers) : a \in Answer /\ a.id \in Requests /\ a.id <= revision
           /\ Ids(answers) = {a.id : a \in Members(answers)}
           /\ TaskIds \subseteq Requests /\ \A r \in TaskIds : r <= revision
           /\ \A r \in TheirIds : r \in Requests /\ r <= revision
<1>1. /\ queue \in Seq(Request) /\ wire["live"] \in Seq(Request) /\ wire["lost"] \in Seq(Request)
      /\ answers \in Seq(Answer)
    BY Typed DEF ConnectionTyped
<1>2. \A l \in Lines : l \in Request
    BY <1>1, IdsOfMembers DEF Lines
<1>3. Ids(queue) \cup Ids(wire["live"]) \cup Ids(wire["lost"]) = {l.id : l \in Lines}
    BY <1>1, IdsOfMembers DEF Lines
<1>4. (\A a \in Members(answers) : a \in Answer) /\ Ids(answers) = {a.id : a \in Members(answers)}
    BY <1>1, IdsOfMembers
<1>5. \A l \in Lines : l.id \in Requests /\ l.id <= revision
    BY <1>2 DEF JobInv, LinesFit, Pending, Request
<1>6. \A a \in Members(answers) : a.id \in Requests /\ a.id <= revision
    BY <1>4 DEF JobInv, LinesFit, AnswerTrue, Answer
<1>7. TaskIds \subseteq Requests /\ \A r \in TaskIds : r <= revision
    BY DEF JobInv, TaskFits, TaskIds, Pending
<1>8. \A r \in TheirIds : r \in Requests /\ r <= revision
    BY <1>4, <1>5, <1>6, <1>7 DEF TheirIds
<1> QED BY <1>2, <1>3, <1>4, <1>5, <1>6, <1>7, <1>8

(* The user may be told of an unknown outcome while a line or an answer is *)
(* under way.                                                              *)
Milder(r) == told'[r] = told[r] \/ (told[r] = "open" /\ told'[r] = "unknown")

LEMMA PanelFitsNext ==
    ASSUME JobInv, UNCHANGED <<task, managerVars, rockVars>>, ConnectionTyped',
           Apart(queue', wire'["live"], wire'["lost"], TaskIds, answers'),
           \A l \in Lines' : l \in Lines \/ Pending(l.op, l.id)',
           Members(answers') \subseteq Members(answers),
           panel' \in Panel, revision' \in 0 .. MaxRequests, revision <= revision',
           told' \in [Requests -> {"unasked", "open", "done", "not_done", "unknown"}],
           \A r \in Requests : r <= revision /\ (\/ \E l \in Lines' : l \in Lines /\ l.id = r
                                                 \/ r \in TaskIds
                                                 \/ \E a \in Members(answers') : a.id = r)
                => Milder(r),
           PanelFits'
    PROVE  JobInv'
<1>1. UNCHANGED <<drafts, placement, profile, rock, changes, times, TaskIds>>
    BY DEF managerVars, rockVars, TaskIds
<1>2. JobTypeOK' /\ IsFiniteSet(drafts)'
    BY <1>1, Typed DEF JobTypeOK, ConnectionTyped, ManagerTyped
<1>3. OnePlace'
    BY <1>1 DEF OnePlace
<1>4. LinesFit'
    <2>1. ASSUME NEW l \in Lines', l \in Lines PROVE Pending(l.op, l.id)'
        <3>1. Pending(l.op, l.id) /\ l.id \in Requests /\ l.id <= revision
            BY <2>1, LineFacts DEF JobInv, LinesFit
        <3>2. Milder(l.id)
            BY <2>1, <3>1
        <3> QED BY <1>1, <3>1, <3>2, Typed DEF Pending, Milder, Requests
    <2>2. ASSUME NEW a \in Members(answers') PROVE AnswerTrue(a)'
        <3>1. AnswerTrue(a) /\ a.id \in Requests /\ a.id <= revision
            BY <2>2, LineFacts DEF JobInv, LinesFit
        <3>2. Milder(a.id)
            BY <2>2, <3>1
        <3> QED BY <1>1, <3>1, <3>2, Typed DEF AnswerTrue, Milder, Requests
    <2> QED BY <2>1, <2>2 DEF LinesFit
<1>5. TaskFits'
    <2>1. task.step # "idle" => Milder(task.id) /\ task.id \in Requests /\ task.id <= revision
        BY LineFacts DEF TaskIds
    <2>2. task.step # "idle" => task.id <= revision'
        BY <2>1, Typed DEF Requests
    <2>3. task.step # "idle" /\ Pending(task.op, task.id) => Pending(task.op, task.id)'
        BY <1>1, <2>1, <2>2 DEF Pending, Milder
    <2>4. task.step # "idle" /\ told[task.id] \in {"open", "unknown"} => told'[task.id] \in {"open", "unknown"}
        BY <2>1 DEF Milder
    <2> QED BY <1>1, <2>2, <2>3, <2>4 DEF JobInv, TaskFits
<1> QED BY <1>2, <1>3, <1>4, <1>5 DEF JobInv

LEMMA InterruptedTyped ==
    ASSUME NEW p \in Panel
    PROVE  /\ Interrupted(p) \in Panel /\ Closed(p) \in Panel
           /\ Interrupted(p).phase # "sending" /\ Interrupted(p).request \in {0, p.request}
           /\ Closed(p).phase = "closed" /\ Closed(p).request = 0
           /\ Interrupted(p).phase \in {"closed", "uncertain", "error"}
<1>1. /\ Interrupted(p) \in Panel /\ Interrupted(p).phase \in {"closed", "uncertain", "error"}
      /\ Interrupted(p).request \in {0, p.request}
    <2> DEFINE quiet == [p EXCEPT !.available = FALSE, !.access = 0]
    <2>1. quiet \in Panel /\ quiet.phase = p.phase /\ quiet.request = p.request
        BY DEF Panel
    <2>2. CASE p.phase = "closed"
        BY <2>1, <2>2 DEF Interrupted
    <2>3. CASE p.phase # "closed"
        <3> HIDE DEF quiet
        <3>1. PICK phase \in {"uncertain", "error"} :
                Interrupted(p) = [quiet EXCEPT !.busy = FALSE, !.timer = FALSE, !.request = 0,
                                               !.draft = NoDraft, !.phase = phase]
            BY <2>1, <2>3 DEF Interrupted, quiet, Panel
        <3> QED BY <2>1, <3>1 DEF Panel, Phases
    <2> QED BY <2>2, <2>3
<1>2. Closed(p) \in Panel /\ Closed(p).phase = "closed" /\ Closed(p).request = 0
    BY DEF Panel, Phases, Closed
<1> QED BY <1>1, <1>2

LEMMA ConnectionFits ==
    ASSUME JobInv, Connect \/ Disconnect \/ LinesLost
    PROVE  JobInv'
<1> DEFINE T == TaskIds
<1>1. ConnectionTyped /\ Apart(queue, wire["live"], wire["lost"], T, answers)
    BY Typed DEF JobInv, OnePlace
<1>2. queue \in Seq(Request) /\ <<>> \in Seq(Request)
    BY <1>1 DEF ConnectionTyped
<1>3. UNCHANGED <<panel, revision, told, task, managerVars, rockVars>>
    BY DEF Connect, Disconnect, LinesLost, panelVars
<1> HIDE DEF T
<1>4. /\ ConnectionTyped' /\ Apart(queue', wire'["live"], wire'["lost"], T, answers')
      /\ Lines' \subseteq Lines /\ (answers' = answers \/ answers' = <<>>)
    <2>1. CASE Connect
        BY <1>1, <1>2, <2>1, FlushFits DEF Connect, Lines
    <2>2. CASE Disconnect
        <3>1. Distinct(<<>>) /\ Ids(<<>>) = {} /\ Members(<<>>) = {}
            BY EmptyLines
        <3>2. Down(<<>>, queue)
            BY <2>2 DEF Disconnect
        <3> QED BY <1>1, <1>2, <3>1, <3>2, DownFits DEF Lines
    <2>3. CASE LinesLost
        <3>1. wire'["live"] = wire["live"] /\ wire'["lost"] = <<>>
              /\ wire' \in [{"live", "lost"} -> Seq(Request)]
            BY <1>1, <1>2, <2>3 DEF LinesLost, ConnectionTyped
        <3>2. UNCHANGED <<queue, connected, answers, served>>
            BY <2>3 DEF LinesLost
        <3> QED BY <1>1, <3>1, <3>2, EmptyLines DEF ConnectionTyped, Apart, Lines
    <2> QED BY <2>1, <2>2, <2>3
<1>5. Members(answers') \subseteq Members(answers)
    BY <1>4, EmptyLines
<1>6. PanelFits' /\ \A r \in Requests : Milder(r)
    BY <1>3 DEF JobInv, PanelFits, Milder, rockVars
<1> QED BY <1>3, <1>4, <1>5, <1>6, Typed, PanelFitsNext DEF T

LEMMA DropFits ==
    ASSUME JobInv, Drop
    PROVE  /\ ConnectionTyped'
           /\ Apart(queue', wire'["live"], wire'["lost"], TaskIds, answers')
           /\ Lines' \subseteq Lines /\ answers' = answers
<1>1. queue' = <<>> /\ UNCHANGED <<connected, wire, answers, served>>
    BY DEF Drop
<1>2. Apart(queue, wire["live"], wire["lost"], TaskIds, answers) /\ ConnectionTyped
    BY Typed DEF JobInv, OnePlace
<1> QED BY <1>1, <1>2, EmptyLines DEF Apart, Lines, ConnectionTyped

(* The user is told of an unknown outcome of the run under way.            *)
LEMMA UnknownFits ==
    ASSUME JobInv, Tell("unknown"), panel' = Interrupted(panel), UNCHANGED <<revision, times>>
    PROVE  /\ panel' \in Panel /\ PanelFits' /\ \A r \in Requests : Milder(r)
           /\ told' \in [Requests -> {"unasked", "open", "done", "not_done", "unknown"}]
<1>1. panel \in Panel /\ revision \in Nat /\ panel.request \in Nat /\ PanelFits
      /\ told \in [Requests -> {"unasked", "open", "done", "not_done", "unknown"}]
    BY Typed DEF Panel, Requests, JobInv
<1>2. panel' \in Panel /\ panel'.phase # "sending" /\ panel'.request <= revision
    BY <1>1, InterruptedTyped DEF PanelFits
<1>3. CASE panel.phase = "sending"
    <2>1. told' = [told EXCEPT ![panel.request] = "unknown"] /\ told[panel.request] = "open"
          /\ panel.request \in Requests /\ panel.request <= revision
        BY <1>1, <1>3 DEF Tell, PanelFits
    <2>2. \A r \in Requests : told'[r] = IF r = panel.request THEN "unknown" ELSE told[r]
        BY <1>1, <2>1
    <2>3. \A r \in Requests : r > revision => r # panel.request
        BY <1>1, <2>1 DEF Requests
    <2> QED BY <1>1, <1>2, <2>1, <2>2, <2>3 DEF PanelFits, Milder
<1>4. CASE panel.phase # "sending"
    BY <1>1, <1>2, <1>4 DEF Tell, PanelFits, Milder
<1> QED BY <1>3, <1>4

LEMMA InterruptionFits ==
    ASSUME JobInv, ConnectionFailed \/ Timeout
    PROVE  JobInv'
<1>1. /\ panel' = Interrupted(panel) /\ Tell("unknown")
      /\ UNCHANGED <<revision, task, managerVars, rockVars>> /\ UNCHANGED times
    BY DEF ConnectionFailed, Timeout, rockVars
<1>2. /\ ConnectionTyped' /\ Apart(queue', wire'["live"], wire'["lost"], TaskIds, answers')
      /\ Lines' \subseteq Lines /\ answers' = answers
    <2>1. CASE ConnectionFailed
        BY <2>1, DropFits DEF ConnectionFailed
    <2>2. CASE Timeout
        BY <2>2, Typed DEF Timeout, connectionVars, ConnectionTyped, Lines, JobInv, OnePlace
    <2> QED BY <2>1, <2>2
<1> QED BY <1>1, <1>2, UnknownFits, Typed, PanelFitsNext

(* The panel is closed, with or without its knowledge of the access.       *)
LEMMA CloseFits ==
    ASSUME JobInv, LeaveSearch \/ Reset
    PROVE  JobInv'
<1>1. /\ panel' \in {Closed(panel), [Closed(panel) EXCEPT !.available = FALSE, !.access = 0]}
      /\ Drop /\ UNCHANGED <<revision, told, task, managerVars, rockVars>>
    BY DEF LeaveSearch, Reset
<1>2. panel' \in Panel /\ panel'.phase = "closed" /\ panel'.request = 0
    <2>1. Closed(panel) \in Panel /\ Closed(panel).phase = "closed" /\ Closed(panel).request = 0
        BY Typed, InterruptedTyped
    <2> HIDE DEF Closed
    <2>2. CASE panel' = Closed(panel)
        BY <2>1, <2>2
    <2>3. CASE panel' = [Closed(panel) EXCEPT !.available = FALSE, !.access = 0]
        BY <2>1, <2>3 DEF Panel
    <2> QED BY <1>1, <2>2, <2>3
<1>3. PanelFits' /\ \A r \in Requests : Milder(r)
    BY <1>1, <1>2, Typed DEF JobInv, PanelFits, Milder, rockVars
<1> QED BY <1>1, <1>2, <1>3, DropFits, Typed, PanelFitsNext

LEMMA NumberedFacts ==
    ASSUME JobInv, Numbered
    PROVE  /\ revision \in Nat /\ revision' = revision + 1 /\ revision + 1 \in Requests
           /\ revision' \in 0 .. MaxRequests /\ revision <= revision'
           /\ told[revision + 1] = "unasked" /\ times[revision + 1] = 0
<1>1. revision \in Nat /\ revision' = revision + 1 /\ revision + 1 \in Requests
    BY Typed, LimitAssumption DEF Numbered, Requests
<1>2. revision' \in 0 .. MaxRequests /\ revision <= revision' /\ revision + 1 > revision
    BY <1>1, LimitAssumption DEF Requests
<1> QED BY <1>1, <1>2 DEF JobInv, PanelFits

LEMMA NewLineFits ==
    ASSUME JobInv, Numbered, NEW waiting \in {queue, <<>>}, NEW line \in Request,
           line.id = revision + 1, Submit(waiting, line)
    PROVE  /\ ConnectionTyped'
           /\ Apart(queue', wire'["live"], wire'["lost"], TaskIds, answers')
           /\ Lines' \subseteq Lines \cup {line} /\ Members(answers') \subseteq Members(answers)
<1>1. ConnectionTyped /\ Apart(queue, wire["live"], wire["lost"], TaskIds, answers)
    BY Typed DEF JobInv, OnePlace
<1>2. /\ waiting \in Seq(Request) /\ Members(waiting) \subseteq Members(queue)
      /\ Ids(waiting) \subseteq Ids(queue)
      /\ Apart(waiting, wire["live"], wire["lost"], TaskIds, answers)
    <2>1. CASE waiting = queue
        BY <1>1, <2>1 DEF ConnectionTyped
    <2>2. CASE waiting = <<>>
        BY <1>1, <2>2, EmptyLines DEF Apart
    <2> QED BY <2>1, <2>2
<1>3. \A r \in TheirIds : r <= revision
    BY LineFacts
<1>4. line.id \notin TheirIds
    BY <1>3, NumberedFacts
<1>5. line.id \notin Ids(waiting) \cup Ids(wire["live"]) \cup Ids(wire["lost"]) \cup TaskIds \cup Ids(answers)
    BY <1>2, <1>4, LineFacts DEF TheirIds
<1>6. /\ ConnectionTyped' /\ Apart(queue', wire'["live"], wire'["lost"], TaskIds, answers')
      /\ Lines' \subseteq Members(waiting) \cup Members(wire["live"]) \cup Members(wire["lost"]) \cup {line}
      /\ answers' = answers \/ answers' = <<>>
    BY <1>1, <1>2, <1>5, SubmitFits
<1> QED BY <1>2, <1>6, EmptyLines DEF Lines

(* A request that is not a run.                                            *)
LEMMA AskFits ==
    ASSUME JobInv, Numbered, NEW waiting \in {queue, <<>>}, NEW op \in Ops \ {"job_run"},
           Submit(waiting, Line(op, NoDraft)), UNCHANGED <<told, task, managerVars, rockVars>>,
           panel' \in Panel, panel'.request \in {0, panel.request, revision + 1},
           panel'.phase = "sending" => panel.phase = "sending" /\ panel'.request = panel.request
    PROVE  JobInv'
<1>1. PICK line \in Request : line = Line(op, NoDraft) /\ line.id = revision + 1 /\ line.op = op
    BY NumberedFacts DEF Line, Request
<1>2. /\ ConnectionTyped' /\ Apart(queue', wire'["live"], wire'["lost"], TaskIds, answers')
      /\ Lines' \subseteq Lines \cup {line} /\ Members(answers') \subseteq Members(answers)
    BY <1>1, NewLineFits
<1>3. Pending(line.op, line.id)'
    BY <1>1, NumberedFacts DEF Pending, rockVars
<1>4. PanelFits'
    <2>1. panel.request \in Nat /\ panel.request <= revision
        BY Typed DEF JobInv, PanelFits, Panel, Requests
    <2> QED BY <2>1, NumberedFacts DEF JobInv, PanelFits, rockVars, Requests
<1> QED BY <1>1, <1>2, <1>3, <1>4, NumberedFacts, Typed, PanelFitsNext DEF Milder

LEMMA SendTyped ==
    ASSUME JobInv, NEW phase \in Phases, NEW line, Send(phase, line)
    PROVE  /\ Numbered /\ Submit(queue, line) /\ panel' \in Panel
           /\ panel'.phase = phase /\ panel'.request = revision + 1
<1>1. Numbered
    BY DEF Send
<1>2. panel \in Panel /\ revision + 1 \in Requests
    BY <1>1, Typed, NumberedFacts
<1> QED BY <1>2 DEF Send, Panel

LEMMA PanelAskFits ==
    ASSUME JobInv, RefreshAccess \/ Begin \/ CheckStatus \/ Cancel
    PROVE  JobInv'
<1>1. panel \in Panel
    BY Typed
<1>2. CASE RefreshAccess
    <2>1. Numbered /\ panel' = [panel EXCEPT !.access = revision + 1]
        BY <1>2 DEF RefreshAccess
    <2>2. panel' \in Panel /\ panel'.request = panel.request /\ panel'.phase = panel.phase
        BY <1>1, <2>1, NumberedFacts DEF Panel
    <2>3. "job_access" \in Ops \ {"job_run"}
        BY DEF Ops
    <2> QED BY <1>2, <2>1, <2>2, <2>3, AskFits DEF RefreshAccess
<1>3. CASE Begin
    <2>1. "preparing" \in Phases /\ "job_prepare" \in Ops \ {"job_run"}
        BY DEF Phases, Ops
    <2>2. Send("preparing", Line("job_prepare", NoDraft))
        BY <1>3 DEF Begin
    <2> QED BY <1>3, <2>1, <2>2, SendTyped, AskFits DEF Begin
<1>4. CASE CheckStatus
    <2>1. panel.phase \in Phases /\ panel.phase # "sending" /\ "job_status" \in Ops \ {"job_run"}
        BY <1>1, <1>4 DEF CheckStatus, Panel, Ops
    <2>2. Send(panel.phase, Line("job_status", NoDraft))
        BY <1>4 DEF CheckStatus
    <2> QED BY <1>4, <2>1, <2>2, SendTyped, AskFits DEF CheckStatus
<1>5. CASE Cancel
    <2>1. Closed(panel) \in Panel /\ Closed(panel).phase = "closed" /\ Closed(panel).request = 0
        BY <1>1, InterruptedTyped
    <2>2. CASE panel.access = 0 /\ revision < MaxRequests
        <3>1. Numbered /\ panel' = [Closed(panel) EXCEPT !.access = revision + 1]
              /\ Submit(<<>>, Line("job_access", NoDraft)) /\ UNCHANGED <<told, task, managerVars, rockVars>>
            BY <1>5, <2>2 DEF Cancel
        <3>2. panel' \in Panel /\ panel'.request = 0 /\ panel'.phase = "closed"
            BY <2>1, <3>1, NumberedFacts DEF Panel
        <3>3. "job_access" \in Ops \ {"job_run"}
            BY DEF Ops
        <3> QED BY <3>1, <3>2, <3>3, AskFits
    <2>3. CASE ~(panel.access = 0 /\ revision < MaxRequests)
        <3>1. panel' = Closed(panel) /\ Drop /\ UNCHANGED <<revision, told, task, managerVars, rockVars>>
            BY <1>5, <2>3 DEF Cancel
        <3>2. PanelFits' /\ \A r \in Requests : Milder(r)
            BY <2>1, <3>1, Typed DEF JobInv, PanelFits, Milder, rockVars
        <3> QED BY <2>1, <3>1, <3>2, DropFits, Typed, PanelFitsNext
    <2> QED BY <2>2, <2>3
<1> QED BY <1>2, <1>3, <1>4, <1>5

LEMMA RunFits ==
    ASSUME JobInv, Run
    PROVE  JobInv'
<1>1. Send("sending", Line("job_run", panel.draft)) /\ "sending" \in Phases
    BY DEF Run, Phases
<1>2. /\ Numbered /\ Submit(queue, Line("job_run", panel.draft)) /\ panel' \in Panel
      /\ panel'.phase = "sending" /\ panel'.request = revision + 1
    BY <1>1, SendTyped
<1>3. PICK line \in Request :
        line = Line("job_run", panel.draft) /\ line.id = revision + 1 /\ line.op = "job_run"
    <2>1. panel.draft \in Draft \cup {NoDraft}
        BY Typed DEF Panel
    <2> QED BY <1>2, <2>1, NumberedFacts DEF Line, Request, Ops
<1>4. /\ ConnectionTyped' /\ Apart(queue', wire'["live"], wire'["lost"], TaskIds, answers')
      /\ Lines' \subseteq Lines \cup {line} /\ Members(answers') \subseteq Members(answers)
    BY <1>2, <1>3, NewLineFits
<1>5. /\ told' = [told EXCEPT ![revision + 1] = "open"]
      /\ UNCHANGED <<task, managerVars, rockVars>> /\ UNCHANGED times
    BY DEF Run, rockVars
<1>6. /\ told'[revision + 1] = "open" /\ \A r \in Requests : r # revision + 1 => told'[r] = told[r]
      /\ told' \in [Requests -> {"unasked", "open", "done", "not_done", "unknown"}]
    BY <1>2, <1>5, NumberedFacts, Typed
<1>7. Pending(line.op, line.id)'
    BY <1>2, <1>3, <1>5, <1>6, NumberedFacts DEF Pending
<1>8. \A r \in Requests : r <= revision => Milder(r)
    BY <1>2, <1>6, NumberedFacts DEF Milder, Requests
<1>9. PanelFits'
    <2>1. \A r \in Requests : r > revision + 1 => r > revision /\ r # revision + 1
        BY <1>2, NumberedFacts DEF Requests
    <2> QED BY <1>2, <1>5, <1>6, <2>1, NumberedFacts DEF JobInv, PanelFits
<1> QED BY <1>2, <1>3, <1>4, <1>5, <1>6, <1>7, <1>8, <1>9, NumberedFacts, Typed, PanelFitsNext

LEMMA RunOfflineFits ==
    ASSUME JobInv, RunOffline
    PROVE  JobInv'
<1>1. /\ Numbered /\ Drop /\ panel' = Interrupted([panel EXCEPT !.phase = "sending"])
      /\ told' = [told EXCEPT ![revision + 1] = "unknown"]
      /\ UNCHANGED <<task, managerVars, rockVars>> /\ UNCHANGED times
    BY DEF RunOffline, rockVars
<1>2. panel \in Panel /\ panel.request <= revision
    BY Typed DEF JobInv, PanelFits
<1>3. [panel EXCEPT !.phase = "sending"] \in Panel
      /\ [panel EXCEPT !.phase = "sending"].request = panel.request
    BY <1>2 DEF Panel, Phases
<1>4. panel' \in Panel /\ panel'.phase # "sending" /\ panel'.request \in {0, panel.request}
    BY <1>1, <1>3, InterruptedTyped
<1>5. /\ \A r \in Requests : r # revision + 1 => told'[r] = told[r]
      /\ told' \in [Requests -> {"unasked", "open", "done", "not_done", "unknown"}]
    BY <1>1, NumberedFacts, Typed
<1>6. \A r \in Requests : r <= revision => Milder(r)
    BY <1>1, <1>5, NumberedFacts DEF Milder, Requests
<1>7. PanelFits'
    <2>1. \A r \in Requests : r > revision + 1 => r > revision /\ r # revision + 1
        BY <1>1, NumberedFacts DEF Requests
    <2>2. panel.request \in Nat
        BY <1>2 DEF Panel, Requests
    <2>3. panel'.request <= revision + 1
        BY <1>1, <1>2, <1>4, <2>2, NumberedFacts
    <2> QED BY <1>1, <1>4, <1>5, <2>1, <2>3, NumberedFacts DEF JobInv, PanelFits
<1> QED BY <1>1, <1>4, <1>5, <1>6, <1>7, NumberedFacts, DropFits, Typed, PanelFitsNext

LEMMA ReceiveFits ==
    ASSUME JobInv, Receive
    PROVE  JobInv'
<1> DEFINE a == Head(answers)
<1>1. /\ answers # <<>> /\ answers' = Tail(answers)
      /\ UNCHANGED <<revision, queue, connected, wire, served, task, managerVars, rockVars>>
      /\ UNCHANGED times
    BY DEF Receive, rockVars
<1>2. answers \in Seq(Answer) /\ panel \in Panel /\ revision \in Nat /\ PanelFits
    BY Typed DEF ConnectionTyped, JobInv
<1>3. /\ a \in Members(answers) /\ a \in Answer /\ a.id \in Ids(answers)
      /\ answers' \in Seq(Answer) /\ Members(answers') \subseteq Members(answers)
      /\ Ids(answers') \subseteq Ids(answers)
      /\ Distinct(answers) => Distinct(answers') /\ a.id \notin Ids(answers')
    BY <1>1, <1>2, TailLines
<1>4. Apart(queue, wire["live"], wire["lost"], TaskIds, answers)
    BY DEF JobInv, OnePlace
<1>5. /\ Apart(queue', wire'["live"], wire'["lost"], TaskIds, answers') /\ ConnectionTyped'
      /\ Lines' = Lines
    BY <1>1, <1>3, <1>4, Typed DEF Apart, ConnectionTyped, Lines
<1>6. /\ \A l \in Lines : l.id # a.id
      /\ a.id \notin TaskIds /\ \A b \in Members(answers') : b.id # a.id
    <2>1. Ids(answers') = {b.id : b \in Members(answers')}
        BY <1>3, IdsOfMembers
    <2>2. \A l \in Lines : l.id \in Ids(queue) \cup Ids(wire["live"]) \cup Ids(wire["lost"])
        BY LineFacts
    <2> QED BY <1>3, <1>4, <2>1, <2>2 DEF Apart
<1>7. AnswerTrue(a) /\ a.id \in Requests /\ a.id <= revision
    BY <1>3, LineFacts DEF JobInv, LinesFit
<1> HIDE DEF a
<1>8. ASSUME UNCHANGED told, panel' \in Panel, panel'.phase # "sending" \/ panel'.phase = panel.phase,
             panel'.request \in {0, panel.request},
             panel'.phase = "sending" => panel'.request = panel.request
      PROVE  JobInv'
    <2>1. PanelFits'
        BY <1>1, <1>2, <1>8 DEF PanelFits
    <2> QED BY <1>1, <1>3, <1>5, <1>8, <2>1, Typed, PanelFitsNext DEF Milder
<1>9. CASE /\ a.state \in {"ready", "unavailable"} /\ UNCHANGED told
           /\ panel' = [panel EXCEPT !.access = 0, !.available = (a.state = "ready")]
    <2>1. panel' \in Panel /\ panel'.phase = panel.phase /\ panel'.request = panel.request
        BY <1>2, <1>9 DEF Panel
    <2> QED BY <1>8, <1>9, <2>1
<1>10. CASE UNCHANGED <<panel, told>>
    BY <1>2, <1>8, <1>10
<1>11. CASE Expected(a) /\ panel' = Accepted(a) /\ Tell(Outcome(a))
    <2>1. panel' \in Panel /\ panel'.phase # "sending" /\ panel'.request \in {0, panel.request}
        <3>1. a.draft \in Draft \cup {NoDraft}
            BY <1>3 DEF Answer
        <3>2. Interrupted(panel) \in Panel /\ Interrupted(panel).phase # "sending"
              /\ Interrupted(panel).request \in {0, panel.request}
            BY <1>2, InterruptedTyped
        <3>3. a.state \in States
            BY <1>3 DEF Answer
        <3> DEFINE quiet == [panel EXCEPT !.busy = FALSE, !.timer = FALSE]
        <3>4. /\ quiet \in Panel /\ quiet.phase = panel.phase /\ quiet.request = panel.request
              /\ quiet.available \in BOOLEAN
            BY <1>2 DEF Panel
        <3>5. (quiet.available /\ panel.phase # "sending" /\ a.state # "denied") \in BOOLEAN
            OBVIOUS
        <3> HIDE DEF quiet
        <3>6. CASE a.state \in {"error", "denied", "uncertain"}
            <4>1. Accepted(a) =
                    [quiet EXCEPT !.draft = NoDraft,
                       !.phase = IF a.state = "uncertain" THEN "uncertain" ELSE "error",
                       !.available = quiet.available /\ panel.phase # "sending" /\ a.state # "denied"]
                BY <3>6 DEF Accepted, quiet
            <4> HIDE <3>6
            <4>2. (IF a.state = "uncertain" THEN "uncertain" ELSE "error") \in Phases \ {"sending"}
                BY DEF Phases
            <4> QED BY <1>11, <3>4, <3>5, <4>1, <4>2 DEF Panel
        <3>7. CASE a.state = "confirm" /\ panel.phase = "preparing"
            <4>1. Accepted(a) = [quiet EXCEPT !.draft = a.draft, !.phase = "confirm"]
                BY <3>7 DEF Accepted, quiet
            <4> QED BY <1>11, <3>1, <3>4, <4>1 DEF Panel, Phases
        <3>8. CASE a.state = "requested" /\ panel.phase = "sending"
            <4>1. Accepted(a) = [quiet EXCEPT !.phase = "requested"]
                BY <3>8 DEF Accepted, quiet
            <4> QED BY <1>11, <3>4, <4>1 DEF Panel, Phases
        <3>9. CASE a.state = "status" /\ panel.phase \in {"requested", "uncertain"}
            <4>1. Accepted(a) = quiet
                BY <3>9 DEF Accepted, quiet
            <4> QED BY <1>11, <3>4, <3>9, <4>1
        <3>10. CASE /\ a.state \notin {"error", "denied", "uncertain"}
                    /\ ~(a.state = "confirm" /\ panel.phase = "preparing")
                    /\ ~(a.state = "requested" /\ panel.phase = "sending")
                    /\ ~(a.state = "status" /\ panel.phase \in {"requested", "uncertain"})
            <4>1. Accepted(a) = Interrupted(panel)
                BY <3>10 DEF Accepted
            <4> QED BY <1>11, <3>2, <4>1
        <3> QED BY <3>6, <3>7, <3>8, <3>9, <3>10
    <2>2. CASE panel.phase # "sending"
        BY <1>8, <1>11, <2>1, <2>2 DEF Tell
    <2>3. CASE panel.phase = "sending"
        <3>1. panel.request = a.id
            BY <1>11 DEF Expected
        <3>2. told' = [told EXCEPT ![a.id] = Outcome(a)] /\ Outcome(a) \in {"done", "not_done", "unknown"}
            BY <1>11, <2>3, <3>1 DEF Tell, Outcome
        <3>3. /\ \A r \in Requests : r # a.id => told'[r] = told[r]
              /\ told' \in [Requests -> {"unasked", "open", "done", "not_done", "unknown"}]
            BY <1>7, <3>2, Typed
        <3>4. PanelFits'
            <4>1. \A r \in Requests : r > revision => r # a.id
                BY <1>2, <1>7 DEF Requests
            <4>2. panel'.request <= revision
                BY <1>2, <2>1 DEF PanelFits
            <4> QED BY <1>1, <1>2, <2>1, <3>3, <4>1, <4>2 DEF PanelFits
        <3>5. \A r \in Requests : r # a.id => Milder(r)
            BY <3>3 DEF Milder
        <3> QED BY <1>1, <1>2, <1>3, <1>5, <1>6, <2>1, <3>3, <3>4, <3>5, Typed, PanelFitsNext
    <2> QED BY <2>2, <2>3
<1> QED BY <1>9, <1>10, <1>11 DEF Receive, a
-----------------------------------------------------------------------------
(* Steps of the handler.                                                   *)

Happens == times' = times \/ times' = [times EXCEPT ![task.id] = times[task.id] + 1]

LEMMA HandlerFits ==
    ASSUME JobInv, task.step # "idle", UNCHANGED <<panelVars, queue, wire, rock, changes>>,
           ConnectionTyped', ManagerTyped', Happens, task' \in Task, TaskFits',
           Apart(queue, wire["live"], wire["lost"], TaskIds', answers'),
           \A a \in Members(answers') : a \in Members(answers) \/ AnswerTrue(a)'
    PROVE  JobInv'
<1>1. UNCHANGED <<panel, revision, told, queue, wire, rock, changes>> /\ UNCHANGED Lines
    BY DEF panelVars, Lines
<1>2. /\ times' \in [Requests -> Nat] /\ task.id \in TaskIds
      /\ \A r \in Requests : r # task.id => times'[r] = times[r]
    BY Typed DEF Happens, TaskIds
<1>3. JobTypeOK' /\ IsFiniteSet(drafts)'
    BY <1>1, <1>2, Typed DEF JobTypeOK, ConnectionTyped, ManagerTyped
<1>4. OnePlace'
    BY <1>1 DEF OnePlace
<1>5. Apart(queue, wire["live"], wire["lost"], TaskIds, answers)
    BY DEF JobInv, OnePlace
<1>6. LinesFit'
    <2>1. ASSUME NEW l \in Lines PROVE Pending(l.op, l.id)'
        <3>1. Pending(l.op, l.id) /\ l.id \in Requests /\ l.id # task.id
            BY <1>2, <1>5, LineFacts DEF JobInv, LinesFit, Apart
        <3> QED BY <1>1, <1>2, <3>1 DEF Pending
    <2>2. ASSUME NEW a \in Members(answers), a \in Members(answers') PROVE AnswerTrue(a)'
        <3>1. AnswerTrue(a) /\ a.id \in Requests /\ a.id # task.id
            BY <1>2, <1>5, LineFacts DEF JobInv, LinesFit, Apart
        <3> QED BY <1>1, <1>2, <3>1 DEF AnswerTrue
    <2> QED BY <1>1, <2>1, <2>2 DEF LinesFit
<1>7. PanelFits'
    <2>1. \A r \in Requests : r > revision => r # task.id
        BY <1>2, LineFacts, Typed DEF Requests
    <2> QED BY <1>1, <1>2, <2>1 DEF JobInv, PanelFits
<1> QED BY <1>3, <1>4, <1>6, <1>7 DEF JobInv

LEMMA NoTaskTyped ==
    NoTask \in Task /\ NoTask.step = "idle" /\ NoTask.op = "none"
BY DEF NoTask, Task

LEMMA ReplyFits ==
    ASSUME JobInv, task.step # "idle", NEW state \in States, NEW d \in Draft \cup {NoDraft},
           Reply(state, d), UNCHANGED <<panelVars, rock, changes, profile>>, Happens,
           ManagerTyped', drafts' # drafts => \A e \in drafts' : e.profile = profile,
           state = "requested" => times'[task.id] = 1,
           state \in {"error", "denied"} => times'[task.id] = 0
    PROVE  JobInv'
<1>1. task.id \in Requests
    BY DEF JobInv, TaskFits
<1>2. PICK a \in Answer :
        /\ a = [id |-> task.id, state |-> state, draft |-> d]
        /\ a.id = task.id /\ a.state = state
    <2> DEFINE b == [id |-> task.id, state |-> state, draft |-> d]
    <2>1. b \in Answer /\ b.id = task.id /\ b.state = state
        BY <1>1 DEF Answer
    <2> QED BY <2>1
<1>3. /\ task' = NoTask /\ UNCHANGED <<queue, connected, wire>> /\ served' = FALSE
      /\ answers' = IF served THEN Append(answers, a) ELSE answers
    BY <1>2 DEF Reply
<1>4. task.id \in Requests /\ task.id <= revision /\ TaskIds = {task.id} /\ TaskIds' = {}
      /\ told[task.id] \in {"unasked", "open", "unknown"}
    <2>1. TaskIds = {task.id} /\ TaskIds' = {}
        BY <1>3, NoTaskTyped DEF TaskIds
    <2>2. CASE task.step = "record"
        BY <2>1, <2>2 DEF JobInv, TaskFits
    <2>3. CASE task.step # "record"
        <3>1. Pending(task.op, task.id)
            BY <2>3 DEF JobInv, TaskFits
        <3> QED BY <1>1, <2>1, <3>1 DEF Pending
    <2> QED BY <2>2, <2>3
<1>5. /\ ConnectionTyped /\ Apart(queue, wire["live"], wire["lost"], TaskIds, answers)
      /\ answers \in Seq(Answer)
    BY Typed DEF JobInv, OnePlace, ConnectionTyped
<1>6. AnswerTrue(a)'
    BY <1>4, <1>2 DEF AnswerTrue, panelVars
<1>7. /\ answers' \in Seq(Answer) /\ Members(answers') \subseteq Members(answers) \cup {a}
      /\ Apart(queue, wire["live"], wire["lost"], TaskIds', answers')
    <2>1. CASE served
        <3>1. /\ answers' \in Seq(Answer) /\ Members(answers') = Members(answers) \cup {a}
              /\ Ids(answers') = Ids(answers) \cup {task.id}
              /\ Distinct(answers) /\ task.id \notin Ids(answers) => Distinct(answers')
            BY <1>3, <1>5, <1>2, <2>1, AppendLines
        <3> QED BY <1>4, <1>5, <3>1 DEF Apart
    <2>2. CASE ~served
        BY <1>3, <1>4, <1>5, <2>2 DEF Apart
    <2> QED BY <2>1, <2>2
<1>8. ConnectionTyped'
    BY <1>3, <1>5, <1>7 DEF ConnectionTyped
<1>9. TaskFits'
    <2>1. \A e \in drafts' : e.profile = profile'
        BY DEF JobInv, TaskFits
    <2>2. task'.step = "idle" /\ task'.op = "none"
        BY <1>3, NoTaskTyped
    <2> QED BY <1>3, <2>1, <2>2 DEF TaskFits
<1>10. \A b \in Members(answers') : b \in Members(answers) \/ AnswerTrue(b)'
    BY <1>6, <1>7
<1> QED BY <1>3, <1>7, <1>8, <1>9, <1>10, NoTaskTyped, HandlerFits

LEMMA GotoFits ==
    ASSUME JobInv, task.step # "idle", NEW step \in {"access", "row", "post", "record"},
           Goto(step), UNCHANGED <<panelVars, rock, changes, profile>>, Happens,
           ManagerTyped', drafts' \subseteq drafts,
           step = "row" /\ task.op # "job_run" => task.op = "job_prepare" /\ placement' # NoPlace,
           step # "row" => task.op = "job_run",
           task.op = "job_run" => task.draft \in Draft /\ task.draft.profile = profile,
           task.op = "job_run" /\ step \in {"row", "post"} /\ ~task.raced =>
             task.draft.place = rock[profile].place,
           step = "post" /\ ~task.raced => task.draft.job = rock[profile].job,
           IF step = "record" THEN times'[task.id] = 1 /\ told[task.id] \in {"open", "unknown"}
                              ELSE Pending(task.op, task.id)'
    PROVE  JobInv'
<1>1. task' = [task EXCEPT !.step = step] /\ UNCHANGED connectionVars
    BY DEF Goto
<1>2. task \in Task
    BY Typed
<1>3. /\ task' \in Task /\ task'.step = step /\ task'.op = task.op /\ task'.id = task.id
      /\ task'.draft = task.draft /\ task'.raced = task.raced
    BY <1>1, <1>2 DEF Task
<1>4. UNCHANGED <<queue, wire, answers, connected, served, TaskIds, panel, revision, told>>
    BY <1>1, <1>3 DEF connectionVars, panelVars, TaskIds
<1>5. ConnectionTyped' /\ Apart(queue, wire["live"], wire["lost"], TaskIds', answers')
    BY <1>4, Typed DEF ConnectionTyped, JobInv, OnePlace
<1>6. task.op \in Ops /\ task.id \in Requests /\ task.id <= revision
    BY DEF JobInv, TaskFits, Pending
<1>7. \A e \in drafts' : e.profile = profile'
    BY DEF JobInv, TaskFits
<1>8. TaskFits'
    BY <1>3, <1>4, <1>6, <1>7 DEF TaskFits
<1> QED BY <1>3, <1>4, <1>5, <1>8, HandlerFits

LEMMA TaskFacts ==
    ASSUME JobInv, task.step # "idle"
    PROVE  /\ task \in Task /\ task.op \in Ops /\ task.id \in Requests /\ TaskIds = {task.id}
           /\ task.step # "record" => Pending(task.op, task.id) /\ times[task.id] = 0
           /\ task.step \in {"access", "post", "record"} => task.op = "job_run"
           /\ rock[profile] \in Server /\ profile \in Profiles
           /\ \A d \in drafts : d.profile = profile /\ d \in Draft
BY Typed DEF JobInv, TaskFits, TaskIds, ManagerTyped, Pending

(* A reply that says nothing happened, or nothing of it.                   *)
LEMMA PlainReply ==
    ASSUME JobInv, task.step \notin {"idle", "record"}, NEW state \in States \ {"requested"},
           Reply(state, NoDraft), UNCHANGED <<panelVars, rockVars, profile>>,
           drafts' \subseteq drafts, placement' \in Places \cup {NoPlace}
    PROVE  JobInv'
<1>1. times' = times /\ Happens /\ UNCHANGED <<rock, changes>>
    BY DEF Happens, rockVars
<1>2. ManagerTyped'
    <2>1. ManagerTyped /\ DraftLimit \in Nat
        BY Typed, LimitAssumption
    <2>2. IsFiniteSet(drafts') /\ Cardinality(drafts') <= Cardinality(drafts)
        BY <2>1, FS_Subset DEF ManagerTyped
    <2>3. Cardinality(drafts) \in Nat /\ Cardinality(drafts') \in Nat
        BY <2>1, <2>2, FS_CardinalityType DEF ManagerTyped
    <2> QED BY <2>1, <2>2, <2>3 DEF ManagerTyped
<1>3. \A e \in drafts' : e.profile = profile
    BY TaskFacts
<1> QED BY <1>1, <1>2, <1>3, TaskFacts, ReplyFits

LEMMA RefuseFits ==
    ASSUME JobInv, Refuse \/ Access \/ Status
    PROVE  JobInv'
<1>1. UNCHANGED <<panelVars, rockVars, profile, drafts>> /\ task.step = "begin"
    BY DEF Refuse, Access, Status, managerVars, At
<1>2. placement' \in Places \cup {NoPlace}
    <2>1. placement \in Places \cup {NoPlace} /\ rock[profile].place \in Places \cup {NoPlace}
        BY <1>1, Typed, TaskFacts DEF ManagerTyped, Server
    <2> QED BY <2>1 DEF Refuse, Access, Status, managerVars
<1>3. \E state \in States \ {"requested"} : Reply(state, NoDraft)
    BY DEF Refuse, Access, Status, Failure, States
<1> QED BY <1>1, <1>2, <1>3, PlainReply

LEMMA PrepareAccessFits ==
    ASSUME JobInv, PrepareAccess
    PROVE  JobInv'
<1>1. /\ UNCHANGED <<panelVars, rockVars, profile, drafts>> /\ task.step = "begin"
      /\ task.op = "job_prepare" /\ placement' \in {NoPlace, rock[profile].place}
    BY DEF PrepareAccess, At
<1>2. placement' \in Places \cup {NoPlace}
    BY <1>1, TaskFacts DEF Server
<1>3. CASE placement' = NoPlace
    <2>1. \E state \in States \ {"requested"} : Reply(state, NoDraft)
        BY <1>3 DEF PrepareAccess, Failure, States
    <2> QED BY <1>1, <1>2, <2>1, PlainReply
<1>4. CASE placement' # NoPlace
    <2>1. Goto("row")
        BY <1>4 DEF PrepareAccess
    <2>2. UNCHANGED <<times, rock, changes, revision, told>> /\ Happens
        BY <1>1 DEF rockVars, panelVars, Happens
    <2>3. ManagerTyped'
        BY <1>1, <1>2, Typed DEF ManagerTyped
    <2>4. Pending(task.op, task.id)'
        <3>1. task' = [task EXCEPT !.step = "row"] /\ task \in Task
            BY <2>1, Typed DEF Goto
        <3>2. task'.op = task.op /\ task'.id = task.id
            BY <3>1 DEF Task
        <3> QED BY <1>1, <2>2, <3>2, TaskFacts DEF Pending
    <2> QED BY <1>1, <1>4, <2>1, <2>2, <2>3, <2>4, GotoFits
<1> QED BY <1>3, <1>4

LEMMA KeptFits ==
    ASSUME JobInv, NEW kept \in SUBSET drafts
    PROVE  /\ IsFiniteSet(kept) /\ Cardinality(kept) \in Nat /\ Cardinality(kept) <= DraftLimit
           /\ kept \subseteq Draft
<1>1. ManagerTyped /\ DraftLimit \in Nat
    BY Typed, LimitAssumption
<1>2. IsFiniteSet(kept) /\ Cardinality(kept) <= Cardinality(drafts)
    BY <1>1, FS_Subset DEF ManagerTyped
<1>3. Cardinality(drafts) \in Nat /\ Cardinality(kept) \in Nat
    BY <1>1, <1>2, FS_CardinalityType DEF ManagerTyped
<1> QED BY <1>1, <1>2, <1>3 DEF ManagerTyped

LEMMA PrepareRowFits ==
    ASSUME JobInv, PrepareRow
    PROVE  JobInv'
<1>1. /\ UNCHANGED <<panelVars, rockVars, profile, placement>> /\ task.step = "row"
      /\ task.op = "job_prepare"
    BY DEF PrepareRow, At
<1>2. placement \in Places /\ placement \in Places \cup {NoPlace}
    BY <1>1, Typed DEF JobInv, TaskFits, ManagerTyped
<1>3. CASE Failure /\ UNCHANGED drafts
    <2>1. \E state \in States \ {"requested"} : Reply(state, NoDraft)
        BY <1>3 DEF Failure, States
    <2> QED BY <1>1, <1>2, <1>3, <2>1, PlainReply
<1>4. ASSUME NEW kept \in SUBSET drafts, Cardinality(kept) >= DraftLimit,
             drafts' = kept, Reply("error", NoDraft)
      PROVE  JobInv'
    <2>1. "error" \in States \ {"requested"}
        BY DEF States
    <2> QED BY <1>1, <1>2, <1>4, <2>1, PlainReply
<1>5. ASSUME NEW kept \in SUBSET drafts, ~(Cardinality(kept) >= DraftLimit),
             NEW d, d = [number |-> task.id, profile |-> profile,
                         job |-> rock[profile].job, place |-> placement],
             drafts' = kept \cup {d}, Reply("confirm", d)
      PROVE  JobInv'
    <2>1. d \in Draft /\ d.profile = profile /\ d \in Draft \cup {NoDraft}
        BY <1>1, <1>2, <1>5, TaskFacts DEF Draft, Server
    <2>2. /\ IsFiniteSet(drafts') /\ drafts' \subseteq Draft
          /\ Cardinality(drafts') <= Cardinality(kept) + 1
        BY <1>5, <2>1, KeptFits, FS_AddElement
    <2>3. ManagerTyped'
        <3>1. Cardinality(drafts') \in Nat /\ Cardinality(kept) \in Nat /\ DraftLimit \in Nat
            BY <2>2, KeptFits, FS_CardinalityType, LimitAssumption
        <3>2. Cardinality(drafts') <= DraftLimit
            BY <1>5, <2>2, <3>1
        <3> QED BY <1>1, <1>2, <2>2, <3>2, Typed DEF ManagerTyped
    <2>4. \A e \in drafts' : e.profile = profile
        BY <1>1, <1>5, <2>1, TaskFacts
    <2>5. UNCHANGED <<times, rock, changes>> /\ Happens /\ "confirm" \in States
        BY <1>1 DEF rockVars, Happens, States
    <2> QED BY <1>1, <1>5, <2>1, <2>3, <2>4, <2>5, ReplyFits
<1> QED BY <1>3, <1>4, <1>5 DEF PrepareRow

LEMMA PendingNext ==
    ASSUME JobInv, task.step \notin {"idle", "record"}, NEW step, Goto(step),
           UNCHANGED <<revision, told, times>>
    PROVE  Pending(task.op, task.id)'
<1>1. task' = [task EXCEPT !.step = step] /\ task \in Task
    BY Typed DEF Goto
<1>2. task'.op = task.op /\ task'.id = task.id
    BY <1>1 DEF Task
<1> QED BY <1>2, TaskFacts DEF Pending

LEMMA RunDraftFits ==
    ASSUME JobInv, RunDraft
    PROVE  JobInv'
<1>1. /\ UNCHANGED <<panelVars, rockVars, profile, placement>> /\ task.step = "begin"
      /\ task.op = "job_run" /\ drafts' = drafts \ {task.draft} /\ drafts' \in SUBSET drafts
    BY DEF RunDraft, At
<1>2. placement' \in Places \cup {NoPlace}
    BY <1>1, Typed DEF ManagerTyped
<1>3. CASE Reply("error", NoDraft)
    <2>1. "error" \in States \ {"requested"}
        BY DEF States
    <2> QED BY <1>1, <1>2, <1>3, <2>1, PlainReply
<1>4. CASE task.draft \in drafts /\ Goto("access")
    <2>1. UNCHANGED <<times, rock, changes, revision, told>> /\ Happens
        BY <1>1 DEF rockVars, panelVars, Happens
    <2>2. ManagerTyped'
        BY <1>1, <1>2, KeptFits, Typed DEF ManagerTyped
    <2>3. task.draft \in Draft /\ task.draft.profile = profile
        BY <1>4, <1>1, TaskFacts
    <2>4. Pending(task.op, task.id)'
        BY <1>1, <1>4, <2>1, PendingNext
    <2> QED BY <1>1, <1>4, <2>1, <2>2, <2>3, <2>4, GotoFits
<1> QED BY <1>3, <1>4 DEF RunDraft

LEMMA RunAccessFits ==
    ASSUME JobInv, RunAccess
    PROVE  JobInv'
<1>1. /\ UNCHANGED <<panelVars, rockVars, profile, drafts>> /\ task.step = "access"
      /\ task.op = "job_run" /\ placement' \in {NoPlace, rock[profile].place}
    BY DEF RunAccess, At
<1>2. placement' \in Places \cup {NoPlace}
    BY <1>1, TaskFacts DEF Server
<1>3. CASE Reply("denied", NoDraft)
    <2>1. "denied" \in States \ {"requested"}
        BY DEF States
    <2> QED BY <1>1, <1>2, <1>3, <2>1, PlainReply
<1>4. CASE placement' # NoPlace /\ placement' = task.draft.place /\ Goto("row")
    <2>1. UNCHANGED <<times, rock, changes, revision, told>> /\ Happens
        BY <1>1 DEF rockVars, panelVars, Happens
    <2>2. ManagerTyped'
        BY <1>1, <1>2, Typed DEF ManagerTyped
    <2>3. task.draft \in Draft /\ task.draft.profile = profile
        BY <1>1 DEF JobInv, TaskFits
    <2>4. task.draft.place = rock[profile].place
        BY <1>1, <1>4
    <2>5. Pending(task.op, task.id)'
        BY <1>1, <1>4, <2>1, PendingNext
    <2> QED BY <1>1, <1>4, <2>1, <2>2, <2>3, <2>4, <2>5, GotoFits
<1> QED BY <1>3, <1>4 DEF RunAccess

LEMMA RunRowFits ==
    ASSUME JobInv, RunRow
    PROVE  JobInv'
<1>1. /\ UNCHANGED <<panelVars, rockVars, profile, drafts, placement>> /\ task.step = "row"
      /\ task.op = "job_run"
    BY DEF RunRow, At, managerVars
<1>2. placement' \in Places \cup {NoPlace}
    BY <1>1, Typed DEF ManagerTyped
<1>3. CASE Failure
    <2>1. \E state \in States \ {"requested"} : Reply(state, NoDraft)
        BY <1>3 DEF Failure, States
    <2> QED BY <1>1, <1>2, <2>1, PlainReply
<1>4. CASE rock[profile].job = task.draft.job /\ Goto("post")
    <2>1. UNCHANGED <<times, rock, changes, revision, told>> /\ Happens
        BY <1>1 DEF rockVars, panelVars, Happens
    <2>2. ManagerTyped'
        BY <1>1, Typed DEF ManagerTyped
    <2>3. /\ task.draft \in Draft /\ task.draft.profile = profile
          /\ ~task.raced => task.draft.place = rock[profile].place
        BY <1>1 DEF JobInv, TaskFits
    <2>4. Pending(task.op, task.id)'
        BY <1>1, <1>4, <2>1, PendingNext
    <2> QED BY <1>1, <1>4, <2>1, <2>2, <2>3, <2>4, GotoFits
<1> QED BY <1>3, <1>4 DEF RunRow

LEMMA PostFits ==
    ASSUME JobInv, Post
    PROVE  JobInv'
<1>1. /\ UNCHANGED <<panelVars, rock, changes, profile, drafts, placement>> /\ task.step = "post"
      /\ task.op = "job_run" /\ revision' = revision /\ told' = told
    BY DEF Post, At, managerVars, panelVars
<1>2. /\ placement' \in Places \cup {NoPlace} /\ ManagerTyped'
    BY <1>1, Typed DEF ManagerTyped
<1>3. CASE (Failure \/ Reply("uncertain", NoDraft)) /\ UNCHANGED times
    <2>1. \E state \in States \ {"requested"} : Reply(state, NoDraft)
        BY <1>3 DEF Failure, States
    <2>2. UNCHANGED rockVars
        BY <1>1, <1>3 DEF rockVars
    <2> QED BY <1>1, <1>2, <2>1, <2>2, PlainReply
<1>4. CASE /\ times' = [times EXCEPT ![task.id] = @ + 1]
           /\ Goto("record") \/ Reply("uncertain", NoDraft)
    <2>1. task.id \in Requests /\ times[task.id] = 0 /\ Pending("job_run", task.id)
        BY <1>1, TaskFacts
    <2>2. Happens /\ times'[task.id] = 1 /\ task.id <= revision /\ told[task.id] \in {"open", "unknown"}
        BY <1>4, <2>1, Typed DEF Happens, Pending
    <2>3. CASE Reply("uncertain", NoDraft)
        <3>1. "uncertain" \in States
            BY DEF States
        <3> QED BY <1>1, <1>2, <2>2, <2>3, <3>1, ReplyFits
    <2>4. CASE Goto("record")
        <3>1. task.draft \in Draft /\ task.draft.profile = profile
            BY <1>1 DEF JobInv, TaskFits
        <3> QED BY <1>1, <1>2, <2>2, <2>4, <3>1, GotoFits
    <2> QED BY <1>4, <2>3, <2>4
<1> QED BY <1>3, <1>4 DEF Post

LEMMA RecordFits ==
    ASSUME JobInv, Record
    PROVE  JobInv'
<1>1. /\ UNCHANGED <<panelVars, rock, changes, times, profile, drafts, placement>>
      /\ task.step = "record" /\ Happens
    BY DEF Record, At, managerVars, rockVars, Happens
<1>2. ManagerTyped'
    BY <1>1, Typed DEF ManagerTyped
<1>3. times'[task.id] = 1
    BY <1>1 DEF JobInv, TaskFits
<1>4. PICK state \in {"requested", "bare"} : Reply(state, NoDraft)
    BY DEF Record
<1>5. state \in States /\ state \notin {"error", "denied"}
    BY DEF States
<1> QED BY <1>1, <1>2, <1>3, <1>4, <1>5, ReplyFits
-----------------------------------------------------------------------------
(* Taking a line, crashing, selecting a profile, and the Rock servers.     *)

LEMMA TakeLineFits ==
    ASSUME JobInv, TakeLine
    PROVE  JobInv'
<1>1. PICK c \in {"live", "lost"} :
        /\ wire[c] # <<>> /\ wire' = [wire EXCEPT ![c] = Tail(wire[c])] /\ served' = (c = "live")
        /\ task' = [step |-> "begin", op |-> Head(wire[c]).op, id |-> Head(wire[c]).id,
                    draft |-> Head(wire[c]).draft, raced |-> FALSE]
    BY DEF TakeLine
<1>2. /\ UNCHANGED <<panelVars, queue, connected, answers, managerVars, rockVars>> /\ task = NoTask
      /\ UNCHANGED <<panel, revision, told, drafts, placement, profile, rock, changes, times>>
    BY DEF TakeLine, panelVars, managerVars, rockVars
<1>3. /\ ConnectionTyped /\ wire[c] \in Seq(Request)
      /\ Apart(queue, wire["live"], wire["lost"], TaskIds, answers)
    BY Typed DEF JobInv, OnePlace, ConnectionTyped
<1>0. PICK l : l = Head(wire[c])
    OBVIOUS
<1>4. /\ l \in Members(wire[c]) /\ l \in Request /\ l.id \in Ids(wire[c])
      /\ Tail(wire[c]) \in Seq(Request) /\ Members(Tail(wire[c])) \subseteq Members(wire[c])
      /\ Ids(Tail(wire[c])) \subseteq Ids(wire[c])
      /\ Distinct(wire[c]) => Distinct(Tail(wire[c])) /\ l.id \notin Ids(Tail(wire[c]))
    BY <1>0, <1>1, <1>3, TailLines
<1>5. task' = [step |-> "begin", op |-> l.op, id |-> l.id, draft |-> l.draft, raced |-> FALSE]
    BY <1>0, <1>1
<1>6. /\ task' \in Task /\ task'.step = "begin" /\ task'.op = l.op /\ task'.id = l.id
      /\ TaskIds' = {l.id} /\ l.op \in Ops /\ l.id \in Requests
    BY <1>4, <1>5 DEF Task, TaskIds, Request
<1>7. /\ wire'[c] = Tail(wire[c]) /\ wire' \in [{"live", "lost"} -> Seq(Request)]
      /\ \A e \in {"live", "lost"} : e # c => wire'[e] = wire[e]
    BY <1>1, <1>3, <1>4 DEF ConnectionTyped
<1>8. ConnectionTyped'
    BY <1>1, <1>2, <1>3, <1>7 DEF ConnectionTyped
<1>9. JobTypeOK' /\ IsFiniteSet(drafts)'
    BY <1>2, <1>6, <1>8, Typed DEF JobTypeOK, ConnectionTyped, ManagerTyped
<1>10. OnePlace' /\ Lines' \subseteq Lines /\ l \in Lines
    <2>1. CASE c = "live"
        <3>1. wire'["live"] = Tail(wire["live"]) /\ wire'["lost"] = wire["lost"]
            BY <1>7, <2>1
        <3>2. Lines' \subseteq Lines /\ l \in Lines
            BY <1>2, <1>4, <2>1, <3>1 DEF Lines
        <3> QED BY <1>2, <1>3, <1>4, <1>6, <2>1, <3>1, <3>2 DEF OnePlace, Apart
    <2>2. CASE c = "lost"
        <3>1. wire'["lost"] = Tail(wire["lost"]) /\ wire'["live"] = wire["live"]
            BY <1>7, <2>2
        <3>2. Lines' \subseteq Lines /\ l \in Lines
            BY <1>2, <1>4, <2>2, <3>1 DEF Lines
        <3> QED BY <1>2, <1>3, <1>4, <1>6, <2>2, <3>1, <3>2 DEF OnePlace, Apart
    <2> QED BY <2>1, <2>2
<1>11. LinesFit'
    BY <1>2, <1>10 DEF JobInv, LinesFit, Pending, AnswerTrue
<1>12. TaskFits'
    <2>1. Pending(l.op, l.id)'
        BY <1>2, <1>10 DEF JobInv, LinesFit, Pending
    <2>2. \A d \in drafts' : d.profile = profile'
        BY <1>2 DEF JobInv, TaskFits
    <2> QED BY <1>6, <2>1, <2>2 DEF TaskFits, Pending
<1>13. PanelFits'
    BY <1>2 DEF JobInv, PanelFits
<1> QED BY <1>9, <1>10, <1>11, <1>12, <1>13 DEF JobInv

LEMMA NoDrafts ==
    IsFiniteSet({}) /\ Cardinality({}) = 0 /\ Cardinality({}) <= DraftLimit
BY FS_EmptySet, LimitAssumption

LEMMA SetOriginFits ==
    ASSUME JobInv, SetOrigin
    PROVE  JobInv'
<1>1. /\ task = NoTask /\ profile' \in Profiles /\ drafts' = {} /\ placement' = NoPlace
      /\ UNCHANGED <<panel, revision, told, queue, connected, wire, answers, served, task,
                     rock, changes, times, TaskIds>>
    BY DEF SetOrigin, panelVars, connectionVars, rockVars, TaskIds
<1>2. JobTypeOK' /\ IsFiniteSet(drafts)'
    BY <1>1, NoDrafts, Typed DEF JobTypeOK, ConnectionTyped
<1>3. OnePlace' /\ LinesFit'
    BY <1>1 DEF JobInv, OnePlace, LinesFit, Lines, Pending, AnswerTrue
<1>4. TaskFits'
    <2>1. task'.step = "idle" /\ task'.op = "none" /\ task' = NoTask
        BY <1>1, NoTaskTyped
    <2> QED BY <1>1, <2>1 DEF TaskFits
<1>5. PanelFits'
    BY <1>1 DEF JobInv, PanelFits
<1> QED BY <1>2, <1>3, <1>4, <1>5 DEF JobInv

LEMMA BrokerCrashFits ==
    ASSUME JobInv, BrokerCrash
    PROVE  JobInv'
<1>1. /\ Down(<<>>, queue) /\ task' = NoTask /\ drafts' = {} /\ placement' = NoPlace
      /\ UNCHANGED <<panel, revision, told, profile, rock, changes, times>>
    BY DEF BrokerCrash, panelVars, rockVars
<1>2. /\ ConnectionTyped /\ queue \in Seq(Request) /\ <<>> \in Seq(Request)
      /\ Apart(queue, wire["live"], wire["lost"], TaskIds, answers)
    BY Typed DEF ConnectionTyped, JobInv, OnePlace
<1>3. /\ ConnectionTyped' /\ Apart(queue', wire'["live"], wire'["lost"], TaskIds, answers')
      /\ Lines' = Lines /\ answers' = <<>>
    <2>1. Distinct(<<>>) /\ Ids(<<>>) = {} /\ Members(<<>>) = {}
        BY EmptyLines
    <2>2. Down(<<>>, queue)
        BY <1>1
    <2> QED BY <1>2, <2>1, <2>2, DownFits DEF Lines
<1>4. TaskIds' = {} /\ task'.step = "idle" /\ task'.op = "none" /\ task' = NoTask /\ task' \in Task
    BY <1>1, NoTaskTyped DEF TaskIds
<1>5. JobTypeOK' /\ IsFiniteSet(drafts)'
    BY <1>1, <1>3, <1>4, NoDrafts, Typed DEF JobTypeOK, ConnectionTyped, ManagerTyped
<1>6. OnePlace'
    BY <1>3, <1>4 DEF OnePlace, Apart
<1>7. LinesFit'
    BY <1>1, <1>3, EmptyLines DEF JobInv, LinesFit, Pending
<1>8. TaskFits'
    BY <1>1, <1>4 DEF TaskFits
<1>9. PanelFits'
    BY <1>1 DEF JobInv, PanelFits
<1> QED BY <1>5, <1>6, <1>7, <1>8, <1>9 DEF JobInv

LEMMA RockChangesFits ==
    ASSUME JobInv, RockChanges
    PROVE  JobInv'
<1>1. /\ changes < MaxChanges /\ changes' = changes + 1
      /\ task' = IF task = NoTask THEN task ELSE [task EXCEPT !.raced = TRUE]
      /\ UNCHANGED <<panel, revision, told, queue, connected, wire, answers, served,
                     drafts, placement, profile, times>>
    BY DEF RockChanges, panelVars, connectionVars, managerVars
<1>2. PICK p \in Profiles, r \in Server : rock' = [rock EXCEPT ![p] = r]
    BY DEF RockChanges
<1>3. rock' \in [Profiles -> Server] /\ changes' \in 0 .. MaxChanges
    BY <1>1, <1>2, Typed, LimitAssumption
<1>4. /\ task' \in Task /\ task'.step = task.step /\ task'.op = task.op /\ task'.id = task.id
      /\ task'.draft = task.draft /\ (task # NoTask => task'.raced) /\ (task = NoTask => task' = NoTask)
    BY <1>1, Typed DEF Task
<1>5. JobTypeOK' /\ IsFiniteSet(drafts)'
    BY <1>1, <1>3, <1>4, Typed DEF JobTypeOK, ConnectionTyped, ManagerTyped
<1>6. TaskIds' = TaskIds
    BY <1>4 DEF TaskIds
<1>7. OnePlace' /\ LinesFit'
    BY <1>1, <1>6 DEF JobInv, OnePlace, LinesFit, Lines, Pending, AnswerTrue
<1>8. TaskFits'
    <2>1. CASE task = NoTask
        <3>1. task' = NoTask /\ task'.step = "idle" /\ task'.op = "none"
            BY <1>4, <2>1, NoTaskTyped
        <3> QED BY <1>1, <3>1 DEF JobInv, TaskFits
    <2>2. CASE task # NoTask
        <3>1. task'.raced /\ task'.step # "idle"
            BY <1>4, <2>2 DEF JobInv, TaskFits
        <3> QED BY <1>1, <1>4, <3>1 DEF JobInv, TaskFits, Pending
    <2> QED BY <2>1, <2>2
<1>9. PanelFits'
    BY <1>1 DEF JobInv, PanelFits
<1> QED BY <1>5, <1>7, <1>8, <1>9 DEF JobInv

LEMMA InitFits ==
    ASSUME Init
    PROVE  JobInv
<1>1. MaxRequests \in Nat /\ MaxChanges \in Nat /\ 0 \in 0 .. MaxRequests /\ 0 \in 0 .. MaxChanges
    BY LimitAssumption
<1>2. PICK j \in Jobs, p \in Places : rock = [q \in Profiles |-> [job |-> j, place |-> p]]
    BY DEF Init
<1>3. rock \in [Profiles -> Server]
    BY <1>2 DEF Server
<1>4. panel \in Panel /\ panel.phase = "closed" /\ panel.request = 0
    BY DEF Init, Panel, Phases
<1>5. /\ wire \in [{"live", "lost"} -> Seq(Request)] /\ wire["live"] = <<>> /\ wire["lost"] = <<>>
      /\ queue = <<>> /\ queue \in Seq(Request) /\ answers = <<>> /\ answers \in Seq(Answer)
      /\ connected \in BOOLEAN /\ served \in BOOLEAN
    <2>1. <<>> \in Seq(Request) /\ <<>> \in Seq(Answer)
        OBVIOUS
    <2> HIDE DEF Request, Answer
    <2> QED BY <2>1 DEF Init
<1>6. JobTypeOK /\ IsFiniteSet(drafts)
    BY <1>1, <1>3, <1>4, <1>5, NoTaskTyped, NoDrafts DEF Init, JobTypeOK
<1>7. TaskIds = {} /\ task = NoTask /\ task.step = "idle" /\ task.op = "none"
    BY NoTaskTyped DEF Init, TaskIds
<1>8. OnePlace
    BY <1>5, <1>7, EmptyLines DEF OnePlace, Apart
<1>9. LinesFit
    BY <1>5, EmptyLines DEF LinesFit, Lines
<1>10. TaskFits
    BY <1>7 DEF Init, TaskFits
<1>11. PanelFits
    BY <1>4 DEF Init, PanelFits
<1> QED BY <1>6, <1>8, <1>9, <1>10, <1>11 DEF JobInv

LEMMA NextFits ==
    ASSUME JobInv, [Next]_vars
    PROVE  JobInv'
<1>1. CASE PanelStep
    BY <1>1, PanelAskFits, RunFits, RunOfflineFits, CloseFits, InterruptionFits, ReceiveFits
    DEF PanelStep
<1>2. CASE ConnectionStep
    BY <1>2, ConnectionFits, InterruptionFits DEF ConnectionStep
<1>3. CASE BrokerStep
    BY <1>3, TakeLineFits, RefuseFits, PrepareAccessFits, PrepareRowFits, RunDraftFits,
       RunAccessFits, RunRowFits, PostFits, RecordFits, SetOriginFits, BrokerCrashFits
    DEF BrokerStep
<1>4. CASE RockChanges
    BY <1>4, RockChangesFits
<1>5. CASE UNCHANGED vars
    <2>1. UNCHANGED <<panel, revision, told, queue, connected, wire, answers, served, task,
                      drafts, placement, profile, rock, changes, times>>
        BY <1>5 DEF vars, panelVars, connectionVars, managerVars, rockVars
    <2> QED BY <2>1 DEF JobInv, JobTypeOK, OnePlace, LinesFit, Lines, Pending, AnswerTrue,
                        TaskFits, TaskIds, PanelFits
<1> QED BY <1>1, <1>2, <1>3, <1>4, <1>5 DEF Next

LEMMA JobSafe ==
    Spec => []JobInv
<1>1. Init => JobInv
    BY InitFits
<1>2. JobInv /\ [Next]_vars => JobInv'
    BY NextFits
<1> QED BY <1>1, <1>2, PTL DEF Spec

(* The drafts are never more than the manager's limit, the panel's numbers *)
(* stay in their bound and every state has its type, in every behaviour.   *)
THEOREM JobTyped ==
    Spec => []JobTypeOK
<1>1. JobInv => JobTypeOK
    BY DEF JobInv
<1> QED BY <1>1, JobSafe, PTL
-----------------------------------------------------------------------------
(* What runs.                                                              *)

LEMMA OnlyPostRuns ==
    ASSUME JobInv, [Next]_vars, times' # times
    PROVE  Post
<1>1. CASE Next
    <2>1. CASE PanelStep \/ ConnectionStep
        BY <2>1 DEF PanelStep, ConnectionStep, RefreshAccess, Begin, Run, RunOffline, CheckStatus,
            LeaveSearch, Cancel, Reset, Timeout, Receive, Connect, Disconnect, ConnectionFailed,
            LinesLost, rockVars
    <2>2. CASE BrokerStep
        BY <2>2 DEF BrokerStep, TakeLine, Refuse, Access, PrepareAccess, PrepareRow, RunDraft,
            RunAccess, RunRow, Record, Status, SetOrigin, BrokerCrash, rockVars
    <2>3. CASE RockChanges
        BY <2>3 DEF RockChanges
    <2> QED BY <1>1, <2>1, <2>2, <2>3 DEF Next
<1>2. CASE UNCHANGED vars
    BY <1>2 DEF vars, rockVars
<1> QED BY <1>1, <1>2

(* The job that runs is the one the user was shown, of the profile and in  *)
(* the placement it was shown for, if nobody changed the server meanwhile. *)
THEOREM RunsShown ==
    Spec => RunsWhatWasShown
<1> DEFINE Shown ==
        times' # times /\ ~task.raced =>
          /\ task.draft.profile = profile
          /\ task.draft.job = rock[profile].job
          /\ task.draft.place = rock[profile].place
<1>1. JobInv /\ [Next]_vars => [Shown]_vars
    <2> SUFFICES ASSUME JobInv, [Next]_vars, times' # times, ~task.raced
                 PROVE  /\ task.draft.profile = profile
                        /\ task.draft.job = rock[profile].job
                        /\ task.draft.place = rock[profile].place
        OBVIOUS
    <2>1. task.op = "job_run" /\ task.step = "post"
        BY OnlyPostRuns DEF Post, At
    <2> QED BY <2>1 DEF JobInv, TaskFits
<1> HIDE DEF Shown
<1>2. [][Shown]_vars => RunsWhatWasShown
    BY PTL DEF RunsWhatWasShown, Shown
<1> QED BY <1>1, <1>2, JobSafe, PTL DEF Spec
-----------------------------------------------------------------------------
(* The abstract specification.                                             *)

LEMMA TellFits ==
    ASSUME JobInv, NEW outcome, Tell(outcome), UNCHANGED times,
           panel.phase = "sending" =>
             outcome \in IF times[panel.request] = 1 THEN {"done", "unknown"}
                                                     ELSE {"not_done", "found", "unknown"}
    PROVE  Confirmation!Next \/ UNCHANGED <<times, told>>
<1>1. CASE panel.phase # "sending"
    BY <1>1 DEF Tell
<1>2. CASE panel.phase = "sending"
    <2>1. panel.request \in Requests /\ told[panel.request] = "open"
        BY <1>2 DEF JobInv, PanelFits
    <2>2. told' = [told EXCEPT ![panel.request] = outcome]
        BY <1>2 DEF Tell
    <2>3. Confirmation!Tell(panel.request)
        BY <1>2, <2>1, <2>2 DEF Confirmation!Tell
    <2> QED BY <2>1, <2>3 DEF Confirmation!Next
<1> QED BY <1>1, <1>2

LEMMA ReceiveTells ==
    ASSUME JobInv, Receive
    PROVE  Confirmation!Next \/ UNCHANGED <<times, told>>
<1>1. PICK a : a = Head(answers)
    OBVIOUS
<1>2. answers # <<>> /\ UNCHANGED times
    BY DEF Receive, rockVars
<1>3. AnswerTrue(a)
    BY <1>1, <1>2, TailLines, Typed DEF ConnectionTyped, JobInv, LinesFit
<1>4. CASE UNCHANGED told
    BY <1>2, <1>4
<1>5. CASE Expected(a) /\ Tell(Outcome(a))
    <2>1. a.id = panel.request
        BY <1>5 DEF Expected
    <2>2. Outcome(a) \in IF times[panel.request] = 1 THEN {"done", "unknown"}
                                                     ELSE {"not_done", "found", "unknown"}
        BY <1>3, <2>1 DEF Outcome, AnswerTrue
    <2> QED BY <1>2, <1>5, <2>2, TellFits
<1> QED BY <1>1, <1>4, <1>5 DEF Receive

LEMMA RunConfirms ==
    ASSUME JobInv, Run \/ RunOffline
    PROVE  Confirmation!Next
<1>1. Numbered /\ UNCHANGED times
    BY DEF Run, RunOffline, Send, rockVars
<1>2. \E t \in {"open", "unknown"} : told' = [told EXCEPT ![revision + 1] = t]
    BY DEF Run, RunOffline
<1>3. Confirmation!Confirm(revision + 1)
    BY <1>1, <1>2, NumberedFacts DEF Confirmation!Confirm
<1> QED BY <1>1, <1>3, NumberedFacts DEF Confirmation!Next

LEMMA PostDoes ==
    ASSUME JobInv, Post
    PROVE  Confirmation!Next \/ UNCHANGED <<times, told>>
<1>1. task.op = "job_run" /\ task.step = "post" /\ UNCHANGED told
    BY DEF Post, At, panelVars
<1>2. task.id \in Requests /\ times[task.id] = 0 /\ told[task.id] \in {"open", "unknown"}
    BY <1>1, TaskFacts DEF Pending
<1>3. CASE UNCHANGED times
    BY <1>1, <1>3
<1>4. CASE times' = [times EXCEPT ![task.id] = @ + 1]
    <2>1. times' = [times EXCEPT ![task.id] = 1]
        BY <1>2, <1>4
    <2>2. Confirmation!Do(task.id)
        BY <1>1, <1>2, <2>1 DEF Confirmation!Do
    <2> QED BY <1>2, <2>2 DEF Confirmation!Next
<1> QED BY <1>3, <1>4 DEF Post

LEMMA StepConfirms ==
    ASSUME JobInv, [Next]_vars
    PROVE  [Confirmation!Next]_Confirmation!vars
<1>1. CASE Run \/ RunOffline
    BY <1>1, RunConfirms
<1>2. CASE ConnectionFailed \/ Timeout
    <2>1. Tell("unknown") /\ UNCHANGED times
        BY <1>2 DEF ConnectionFailed, Timeout, rockVars
    <2> QED BY <2>1, TellFits DEF Confirmation!vars
<1>3. CASE Receive
    BY <1>3, ReceiveTells DEF Confirmation!vars
<1>4. CASE Post
    BY <1>4, PostDoes DEF Confirmation!vars
<1>5. CASE RefreshAccess \/ Begin \/ CheckStatus \/ LeaveSearch \/ Cancel \/ Reset
    BY <1>5 DEF RefreshAccess, Begin, CheckStatus, LeaveSearch, Cancel, Reset, rockVars,
        Confirmation!vars
<1>6. CASE Connect \/ Disconnect \/ LinesLost
    BY <1>6 DEF Connect, Disconnect, LinesLost, panelVars, rockVars, Confirmation!vars
<1>7. CASE \/ TakeLine \/ Refuse \/ Access \/ PrepareAccess \/ PrepareRow \/ RunDraft \/ RunAccess
           \/ RunRow \/ Record \/ Status \/ SetOrigin \/ BrokerCrash
    BY <1>7 DEF TakeLine, Refuse, Access, PrepareAccess, PrepareRow, RunDraft, RunAccess,
        RunRow, Record, Status, SetOrigin, BrokerCrash, panelVars, rockVars, Confirmation!vars
<1>8. CASE RockChanges
    BY <1>8 DEF RockChanges, panelVars, Confirmation!vars
<1>9. CASE UNCHANGED vars
    BY <1>9 DEF vars, panelVars, rockVars, Confirmation!vars
<1> QED BY <1>1, <1>2, <1>3, <1>4, <1>5, <1>6, <1>7, <1>8, <1>9
        DEF Next, PanelStep, ConnectionStep, BrokerStep

(* A confirmation runs the job at most once, and the user is told that it  *)
(* was run, or was not, only when that is so, then and later, whatever     *)
(* becomes of the lines, the answers, the broker and the server.           *)
THEOREM ConfirmationKept ==
    Spec => KeepsConfirmation
<1>1. Init => Confirmation!Init
    BY DEF Init, Confirmation!Init
<1>2. JobInv /\ [Next]_vars => [Confirmation!Next]_Confirmation!vars
    BY StepConfirms
<1> QED BY <1>1, <1>2, JobSafe, PTL DEF Spec, KeepsConfirmation, Confirmation!Spec
================================================================================
