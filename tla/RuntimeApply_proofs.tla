------------------------- MODULE RuntimeApply_proofs -------------------------
(***************************************************************************)
(* Proofs about RuntimeApply for all nodes, operations, saves and faults.  *)
(*                                                                         *)
(* LInv holds in any case: types, a task's place, what a journal says of   *)
(* the bundles beside it. It is enough for WholeBundle.                    *)
(*                                                                         *)
(* MInv holds until a start goes ahead beside another control plane at     *)
(* work: one operation moves at a time, in one of two modes. Calm:         *)
(* nothing but the old revision runs or is started. Going: every node has  *)
(* the new bundles, and nothing else runs until every node is stopped.     *)
(* OneRuntime and AppliesWhole follow from MInv.                           *)
(***************************************************************************)
EXTENDS RuntimeApply, TLAPS

\* What is under way at a node: what its control plane has accepted, what
\* waits for its agent, and what the agent works on.
Elements(s) == {s[i] : i \in DOMAIN s}
Waiting(n) == Elements(accepted[n]) \cup Elements(queue[n])
Out(n) == Waiting(n) \cup {busy[n]}

\* Of two commands at a node only one has a task waiting; with ordered, the
\* prepare ahead is of the older operation.
Before(r, s, ordered) ==
    /\ r.from # NoOne => r.from # s.from
    /\ ordered /\ r.act = "prepare" /\ s.act = "prepare" => r.op < s.op
Line(a, q, b, ordered) ==
    /\ \A i, j \in DOMAIN a : i < j => Before(a[i], a[j], ordered)
    /\ \A i, j \in DOMAIN q : i < j => Before(q[i], q[j], ordered)
    /\ \A i \in DOMAIN q, j \in DOMAIN a : Before(q[i], a[j], ordered)
    /\ \A i \in DOMAIN a : Before(b, a[i], ordered)
    /\ \A i \in DOMAIN q : Before(b, q[i], ordered)
LineAt(n, ordered) == Line(accepted[n], queue[n], busy[n], ordered)
LineInv == \A n \in Nodes : LineAt(n, FALSE)

-----------------------------------------------------------------------------
\* What each variable holds.
Tasks == [pc : {"idle", "looking", "working", "failed"},
          way : {"none", "prepare", "apply", "back", "recover"}, op : 0..MaxRuns,
          rev : 0..(2 + MaxSaves), act : Actions \cup {"end"}, nodes : SUBSET Nodes,
          left : SUBSET Nodes, got : SUBSET Nodes, sound : BOOLEAN, waits : BOOLEAN]
Jobs == {"idle", "running", "complete", "failed", "rolled_back", "recovery_required"}
Entries == [op : 0..MaxRuns, rev : 0..(2 + MaxSaves), prev : 0..(2 + MaxSaves), state : JournalStates]
Lefts(act) ==
    CASE act = "prepare" -> {<<"prepare">>}
      [] act = "quiesce" -> {<<"save", "stop_core", "stop_worker">>,
                             <<"stop_core", "stop_worker">>, <<"stop_worker">>}
      [] act = "install" -> {<<"break", "write_new", "save">>, <<"write_new", "save">>, <<"save">>}
      [] act = "restore" -> {<<"break", "write_old", "save">>, <<"write_old", "save">>, <<"save">>}
      [] act \in {"worker", "old_worker"} -> {<<"start_worker", "save">>, <<"save">>}
      [] act \in {"core", "old_core"} -> {<<"start_core", "save">>, <<"save">>}
      [] OTHER -> {<<"save">>}
Plans == UNION {Suffixes(Does(a)) : a \in Actions}
Works == [act : Actions, op : 0..MaxRuns, rev : Revisions, from : 0..N, left : Plans]

Types ==
    /\ desired \in Revisions
    /\ journal \in [Nodes -> Entries]
    /\ bundle \in [Nodes -> Revisions \cup {Half}]
    /\ worker \in [Nodes -> Revisions \cup {Stopped}]
    /\ core \in [Nodes -> Revisions \cup {Stopped}]
    /\ accepted \in [Nodes -> Seq(Commands)]
    /\ queue \in [Nodes -> Seq(Commands)]
    /\ busy \in [Nodes -> Works \cup {NoCommand}]
    /\ \A n \in Nodes : busy[n] # NoCommand => busy[n].left \in Lefts(busy[n].act)
    /\ task \in [Nodes -> Tasks]
    /\ job \in [Nodes -> Jobs]
    /\ runs \in 0..MaxRuns
    /\ faults \in 0..MaxFaults

Active(t) == t.pc \in {"working", "failed"}
ActsOf(way) ==
    CASE way = "prepare" -> {"prepare", "end"}
      [] way = "apply" -> {"quiesce", "install", "worker", "core", "finish", "end"}
      [] OTHER -> {"quiesce", "restore", "old_worker", "old_core", "rolled_back", "end"}
TaskOK(t, j, k) ==
    /\ Active(t) <=> j = "running"
    /\ t.waits => t.pc = "working" /\ t.act # "end"
    /\ t.pc # "idle" => t.rev \in Revisions
    /\ Active(t) => t.op \in 1..k /\ t.way # "none" /\ t.act \in ActsOf(t.way)
TaskInv == \A c \in Nodes : TaskOK(task[c], job[c], runs)

\* A command that has a task waiting is what that task asked for last.
Asked(t, n, r) ==
    /\ t.waits /\ t.act = r.act /\ t.op = r.op /\ t.rev = r.rev
    /\ n \in t.left /\ \A m \in t.left : n <= m
AskedInv ==
    \A n \in Nodes : \A r \in Out(n) : r.from # NoOne => Asked(task[r.from], n, r)

OpInv ==
    /\ \A n \in Nodes : journal[n].op <= runs
    /\ \A n \in Nodes : \A r \in Out(n) : r.act # "none" => r.op \in 1..runs

\* What a node's bundles are, by its journal and the command it works on.
AtOld == {"prepared", "restored", "old_worker_started", "old_core_started", "rolled_back"}
AtNew == {"installed", "worker_started", "core_started", "complete"}
JournalOK(j, b) ==
    /\ j.state = "idle" => j.op = 0 /\ b # Half
    /\ j.state # "idle" => j.op # 0 /\ j.rev \in Revisions /\ j.prev \in Revisions
    /\ j.state \in AtOld => b = j.prev
    /\ j.state \in AtNew => b = j.rev
WorkOK(r, j, b, c) ==
    /\ (r.act = "prepare" /\ r.op # j.op) => j.state \in Terminal \cup {"idle"} /\ b \in 1..r.rev
    /\ r.act \notin {"none", "prepare"} => r.op = j.op /\ r.rev = j.rev /\ j.state \in Phases(r.act)
    /\ r.act = "quiesce" =>
          /\ Len(r.left) < 3 => j.state = "quiesced"
          /\ Len(r.left) < 2 => c = Stopped
    /\ (r.act = "install" /\ Len(r.left) < 2) => b = j.rev
    /\ (r.act = "restore" /\ Len(r.left) < 2) => b = j.prev
NodeInv == \A n \in Nodes :
    JournalOK(journal[n], bundle[n]) /\ WorkOK(busy[n], journal[n], bundle[n], core[n])

LInv == Types /\ LineInv /\ TaskInv /\ AskedInv /\ OpInv /\ NodeInv

-----------------------------------------------------------------------------
(***************************************************************************)
(* Sequences and lines.                                                    *)
(***************************************************************************)
LEMMA AppendIs ==
  ASSUME NEW S, NEW a \in Seq(S), NEW x \in S
  PROVE  /\ Append(a, x) \in Seq(S)
         /\ DOMAIN a = 1 .. Len(a) /\ DOMAIN Append(a, x) = 1 .. (Len(a) + 1) /\ Len(a) \in Nat
         /\ \A i \in 1 .. Len(a) : Append(a, x)[i] = a[i]
         /\ Append(a, x)[Len(a) + 1] = x
  OBVIOUS

LEMMA TailIs ==
  ASSUME NEW S, NEW a \in Seq(S), a # <<>>
  PROVE  /\ Tail(a) \in Seq(S)
         /\ DOMAIN a = 1 .. Len(a) /\ DOMAIN Tail(a) = 1 .. (Len(a) - 1) /\ Len(a) \in Nat
         /\ \A i \in 1 .. (Len(a) - 1) : Tail(a)[i] = a[i + 1]
         /\ Head(a) = a[1] /\ 1 \in DOMAIN a /\ Head(a) \in S
  OBVIOUS

LEMMA WithoutIs ==
  ASSUME NEW S, NEW a \in Seq(S), NEW k \in DOMAIN a
  PROVE  /\ Without(a, k) \in Seq(S)
         /\ DOMAIN a = 1 .. Len(a) /\ DOMAIN Without(a, k) = 1 .. (Len(a) - 1) /\ Len(a) \in Nat
         /\ \A i \in 1 .. (Len(a) - 1) : Without(a, k)[i] = a[IF i < k THEN i ELSE i + 1]
<1>1. DOMAIN a = 1 .. Len(a) /\ Len(a) \in Nat /\ \A i \in 1 .. Len(a) : a[i] \in S
  OBVIOUS
<1>2. \A i \in 1 .. (Len(a) - 1) : (IF i < k THEN a[i] ELSE a[i + 1]) \in S
  BY <1>1
<1>3. Len(a) - 1 \in Nat
  BY <1>1
<1> QED
  BY <1>1, <1>2, <1>3 DEF Without

LEMMA WithoutMoves ==
  ASSUME NEW S, NEW a \in Seq(S), NEW k \in DOMAIN a
  PROVE  \E g \in [DOMAIN Without(a, k) -> DOMAIN a] :
            /\ \A i, j \in DOMAIN Without(a, k) : i < j => g[i] < g[j]
            /\ \A i \in DOMAIN Without(a, k) : Without(a, k)[i] = a[g[i]]
<1> DEFINE g == [i \in DOMAIN Without(a, k) |-> IF i < k THEN i ELSE i + 1]
<1>1. /\ DOMAIN a = 1 .. Len(a) /\ DOMAIN Without(a, k) = 1 .. (Len(a) - 1) /\ Len(a) \in Nat
      /\ \A i \in 1 .. (Len(a) - 1) : Without(a, k)[i] = a[IF i < k THEN i ELSE i + 1]
  BY WithoutIs
<1>2. g \in [DOMAIN Without(a, k) -> DOMAIN a]
  BY <1>1
<1>3. /\ \A i, j \in DOMAIN Without(a, k) : i < j => g[i] < g[j]
      /\ \A i \in DOMAIN Without(a, k) : Without(a, k)[i] = a[g[i]]
  BY <1>1
<1> QED
  BY <1>2, <1>3

LEMMA NoElements == Elements(<<>>) = {}
<1>1. DOMAIN (<<>>) = {}
  OBVIOUS
<1> QED
  BY <1>1 DEF Elements

LEMMA ElementsAre ==
  ASSUME NEW S, NEW a \in Seq(S)
  PROVE  /\ Elements(a) \subseteq S /\ Elements(<<>>) = {}
         /\ \A x : x \in Elements(a) <=> \E i \in DOMAIN a : x = a[i]
         /\ \A x \in S : Elements(Append(a, x)) = Elements(a) \cup {x}
         /\ a # <<>> => Head(a) \in Elements(a) /\ Elements(Tail(a)) \subseteq Elements(a)
         /\ \A k \in DOMAIN a : Elements(Without(a, k)) \subseteq Elements(a)
<1>1. Elements(a) \subseteq S
  BY DEF Elements
<1>2. Elements(<<>>) = {}
  BY NoElements
<1>3. ASSUME NEW x \in S PROVE Elements(Append(a, x)) = Elements(a) \cup {x}
  <2>1. \A y : y \in Elements(Append(a, x)) => y \in Elements(a) \cup {x}
    BY AppendIs DEF Elements
  <2>2. \A y : y \in Elements(a) \cup {x} => y \in Elements(Append(a, x))
    BY AppendIs DEF Elements
  <2> QED
    BY <2>1, <2>2
<1>4. ASSUME a # <<>> PROVE Head(a) \in Elements(a) /\ Elements(Tail(a)) \subseteq Elements(a)
  BY <1>4, TailIs DEF Elements
<1>5. ASSUME NEW k \in DOMAIN a PROVE Elements(Without(a, k)) \subseteq Elements(a)
  BY WithoutMoves DEF Elements
<1>6. \A x : x \in Elements(a) <=> \E i \in DOMAIN a : x = a[i]
  BY DEF Elements
<1> QED
  BY <1>1, <1>2, <1>3, <1>4, <1>5, <1>6

LEMMA BothWait ==
  ASSUME NEW a, NEW q, NEW b, NEW o, Line(a, q, b, o)
  PROVE  /\ \A x \in Elements(a) \cup Elements(q) : Before(b, x, o)
         /\ \A x \in Elements(q), y \in Elements(a) : Before(x, y, o)
         /\ \A i, j \in DOMAIN a : i < j => Before(a[i], a[j], o)
         /\ \A i, j \in DOMAIN q : i < j => Before(q[i], q[j], o)
  BY DEF Line, Elements

LEMMA HeadWaits ==
  ASSUME NEW S, NEW a \in Seq(S), NEW q \in Seq(S), NEW b, NEW o, Line(a, q, b, o)
  PROVE  /\ a # <<>> => \A x \in Elements(Tail(a)) : Before(Head(a), x, o)
         /\ q # <<>> => \A x \in Elements(Tail(q)) : Before(Head(q), x, o)
<1>1. ASSUME NEW s \in Seq(S), s # <<>>, \A i, j \in DOMAIN s : i < j => Before(s[i], s[j], o),
             NEW x \in Elements(Tail(s))
      PROVE  Before(Head(s), x, o)
  <2>1. PICK i \in DOMAIN Tail(s) : x = Tail(s)[i]
    BY DEF Elements
  <2>2. i + 1 \in DOMAIN s /\ x = s[i + 1] /\ Head(s) = s[1] /\ 1 \in DOMAIN s /\ 1 < i + 1
    BY <1>1, <2>1, TailIs
  <2> QED
    BY <1>1, <2>2
<1> QED
  BY <1>1, BothWait

LEMMA OthersWait ==
  ASSUME NEW S, NEW s \in Seq(S), NEW o, \A i, j \in DOMAIN s : i < j => Before(s[i], s[j], o),
         NEW k \in DOMAIN s, NEW x \in Elements(Without(s, k))
  PROVE  Before(s[k], x, o) \/ Before(x, s[k], o)
<1>1. PICK i \in DOMAIN Without(s, k) : x = Without(s, k)[i]
  BY DEF Elements
<1>2. DOMAIN s = 1 .. Len(s) /\ DOMAIN Without(s, k) = 1 .. (Len(s) - 1) /\ Len(s) \in Nat
  BY WithoutIs
<1>3. CASE i < k
  <2>1. x = s[i] /\ i \in DOMAIN s
    BY <1>1, <1>2, <1>3, WithoutIs
  <2> QED
    BY <1>3, <2>1
<1>4. CASE ~(i < k)
  <2>1. x = s[i + 1]
    BY <1>1, <1>2, <1>4, WithoutIs
  <2>2. i + 1 \in DOMAIN s /\ k < i + 1 /\ k \in DOMAIN s
    BY <1>1, <1>2, <1>4
  <2> QED
    BY <2>1, <2>2
<1> QED
  BY <1>3, <1>4

\* Commands move towards the agent, and none overtakes another.
LEMMA LineJoins ==
  ASSUME NEW S, NEW a \in Seq(S), NEW q \in Seq(S), NEW b, NEW o, NEW x \in S, Line(a, q, b, o),
         Before(b, x, o), \A i \in DOMAIN q : Before(q[i], x, o)
  PROVE  /\ (\A i \in DOMAIN a : Before(a[i], x, o)) => Line(Append(a, x), q, b, o)
         /\ (\A i \in DOMAIN a : Before(x, a[i], o)) => Line(a, Append(q, x), b, o)
<1>1. ASSUME \A i \in DOMAIN a : Before(a[i], x, o) PROVE Line(Append(a, x), q, b, o)
  BY <1>1, AppendIs DEF Line
<1>2. ASSUME \A i \in DOMAIN a : Before(x, a[i], o) PROVE Line(a, Append(q, x), b, o)
  BY <1>2, AppendIs DEF Line
<1> QED
  BY <1>1, <1>2

LEMMA LineLeaves ==
  ASSUME NEW S, NEW a \in Seq(S), NEW q \in Seq(S), NEW b, NEW o, Line(a, q, b, o)
  PROVE  /\ a # <<>> => Line(Tail(a), q, b, o)
         /\ q # <<>> => Line(a, Tail(q), b, o)
         /\ \A k \in DOMAIN a : Line(Without(a, k), q, b, o)
         /\ \A k \in DOMAIN q : Line(a, Without(q, k), b, o)
<1>1. ASSUME a # <<>> PROVE Line(Tail(a), q, b, o)
  BY <1>1, TailIs DEF Line
<1>2. ASSUME q # <<>> PROVE Line(a, Tail(q), b, o)
  BY <1>2, TailIs DEF Line
<1>3. ASSUME NEW k \in DOMAIN a PROVE Line(Without(a, k), q, b, o)
  <2>1. PICK g \in [DOMAIN Without(a, k) -> DOMAIN a] :
          /\ \A i, j \in DOMAIN Without(a, k) : i < j => g[i] < g[j]
          /\ \A i \in DOMAIN Without(a, k) : Without(a, k)[i] = a[g[i]]
    BY WithoutMoves
  <2> QED
    BY <2>1 DEF Line
<1>4. ASSUME NEW k \in DOMAIN q PROVE Line(a, Without(q, k), b, o)
  <2>1. PICK g \in [DOMAIN Without(q, k) -> DOMAIN q] :
          /\ \A i, j \in DOMAIN Without(q, k) : i < j => g[i] < g[j]
          /\ \A i \in DOMAIN Without(q, k) : Without(q, k)[i] = q[g[i]]
    BY WithoutMoves
  <2> QED
    BY <2>1 DEF Line
<1> QED
  BY <1>1, <1>2, <1>3, <1>4

LEMMA LineMoves ==
  ASSUME NEW S, NEW a \in Seq(S), NEW q \in Seq(S), NEW b, NEW o, Line(a, q, b, o), a # <<>>
  PROVE  Line(Tail(a), Append(q, Head(a)), b, o)
<1>1. Line(Tail(a), q, b, o) /\ Tail(a) \in Seq(S) /\ Head(a) \in S
  BY LineLeaves, TailIs
<1>2. /\ Before(b, Head(a), o) /\ \A i \in DOMAIN q : Before(q[i], Head(a), o)
      /\ \A i \in DOMAIN Tail(a) : Before(Head(a), Tail(a)[i], o)
  BY TailIs DEF Line
<1> QED
  BY <1>1, <1>2, LineJoins

LEMMA LineBegins ==
  ASSUME NEW S, NEW a \in Seq(S), NEW q \in Seq(S), NEW b, NEW o, Line(a, q, b, o), q # <<>>,
         NEW x, x.act = Head(q).act, x.op = Head(q).op, x.from = Head(q).from
  PROVE  Line(a, Tail(q), x, o)
<1>1. Line(a, Tail(q), b, o)
  BY LineLeaves
<1>2. \A s : Before(Head(q), s, o) => Before(x, s, o)
  BY DEF Before
<1>3. /\ \A i \in DOMAIN Tail(q) : Before(Head(q), Tail(q)[i], o)
      /\ \A i \in DOMAIN a : Before(Head(q), a[i], o)
  BY TailIs DEF Line
<1> QED
  BY <1>1, <1>2, <1>3 DEF Line

LEMMA LineWorks ==
  ASSUME NEW a, NEW q, NEW b, NEW o, Line(a, q, b, o), NEW x,
         x.from \in {NoOne, b.from}, x.act \in {"none", b.act}, x.op = b.op \/ x.act = "none"
  PROVE  Line(a, q, x, o)
<1>1. \A s : Before(b, s, o) => Before(x, s, o)
  BY DEF Before
<1> QED
  BY <1>1 DEF Line

LEMMA LineOrphaned ==
  ASSUME NEW a, NEW q, NEW b, NEW o, NEW c, Line(a, q, b, o)
  PROVE  Line([i \in DOMAIN a |-> Orphan(c, a[i])], [i \in DOMAIN q |-> Orphan(c, q[i])], Orphan(c, b), o)
<1>1. \A r, s : Before(r, s, o) => Before(Orphan(c, r), Orphan(c, s), o)
  BY DEF Before, Orphan
<1> QED
  BY <1>1 DEF Line

LEMMA LineCleared ==
  ASSUME NEW a, NEW q, NEW b, NEW o, Line(a, q, b, o)
  PROVE  Line(<<>>, q, b, o) /\ Line(<<>>, <<>>, NoCommand, o)
<1>1. DOMAIN (<<>>) = {}
  OBVIOUS
<1> QED
  BY <1>1 DEF Line

-----------------------------------------------------------------------------
(***************************************************************************)
(* Records.                                                                *)
(***************************************************************************)
LEMMA Constants ==
  /\ N \in Nat \ {0} /\ MaxRuns \in Nat /\ MaxSaves \in Nat /\ MaxFaults \in Nat /\ Beside \in Nat
  /\ Nodes = 1 .. N /\ Nodes # {} /\ NoOne \notin Nodes /\ Revisions \subseteq 1 .. (2 + MaxSaves)
  /\ Half \notin Revisions /\ Stopped \notin Revisions /\ Revisions \subseteq Nat
  BY RuntimeApplyAssumption DEF Nodes, NoOne, Revisions, Half, Stopped

LEMMA IdleIs ==
  /\ Idle \in Tasks /\ Idle.pc = "idle" /\ Idle.waits = FALSE /\ Idle.got = {} /\ Idle.sound = TRUE
  BY Constants DEF Idle, Tasks

LEMMA AsksIs ==
  ASSUME NEW t \in Tasks, NEW way \in {"prepare", "apply", "back", "recover"}, NEW act \in Actions,
         NEW members \in SUBSET Nodes
  PROVE  LET u == Asks(t, way, act, members) IN
         /\ u \in Tasks /\ u.pc = "working" /\ u.way = way /\ u.nodes = members /\ u.left = members
         /\ u.act = IF members = {} THEN "end" ELSE act
         /\ u.op = t.op /\ u.rev = t.rev /\ u.got = t.got /\ u.sound = t.sound /\ u.waits = t.waits
  BY DEF Asks, Tasks

LEMMA FailedIs ==
  ASSUME NEW t \in Tasks
  PROVE  LET u == Failed(t) IN
         /\ u \in Tasks /\ u.pc = "failed" /\ u.waits = FALSE
         /\ u.way = t.way /\ u.op = t.op /\ u.rev = t.rev /\ u.act = t.act
         /\ u.nodes = t.nodes /\ u.left = t.left /\ u.got = t.got /\ u.sound = t.sound
  BY DEF Failed, Tasks

FailedAs(u, t) ==
    /\ u.pc = "failed" /\ u.waits = FALSE
    /\ u.way = t.way /\ u.op = t.op /\ u.rev = t.rev /\ u.act = t.act
    /\ u.nodes = t.nodes /\ u.left = t.left /\ u.got = t.got /\ u.sound = t.sound

LEMMA FailedIsSo == ASSUME NEW t \in Tasks PROVE FailedAs(Failed(t), t)
  BY FailedIs DEF FailedAs

LEMMA ThenIs ==
  ASSUME NEW way, NEW act \in ActsOf(way), act # "end"
  PROVE  /\ Then(way, act) \in ActsOf(way) /\ Then(way, act) \in Actions \cup {"end"}
         /\ way = "prepare" => Then(way, act) = "end"
         /\ way = "apply" => /\ act = "quiesce" => Then(way, act) = "install"
                             /\ act = "install" => Then(way, act) = "worker"
                             /\ act = "worker" => Then(way, act) = "core"
                             /\ act = "core" => Then(way, act) = "finish"
                             /\ act = "finish" => Then(way, act) = "end"
         /\ way \notin {"prepare", "apply"} => Then(way, act) # "quiesce"
  BY DEF Then, ActsOf, Actions

LEMMA ConfirmedIs ==
  ASSUME NEW t \in Tasks, NEW n \in Nodes, t.act # "end", t.act \in ActsOf(t.way)
  PROVE  LET u == Confirmed(t, t.act, n) IN
         /\ u \in Tasks /\ u.pc = t.pc /\ u.waits = FALSE /\ u.way = t.way /\ u.op = t.op /\ u.rev = t.rev
         /\ u.nodes = t.nodes
         /\ u.left = (IF t.left = {n} THEN t.nodes ELSE t.left \ {n})
         /\ u.act = (IF t.left = {n} THEN Then(t.way, t.act) ELSE t.act)
         /\ u.got = (IF t.act = "prepare" THEN t.got \cup {n} ELSE t.got)
         /\ u.sound = (t.sound /\ (t.act = "finish" => Serves(n, t.rev)))
<1>1. Then(t.way, t.act) \in Actions \cup {"end"}
  BY ThenIs
<1>2. (t.sound /\ (t.act = "finish" => Serves(n, t.rev))) \in BOOLEAN
  BY DEF Tasks
<1>3. /\ (IF t.left = {n} THEN t.nodes ELSE t.left \ {n}) \in SUBSET Nodes
      /\ (IF t.act = "prepare" THEN t.got \cup {n} ELSE t.got) \in SUBSET Nodes
  BY DEF Tasks
<1> QED
  BY <1>1, <1>2, <1>3 DEF Confirmed, Tasks

ConfirmedAs(u, t, n) ==
    /\ u \in Tasks /\ u.pc = t.pc /\ u.waits = FALSE /\ u.way = t.way /\ u.op = t.op /\ u.rev = t.rev
    /\ u.nodes = t.nodes
    /\ u.left = (IF t.left = {n} THEN t.nodes ELSE t.left \ {n})
    /\ u.act = (IF t.left = {n} THEN Then(t.way, t.act) ELSE t.act)
    /\ u.got = (IF t.act = "prepare" THEN t.got \cup {n} ELSE t.got)
    /\ u.sound = (t.sound /\ (t.act = "finish" => Serves(n, t.rev)))

LEMMA ConfirmedIsSo ==
  ASSUME NEW t \in Tasks, NEW n \in Nodes, t.act # "end", t.act \in ActsOf(t.way)
  PROVE  ConfirmedAs(Confirmed(t, t.act, n), t, n)
  BY ConfirmedIs DEF ConfirmedAs

LEMMA OrphanIs ==
  ASSUME NEW c \in Nodes
  PROVE  /\ \A r \in Commands : Orphan(c, r) \in Commands
         /\ \A r \in Works \cup {NoCommand} :
              /\ Orphan(c, r) \in Works \cup {NoCommand} /\ Orphan(c, r).left = r.left
              /\ Orphan(c, r) = NoCommand <=> r = NoCommand
         /\ \A r \in Commands \cup Works \cup {NoCommand} :
              /\ Orphan(c, r).act = r.act /\ Orphan(c, r).op = r.op /\ Orphan(c, r).rev = r.rev
              /\ Orphan(c, r).from = IF r.from = c THEN NoOne ELSE r.from
<1>1. \A r \in Commands : Orphan(c, r) \in Commands
  BY Constants DEF Orphan, Commands, NoOne
<1>2. ASSUME NEW r \in Works \cup {NoCommand}
      PROVE  /\ Orphan(c, r) \in Works \cup {NoCommand} /\ Orphan(c, r).left = r.left
             /\ Orphan(c, r) = NoCommand <=> r = NoCommand
  BY Constants DEF Orphan, Works, NoCommand, NoOne, Actions
<1>3. ASSUME NEW r \in Commands \cup Works \cup {NoCommand}
      PROVE  /\ Orphan(c, r).act = r.act /\ Orphan(c, r).op = r.op /\ Orphan(c, r).rev = r.rev
             /\ Orphan(c, r).from = IF r.from = c THEN NoOne ELSE r.from
  BY DEF Orphan, Commands, Works, NoCommand
<1> QED
  BY <1>1, <1>2, <1>3

\* The steps of a command.
LEMMA Tuples ==
  /\ \A f : f = [i \in 1 .. 0 |-> f[i]] => f = <<>>
  /\ \A f : f = [i \in 1 .. 1 |-> f[i]] => f = <<f[1]>>
  /\ \A f : f = [i \in 1 .. 2 |-> f[i]] => f = <<f[1], f[2]>>
  OBVIOUS

LEMMA EndingsOfThree ==
  ASSUME NEW s, NEW x, NEW y, NEW z, s = <<x, y, z>>
  PROVE  Suffixes(s) = {<<x, y, z>>, <<y, z>>, <<z>>, <<>>}
<1>1. s \in Seq({x, y, z}) /\ Len(s) = 3 /\ s[1] = x /\ s[2] = y /\ s[3] = z
  OBVIOUS
<1>2. /\ SubSeq(s, 1, 3) = [i \in 1 .. 3 |-> s[i]] /\ SubSeq(s, 2, 3) = [i \in 1 .. 2 |-> s[i + 1]]
      /\ SubSeq(s, 3, 3) = [i \in 1 .. 1 |-> s[i + 2]] /\ SubSeq(s, 4, 3) = [i \in 1 .. 0 |-> s[i + 3]]
  BY <1>1
<1>3. [i \in 1 .. 3 |-> s[i]] = <<x, y, z>>
  BY <1>1
<1>4. [i \in 1 .. 2 |-> s[i + 1]] = <<y, z>>
  BY <1>1, Tuples
<1>5. [i \in 1 .. 1 |-> s[i + 2]] = <<z>>
  BY <1>1, Tuples
<1>6. [i \in 1 .. 0 |-> s[i + 3]] = <<>>
  BY Tuples
<1>7. Suffixes(s) = {SubSeq(s, 1, 3), SubSeq(s, 2, 3), SubSeq(s, 3, 3), SubSeq(s, 4, 3)}
  <2>1. 1 .. (Len(s) + 1) = {1, 2, 3, 4}
    BY <1>1
  <2> QED
    BY <1>1, <2>1 DEF Suffixes
<1> QED
  BY <1>2, <1>3, <1>4, <1>5, <1>6, <1>7

LEMMA EndingsOfTwo ==
  ASSUME NEW s, NEW x, NEW y, s = <<x, y>>
  PROVE  Suffixes(s) = {<<x, y>>, <<y>>, <<>>}
<1>1. s \in Seq({x, y}) /\ Len(s) = 2 /\ s[1] = x /\ s[2] = y
  OBVIOUS
<1>2. /\ SubSeq(s, 1, 2) = [i \in 1 .. 2 |-> s[i]] /\ SubSeq(s, 2, 2) = [i \in 1 .. 1 |-> s[i + 1]]
      /\ SubSeq(s, 3, 2) = [i \in 1 .. 0 |-> s[i + 2]]
  BY <1>1
<1>3. [i \in 1 .. 2 |-> s[i]] = <<x, y>>
  BY <1>1
<1>4. [i \in 1 .. 1 |-> s[i + 1]] = <<y>>
  BY <1>1, Tuples
<1>5. [i \in 1 .. 0 |-> s[i + 2]] = <<>>
  BY Tuples
<1>6. Suffixes(s) = {SubSeq(s, 1, 2), SubSeq(s, 2, 2), SubSeq(s, 3, 2)}
  <2>1. 1 .. (Len(s) + 1) = {1, 2, 3}
    BY <1>1
  <2> QED
    BY <1>1, <2>1 DEF Suffixes
<1> QED
  BY <1>2, <1>3, <1>4, <1>5, <1>6

LEMMA EndingsOfOne ==
  ASSUME NEW s, NEW x, s = <<x>>
  PROVE  Suffixes(s) = {<<x>>, <<>>}
<1>1. s \in Seq({x}) /\ Len(s) = 1 /\ s[1] = x
  OBVIOUS
<1>2. SubSeq(s, 1, 1) = [i \in 1 .. 1 |-> s[i]] /\ SubSeq(s, 2, 1) = [i \in 1 .. 0 |-> s[i + 1]]
  BY <1>1
<1>3. [i \in 1 .. 1 |-> s[i]] = <<x>> /\ [i \in 1 .. 0 |-> s[i + 1]] = <<>>
  BY <1>1, Tuples
<1>4. Suffixes(s) = {SubSeq(s, 1, 1), SubSeq(s, 2, 1)}
  <2>1. 1 .. (Len(s) + 1) = {1, 2}
    BY <1>1
  <2> QED
    BY <1>1, <2>1 DEF Suffixes
<1> QED
  BY <1>2, <1>3, <1>4

LEMMA TupleIs ==
  /\ \A s, x, y, z : s = <<x, y, z>> => s # <<>> /\ Len(s) = 3 /\ Head(s) = x /\ Tail(s) = <<y, z>>
  /\ \A s, x, y : s = <<x, y>> => s # <<>> /\ Len(s) = 2 /\ Head(s) = x /\ Tail(s) = <<y>>
  /\ \A s, x : s = <<x>> => s # <<>> /\ Len(s) = 1 /\ Head(s) = x
<1>1. ASSUME NEW s, NEW x, NEW y, NEW z, s = <<x, y, z>>
      PROVE  s # <<>> /\ Len(s) = 3 /\ Head(s) = x /\ Tail(s) = <<y, z>>
  BY <1>1
<1>2. ASSUME NEW s, NEW x, NEW y, s = <<x, y>>
      PROVE  s # <<>> /\ Len(s) = 2 /\ Head(s) = x /\ Tail(s) = <<y>>
  BY <1>2
<1>3. ASSUME NEW s, NEW x, s = <<x>> PROVE s # <<>> /\ Len(s) = 1 /\ Head(s) = x
  BY <1>3
<1> QED
  BY <1>1, <1>2, <1>3

LEMMA PlanIs ==
  ASSUME NEW act \in Actions
  PROVE  /\ <<>> \in Plans /\ Lefts(act) \subseteq Plans /\ Does(act) \in Lefts(act)
         /\ Len(Does(act)) = (IF act \in {"quiesce", "install", "restore"} THEN 3
                              ELSE IF act \in {"worker", "core", "old_worker", "old_core"} THEN 2 ELSE 1)
<1>1. Suffixes(Does(act)) = Lefts(act) \cup {<<>>} /\ Does(act) \in Lefts(act)
  <2>1. CASE act = "quiesce"
    <3>1. Does(act) = <<"save", "stop_core", "stop_worker">> /\ Lefts(act) = {<<"save", "stop_core", "stop_worker">>, <<"stop_core", "stop_worker">>, <<"stop_worker">>}
      BY <2>1 DEF Does, Lefts
    <3>2. Suffixes(Does(act)) = {<<"save", "stop_core", "stop_worker">>, <<"stop_core", "stop_worker">>, <<"stop_worker">>, <<>>}
      BY <3>1, EndingsOfThree
    <3> QED
      BY <3>1, <3>2
  <2>2. CASE act = "install"
    <3>1. Does(act) = <<"break", "write_new", "save">> /\ Lefts(act) = {<<"break", "write_new", "save">>, <<"write_new", "save">>, <<"save">>}
      BY <2>2 DEF Does, Lefts
    <3>2. Suffixes(Does(act)) = {<<"break", "write_new", "save">>, <<"write_new", "save">>, <<"save">>, <<>>}
      BY <3>1, EndingsOfThree
    <3> QED
      BY <3>1, <3>2
  <2>3. CASE act = "restore"
    <3>1. Does(act) = <<"break", "write_old", "save">> /\ Lefts(act) = {<<"break", "write_old", "save">>, <<"write_old", "save">>, <<"save">>}
      BY <2>3 DEF Does, Lefts
    <3>2. Suffixes(Does(act)) = {<<"break", "write_old", "save">>, <<"write_old", "save">>, <<"save">>, <<>>}
      BY <3>1, EndingsOfThree
    <3> QED
      BY <3>1, <3>2
  <2>4. CASE act \in {"worker", "old_worker"}
    <3>1. Does(act) = <<"start_worker", "save">> /\ Lefts(act) = {<<"start_worker", "save">>, <<"save">>}
      BY <2>4 DEF Does, Lefts
    <3>2. Suffixes(Does(act)) = {<<"start_worker", "save">>, <<"save">>, <<>>}
      BY <3>1, EndingsOfTwo
    <3> QED
      BY <3>1, <3>2
  <2>5. CASE act \in {"core", "old_core"}
    <3>1. Does(act) = <<"start_core", "save">> /\ Lefts(act) = {<<"start_core", "save">>, <<"save">>}
      BY <2>5 DEF Does, Lefts
    <3>2. Suffixes(Does(act)) = {<<"start_core", "save">>, <<"save">>, <<>>}
      BY <3>1, EndingsOfTwo
    <3> QED
      BY <3>1, <3>2
  <2>6. CASE act \in {"finish", "rolled_back"}
    <3>1. Does(act) = <<"save">> /\ Lefts(act) = {<<"save">>}
      BY <2>6 DEF Does, Lefts
    <3>2. Suffixes(Does(act)) = {<<"save">>, <<>>}
      BY <3>1, EndingsOfOne
    <3> QED
      BY <3>1, <3>2
  <2>7. CASE act = "prepare"
    <3>1. Does(act) = <<"prepare">> /\ Lefts(act) = {<<"prepare">>}
      BY <2>7 DEF Does, Lefts
    <3>2. Suffixes(Does(act)) = {<<"prepare">>, <<>>}
      BY <3>1, EndingsOfOne
    <3> QED
      BY <3>1, <3>2
  <2> QED
    BY <2>1, <2>2, <2>3, <2>4, <2>5, <2>6, <2>7 DEF Actions
<1>2. Len(Does(act)) = (IF act \in {"quiesce", "install", "restore"} THEN 3
                        ELSE IF act \in {"worker", "core", "old_worker", "old_core"} THEN 2 ELSE 1)
  BY DEF Does, Actions
<1> QED
  BY <1>1, <1>2 DEF Plans

LEMMA LeftIs ==
  ASSUME NEW act \in Actions, NEW s \in Lefts(act)
  PROVE  /\ s # <<>> /\ Len(s) \in 1 .. 3
         /\ Len(s) # 1 => Tail(s) \in Lefts(act) /\ Len(Tail(s)) = Len(s) - 1
         /\ Head(s) = "prepare" <=> act = "prepare"
         /\ act = "prepare" => Len(s) = 1
         /\ Head(s) = "save" => Len(s) = (IF act = "quiesce" THEN 3 ELSE 1)
         /\ Len(s) = 3 => act \in {"install", "restore"} \/ Head(s) = "save"
         /\ Head(s) = "stop_core" => act = "quiesce" /\ Len(s) = 2
         /\ Head(s) = "stop_worker" => act = "quiesce" /\ Len(s) = 1
         /\ Head(s) = "break" => act \in {"install", "restore"} /\ Len(s) = 3
         /\ Head(s) = "write_new" => act = "install" /\ Len(s) = 2
         /\ Head(s) = "write_old" => act = "restore" /\ Len(s) = 2
         /\ Head(s) = "start_worker" => act \in {"worker", "old_worker"} /\ Len(s) = 2
         /\ Head(s) = "start_core" => act \in {"core", "old_core"} /\ Len(s) = 2
<1>1. CASE act = "quiesce"
  <2>1. Lefts(act) = {<<"save", "stop_core", "stop_worker">>, <<"stop_core", "stop_worker">>, <<"stop_worker">>}
    BY <1>1 DEF Lefts
  <2>2. CASE s = <<"save", "stop_core", "stop_worker">>
    <3>1. s # <<>> /\ Len(s) = 3 /\ Head(s) = "save" /\ Tail(s) = <<"stop_core", "stop_worker">>
      BY <2>2, TupleIs
    <3>2. Tail(s) \in Lefts(act) /\ Len(Tail(s)) = 2
      BY <2>1, <3>1, TupleIs
    <3> QED
      BY <1>1, <3>1, <3>2
  <2>3. CASE s = <<"stop_core", "stop_worker">>
    <3>1. s # <<>> /\ Len(s) = 2 /\ Head(s) = "stop_core" /\ Tail(s) = <<"stop_worker">>
      BY <2>3, TupleIs
    <3>2. Tail(s) \in Lefts(act) /\ Len(Tail(s)) = 1
      BY <2>1, <3>1, TupleIs
    <3> QED
      BY <1>1, <3>1, <3>2
  <2>4. CASE s = <<"stop_worker">>
    <3>1. s # <<>> /\ Len(s) = 1 /\ Head(s) = "stop_worker"
      BY <2>4, TupleIs
    <3> QED
      BY <1>1, <3>1
  <2> QED
    BY <2>1, <2>2, <2>3, <2>4
<1>2. CASE act = "install"
  <2>1. Lefts(act) = {<<"break", "write_new", "save">>, <<"write_new", "save">>, <<"save">>}
    BY <1>2 DEF Lefts
  <2>2. CASE s = <<"break", "write_new", "save">>
    <3>1. s # <<>> /\ Len(s) = 3 /\ Head(s) = "break" /\ Tail(s) = <<"write_new", "save">>
      BY <2>2, TupleIs
    <3>2. Tail(s) \in Lefts(act) /\ Len(Tail(s)) = 2
      BY <2>1, <3>1, TupleIs
    <3> QED
      BY <1>2, <3>1, <3>2
  <2>3. CASE s = <<"write_new", "save">>
    <3>1. s # <<>> /\ Len(s) = 2 /\ Head(s) = "write_new" /\ Tail(s) = <<"save">>
      BY <2>3, TupleIs
    <3>2. Tail(s) \in Lefts(act) /\ Len(Tail(s)) = 1
      BY <2>1, <3>1, TupleIs
    <3> QED
      BY <1>2, <3>1, <3>2
  <2>4. CASE s = <<"save">>
    <3>1. s # <<>> /\ Len(s) = 1 /\ Head(s) = "save"
      BY <2>4, TupleIs
    <3> QED
      BY <1>2, <3>1
  <2> QED
    BY <2>1, <2>2, <2>3, <2>4
<1>3. CASE act = "restore"
  <2>1. Lefts(act) = {<<"break", "write_old", "save">>, <<"write_old", "save">>, <<"save">>}
    BY <1>3 DEF Lefts
  <2>2. CASE s = <<"break", "write_old", "save">>
    <3>1. s # <<>> /\ Len(s) = 3 /\ Head(s) = "break" /\ Tail(s) = <<"write_old", "save">>
      BY <2>2, TupleIs
    <3>2. Tail(s) \in Lefts(act) /\ Len(Tail(s)) = 2
      BY <2>1, <3>1, TupleIs
    <3> QED
      BY <1>3, <3>1, <3>2
  <2>3. CASE s = <<"write_old", "save">>
    <3>1. s # <<>> /\ Len(s) = 2 /\ Head(s) = "write_old" /\ Tail(s) = <<"save">>
      BY <2>3, TupleIs
    <3>2. Tail(s) \in Lefts(act) /\ Len(Tail(s)) = 1
      BY <2>1, <3>1, TupleIs
    <3> QED
      BY <1>3, <3>1, <3>2
  <2>4. CASE s = <<"save">>
    <3>1. s # <<>> /\ Len(s) = 1 /\ Head(s) = "save"
      BY <2>4, TupleIs
    <3> QED
      BY <1>3, <3>1
  <2> QED
    BY <2>1, <2>2, <2>3, <2>4
<1>4. CASE act \in {"worker", "old_worker"}
  <2>1. Lefts(act) = {<<"start_worker", "save">>, <<"save">>}
    BY <1>4 DEF Lefts
  <2>2. CASE s = <<"start_worker", "save">>
    <3>1. s # <<>> /\ Len(s) = 2 /\ Head(s) = "start_worker" /\ Tail(s) = <<"save">>
      BY <2>2, TupleIs
    <3>2. Tail(s) \in Lefts(act) /\ Len(Tail(s)) = 1
      BY <2>1, <3>1, TupleIs
    <3> QED
      BY <1>4, <3>1, <3>2
  <2>3. CASE s = <<"save">>
    <3>1. s # <<>> /\ Len(s) = 1 /\ Head(s) = "save"
      BY <2>3, TupleIs
    <3> QED
      BY <1>4, <3>1
  <2> QED
    BY <2>1, <2>2, <2>3
<1>5. CASE act \in {"core", "old_core"}
  <2>1. Lefts(act) = {<<"start_core", "save">>, <<"save">>}
    BY <1>5 DEF Lefts
  <2>2. CASE s = <<"start_core", "save">>
    <3>1. s # <<>> /\ Len(s) = 2 /\ Head(s) = "start_core" /\ Tail(s) = <<"save">>
      BY <2>2, TupleIs
    <3>2. Tail(s) \in Lefts(act) /\ Len(Tail(s)) = 1
      BY <2>1, <3>1, TupleIs
    <3> QED
      BY <1>5, <3>1, <3>2
  <2>3. CASE s = <<"save">>
    <3>1. s # <<>> /\ Len(s) = 1 /\ Head(s) = "save"
      BY <2>3, TupleIs
    <3> QED
      BY <1>5, <3>1
  <2> QED
    BY <2>1, <2>2, <2>3
<1>6. CASE act \in {"finish", "rolled_back"}
  <2>1. Lefts(act) = {<<"save">>}
    BY <1>6 DEF Lefts
  <2>2. CASE s = <<"save">>
    <3>1. s # <<>> /\ Len(s) = 1 /\ Head(s) = "save"
      BY <2>2, TupleIs
    <3> QED
      BY <1>6, <3>1
  <2> QED
    BY <2>1, <2>2
<1>7. CASE act = "prepare"
  <2>1. Lefts(act) = {<<"prepare">>}
    BY <1>7 DEF Lefts
  <2>2. CASE s = <<"prepare">>
    <3>1. s # <<>> /\ Len(s) = 1 /\ Head(s) = "prepare"
      BY <2>2, TupleIs
    <3> QED
      BY <1>7, <3>1
  <2> QED
    BY <2>1, <2>2
<1> QED
  BY <1>1, <1>2, <1>3, <1>4, <1>5, <1>6, <1>7 DEF Actions

-----------------------------------------------------------------------------
(***************************************************************************)
(* What a step does to the commands under way.                             *)
(***************************************************************************)
\* Commands become fewer, and one that loses its task is of a task that has
\* failed; none overtakes another; who still waits is as it was.
Trace(r, s) ==
    /\ s.act = r.act /\ s.op = r.op /\ s.rev = r.rev
    /\ r.from = s.from \/ (r.from = NoOne /\ task'[s.from].pc # "working")
Fewer == \A n \in Nodes : \A r \in Out(n)' : r # NoCommand => \E s \in Out(n) : Trace(r, s)
InStep == \A n \in Nodes : \A o \in BOOLEAN : LineAt(n, o) => LineAt(n, o)'
Answered == \A n \in Nodes : \A r \in Out(n)' : r.from # NoOne => task'[r.from] = task[r.from]
Flows == Fewer /\ InStep /\ Answered

LEMMA OutIs ==
  ASSUME Types, NEW n \in Nodes
  PROVE  /\ \A r \in Waiting(n) : r \in Commands
         /\ busy[n] \in Works \cup {NoCommand}
         /\ \A r \in Out(n) : /\ r.from \in 0 .. N /\ r.act \in Actions \cup {"none"} /\ r.op \in 0 .. MaxRuns
                              /\ r.act = "none" <=> r = NoCommand
                              /\ r.act # "none" => r.rev \in Revisions
         /\ NoCommand.from = NoOne /\ NoCommand.act = "none"
<1>1. /\ accepted[n] \in Seq(Commands) /\ queue[n] \in Seq(Commands) /\ busy[n] \in Works \cup {NoCommand}
  BY DEF Types
<1>2. \A r \in Waiting(n) : r \in Commands
  BY <1>1, ElementsAre DEF Waiting
<1>3. NoCommand.from = NoOne /\ NoCommand.act = "none" /\ NoCommand.op = 0
  BY DEF NoCommand
<1>4. \A r \in Commands : /\ r.from \in 0 .. N /\ r.act \in Actions /\ r.op \in 0 .. MaxRuns /\ r.rev \in Revisions
  BY DEF Commands
<1>5. \A r \in Works : /\ r.from \in 0 .. N /\ r.act \in Actions /\ r.op \in 0 .. MaxRuns /\ r.rev \in Revisions
  BY DEF Works
<1>6. "none" \notin Actions /\ NoOne \in 0 .. N /\ 0 \in 0 .. MaxRuns
  BY Constants DEF Actions, NoOne
<1> QED
  BY <1>1, <1>2, <1>3, <1>4, <1>5, <1>6 DEF Out

\* Two commands that have the same task waiting are the same command.
LEMMA OneNode ==
  ASSUME Types, AskedInv, NEW m \in Nodes, NEW n \in Nodes, NEW r \in Out(m), NEW s \in Out(n),
         r.from = s.from, r.from # NoOne
  PROVE  m = n
<1>1. Asked(task[r.from], m, r) /\ Asked(task[r.from], n, s)
  BY DEF AskedInv
<1>2. m \in Nat /\ n \in Nat
  BY Constants
<1> QED
  BY <1>1, <1>2 DEF Asked

LEMMA OneAtWork ==
  ASSUME Types, LineInv, AskedInv, NEW n \in Nodes, busy[n].from # NoOne, NEW m \in Nodes, NEW r,
         r \in Waiting(m) \/ (r = busy[m] /\ m # n)
  PROVE  r.from # busy[n].from
<1>1. SUFFICES ASSUME r.from = busy[n].from PROVE FALSE
  OBVIOUS
<1>2. m = n
  BY <1>1, OneNode DEF Out
<1>3. LineAt(n, FALSE)
  BY DEF LineInv
<1>4. r \in Elements(accepted[n]) \cup Elements(queue[n])
  BY <1>2 DEF Waiting
<1>5. Before(busy[n], r, FALSE)
  BY <1>3, <1>4, BothWait DEF LineAt
<1> QED
  BY <1>1, <1>5 DEF Before

LEMMA StepIs ==
  ASSUME Types, NEW n \in Nodes, NEW s, Step(n, s)
  PROVE  LET r == busy[n] IN
         /\ r \in Works /\ r # NoCommand /\ r.left \in Lefts(r.act) /\ r.act \in Actions /\ Head(r.left) = s
         /\ Len(r.left) = 1 =>
              /\ busy' = [busy EXCEPT ![n] = NoCommand]
              /\ task' = IF r.from = NoOne THEN task
                         ELSE [task EXCEPT ![r.from] = Confirmed(task[r.from], r.act, n)]
         /\ Len(r.left) # 1 => busy' = [busy EXCEPT ![n].left = Tail(r.left)] /\ task' = task
         /\ UNCHANGED <<desired, accepted, queue, job, runs, faults>>
<1>1. busy[n].left # <<>> /\ Head(busy[n].left) = s /\ UNCHANGED <<desired, accepted, queue, job, runs, faults>>
  BY DEF Step
<1>2. busy[n] # NoCommand
  BY <1>1 DEF NoCommand
<1>3. busy[n] \in Works /\ busy[n].left \in Lefts(busy[n].act) /\ busy[n].act \in Actions
  BY <1>2 DEF Types, Works
<1>4. /\ Len(busy[n].left) = 1 =>
              /\ busy' = [busy EXCEPT ![n] = NoCommand]
              /\ task' = IF busy[n].from = NoOne THEN task
                         ELSE [task EXCEPT ![busy[n].from] = Confirmed(task[busy[n].from], busy[n].act, n)]
      /\ Len(busy[n].left) # 1 => busy' = [busy EXCEPT ![n].left = Tail(busy[n].left)] /\ task' = task
  BY DEF Step, Tell
<1> QED
  BY <1>1, <1>2, <1>3, <1>4

\* The agent goes on with its command, or ends it.
LEMMA WorkFlows ==
  ASSUME Types, LineInv, AskedInv, NEW n \in Nodes, NEW x, UNCHANGED <<accepted, queue>>,
         busy' = [busy EXCEPT ![n] = x],
         \/ /\ x = NoCommand
            /\ \A d \in Nodes : d # busy[n].from => task'[d] = task[d]
         \/ /\ x.act = busy[n].act /\ x.op = busy[n].op /\ x.rev = busy[n].rev /\ x.from = busy[n].from
            /\ task' = task
  PROVE  Flows
<1>1. /\ \A m \in Nodes : accepted'[m] = accepted[m] /\ queue'[m] = queue[m] /\ (m # n => busy'[m] = busy[m])
      /\ busy'[n] = x
  BY DEF Types
<1>2. ASSUME NEW m \in Nodes PROVE Waiting(m)' = Waiting(m)
  BY <1>1 DEF Waiting
<1>3. NoCommand.from = NoOne /\ NoCommand.act = "none"
  BY DEF NoCommand
<1>4. Fewer
  <2>1. SUFFICES ASSUME NEW m \in Nodes, NEW r \in Out(m)', r # NoCommand PROVE \E s \in Out(m) : Trace(r, s)
    BY DEF Fewer
  <2>2. CASE r \in Waiting(m)
    BY <2>2 DEF Out, Trace
  <2>3. CASE r = busy'[m]
    <3>1. /\ busy[m].act = r.act /\ busy[m].op = r.op /\ busy[m].rev = r.rev /\ busy[m].from = r.from
      BY <1>1, <1>3, <2>1, <2>3
    <3> QED
      BY <3>1 DEF Out, Trace
  <2> QED
    BY <1>2, <2>1, <2>2, <2>3 DEF Out
<1>5. InStep
  <2>1. SUFFICES ASSUME NEW m \in Nodes, NEW o \in BOOLEAN, LineAt(m, o) PROVE LineAt(m, o)'
    BY DEF InStep
  <2>2. CASE m # n
    BY <1>1, <2>1, <2>2 DEF LineAt
  <2>3. CASE m = n
    <3>1. Line(accepted[m], queue[m], x, o)
      BY <1>3, <2>1, <2>3, LineWorks DEF LineAt
    <3> QED
      BY <1>1, <2>3, <3>1 DEF LineAt
  <2> QED
    BY <2>2, <2>3
<1>6. Answered
  <2>1. SUFFICES ASSUME NEW m \in Nodes, NEW r \in Out(m)', r.from # NoOne, task'[r.from] # task[r.from] PROVE FALSE
    BY DEF Answered
  <2>2. r \in Waiting(m) \/ (r = busy[m] /\ m # n) \/ (r = x /\ m = n)
    BY <1>1, <1>2, <2>1 DEF Out
  <2>3. x = NoCommand
    BY <2>1
  <2>4. r \in Out(m) /\ (r \in Waiting(m) \/ (r = busy[m] /\ m # n))
    BY <1>3, <2>1, <2>2, <2>3 DEF Out
  <2>5. r.from \in Nodes
    BY <2>1, <2>4, OutIs, Constants DEF NoOne
  <2>6. r.from = busy[n].from
    BY <1>3, <2>1, <2>3, <2>5
  <2> QED
    BY <2>1, <2>4, <2>6, OneAtWork
<1> QED
  BY <1>4, <1>5, <1>6 DEF Flows

LEMMA StepFlows ==
  ASSUME Types, LineInv, AskedInv, NEW n \in Nodes, NEW s, Step(n, s)
  PROVE  Flows
<1> DEFINE r == busy[n]
<1>1. /\ r \in Works /\ UNCHANGED <<accepted, queue>>
      /\ Len(r.left) = 1 =>
              /\ busy' = [busy EXCEPT ![n] = NoCommand]
              /\ task' = IF r.from = NoOne THEN task
                         ELSE [task EXCEPT ![r.from] = Confirmed(task[r.from], r.act, n)]
      /\ Len(r.left) # 1 => busy' = [busy EXCEPT ![n].left = Tail(r.left)] /\ task' = task
  BY StepIs
<1>2. CASE Len(r.left) = 1
  <2>1. \A d \in Nodes : d # r.from => task'[d] = task[d]
    BY <1>1, <1>2 DEF Types
  <2> QED
    BY <1>1, <1>2, <2>1, WorkFlows
<1>3. CASE Len(r.left) # 1
  <2> DEFINE x == [r EXCEPT !.left = Tail(r.left)]
  <2>1. busy' = [busy EXCEPT ![n] = x] /\ task' = task
    BY <1>1, <1>3
  <2>2. x.act = r.act /\ x.op = r.op /\ x.rev = r.rev /\ x.from = r.from
    BY <1>1 DEF Works
  <2> QED
    BY <1>1, <2>1, <2>2, WorkFlows
<1> QED
  BY <1>2, <1>3

LEMMA AbandonsFlows ==
  ASSUME Types, LineInv, AskedInv, NEW n \in Nodes, Abandons(n)
  PROVE  Flows
<1>1. \A d \in Nodes : d # busy[n].from => task'[d] = task[d]
  BY DEF Abandons, Tell, Types
<1> QED
  BY <1>1, WorkFlows DEF Abandons

\* The control plane hands a command on, or refuses it.
LEMMA GuardsFlows ==
  ASSUME Types, LineInv, AskedInv, NEW n \in Nodes, Guards(n)
  PROVE  Flows
<1> DEFINE r == Head(accepted[n])
<1>1. /\ accepted[n] \in Seq(Commands) /\ queue[n] \in Seq(Commands) /\ accepted[n] # <<>> /\ busy' = busy
      /\ accepted' = [accepted EXCEPT ![n] = Tail(accepted[n])]
  BY DEF Types, Guards
<1>2. /\ \A m \in Nodes : m # n => accepted'[m] = accepted[m] /\ queue'[m] = queue[m]
      /\ accepted'[n] = Tail(accepted[n])
  BY DEF Types, Guards
<1>3. /\ r \in Commands /\ r \in Elements(accepted[n])
      /\ Elements(Tail(accepted[n])) \subseteq Elements(accepted[n])
  BY <1>1, ElementsAre
<1>4. CASE desired = r.rev
  <2>1. queue'[n] = Append(queue[n], r) /\ task' = task
    BY <1>4 DEF Guards, Types
  <2>2. Elements(queue'[n]) = Elements(queue[n]) \cup {r}
    BY <1>1, <1>3, <2>1, ElementsAre
  <2>3. \A m \in Nodes : Out(m)' \subseteq Out(m)
    BY <1>1, <1>2, <1>3, <2>2 DEF Out, Waiting
  <2>4. InStep
    <3>1. SUFFICES ASSUME NEW m \in Nodes, NEW o \in BOOLEAN, LineAt(m, o) PROVE LineAt(m, o)'
      BY DEF InStep
    <3>2. CASE m # n
      BY <1>1, <1>2, <3>1, <3>2 DEF LineAt
    <3>3. CASE m = n
      <4>1. Line(Tail(accepted[n]), Append(queue[n], r), busy[n], o)
        BY <1>1, <3>1, <3>3, LineMoves DEF LineAt
      <4> QED
        BY <1>1, <1>2, <2>1, <3>3, <4>1 DEF LineAt
    <3> QED
      BY <3>2, <3>3
  <2> QED
    BY <2>1, <2>3, <2>4 DEF Flows, Fewer, Answered, Trace
<1>5. CASE desired # r.rev
  <2>1. /\ queue' = queue
        /\ \A d \in Nodes : d # r.from => task'[d] = task[d]
    BY <1>5 DEF Guards, Tell, Types
  <2>2. \A m \in Nodes : Out(m)' \subseteq Out(m)
    BY <1>1, <1>2, <1>3, <2>1 DEF Out, Waiting
  <2>3. InStep
    <3>1. SUFFICES ASSUME NEW m \in Nodes, NEW o \in BOOLEAN, LineAt(m, o) PROVE LineAt(m, o)'
      BY DEF InStep
    <3>2. CASE m # n
      BY <1>1, <1>2, <2>1, <3>1, <3>2 DEF LineAt
    <3>3. CASE m = n
      <4>1. Line(Tail(accepted[n]), queue[n], busy[n], o)
        BY <1>1, <3>1, <3>3, LineLeaves DEF LineAt
      <4> QED
        BY <1>1, <1>2, <2>1, <3>3, <4>1 DEF LineAt
    <3> QED
      BY <3>2, <3>3
  <2>4. Answered
    <3>1. \A m \in Nodes : \A x \in Out(m)' : x.from # NoOne => x.from \in Nodes
      BY <2>2, OutIs, Constants DEF NoOne
    <3>2. SUFFICES ASSUME NEW m \in Nodes, NEW x \in Out(m)', x.from # NoOne, x.from = r.from PROVE FALSE
      BY <2>1, <3>1 DEF Answered
    <3>3. m = n
      BY <1>3, <2>2, <3>2, OneNode DEF Out, Waiting
    <3>4. Line(accepted[n], queue[n], busy[n], FALSE)
      BY DEF LineInv, LineAt
    <3>5. x \in Elements(Tail(accepted[n])) \/ x \in Elements(queue[n]) \/ x = busy[n]
      BY <1>1, <1>2, <2>1, <3>2, <3>3 DEF Out, Waiting
    <3>6. Before(r, x, FALSE) \/ Before(x, r, FALSE)
      BY <1>1, <1>3, <3>4, <3>5, BothWait, HeadWaits
    <3> QED
      BY <3>2, <3>6 DEF Before
  <2> QED
    BY <2>2, <2>3, <2>4 DEF Flows, Fewer, Trace
<1> QED
  BY <1>4, <1>5

\* The agent takes the next command, or refuses it.
LEMMA TakenFlows ==
  ASSUME Types, LineInv, AskedInv, NEW n \in Nodes, Begins(n) \/ Rejects(n)
  PROVE  Flows
<1> DEFINE r == Head(queue[n])
<1>1. /\ accepted[n] \in Seq(Commands) /\ queue[n] \in Seq(Commands) /\ queue[n] # <<>> /\ accepted' = accepted
      /\ queue' = [queue EXCEPT ![n] = Tail(queue[n])] /\ busy[n] = NoCommand
  BY DEF Types, Begins, Rejects
<1>2. /\ \A m \in Nodes : m # n => queue'[m] = queue[m]
      /\ queue'[n] = Tail(queue[n])
  BY <1>1 DEF Types
<1>3. /\ r \in Commands /\ r \in Elements(queue[n])
      /\ Elements(Tail(queue[n])) \subseteq Elements(queue[n])
  BY <1>1, ElementsAre
<1>4. CASE Begins(n)
  <2> DEFINE x == [act |-> r.act, op |-> r.op, rev |-> r.rev, from |-> r.from, left |-> Does(r.act)]
  <2>1. /\ busy'[n] = x /\ \A m \in Nodes : m # n => busy'[m] = busy[m]
        /\ task' = task
    BY <1>4 DEF Begins, Types
  <2>2. Fewer
    <3>1. SUFFICES ASSUME NEW m \in Nodes, NEW y \in Out(m)' PROVE \E s \in Out(m) : Trace(y, s)
      BY DEF Fewer
    <3>2. CASE y \in Out(m)
      BY <3>2 DEF Trace
    <3>3. CASE y \notin Out(m)
      <4>1. y = x /\ m = n
        BY <1>1, <1>2, <1>3, <2>1, <3>1, <3>3 DEF Out, Waiting
      <4>2. Trace(y, r)
        BY <4>1 DEF Trace
      <4> QED
        BY <1>3, <4>1, <4>2 DEF Out, Waiting
    <3> QED
      BY <3>2, <3>3
  <2>3. InStep
    <3>1. SUFFICES ASSUME NEW m \in Nodes, NEW o \in BOOLEAN, LineAt(m, o) PROVE LineAt(m, o)'
      BY DEF InStep
    <3>2. CASE m # n
      BY <1>1, <1>2, <2>1, <3>1, <3>2 DEF LineAt
    <3>3. CASE m = n
      <4>1. Line(accepted[n], Tail(queue[n]), x, o)
        BY <1>1, <3>1, <3>3, LineBegins DEF LineAt
      <4> QED
        BY <1>1, <1>2, <2>1, <3>3, <4>1 DEF LineAt
    <3> QED
      BY <3>2, <3>3
  <2> QED
    BY <2>1, <2>2, <2>3 DEF Flows, Answered
<1>5. CASE Rejects(n)
  <2>1. /\ busy' = busy
        /\ \A d \in Nodes : d # r.from => task'[d] = task[d]
    BY <1>5 DEF Rejects, Tell, Types
  <2>2. \A m \in Nodes : Out(m)' \subseteq Out(m)
    BY <1>1, <1>2, <1>3, <2>1 DEF Out, Waiting
  <2>3. InStep
    <3>1. SUFFICES ASSUME NEW m \in Nodes, NEW o \in BOOLEAN, LineAt(m, o) PROVE LineAt(m, o)'
      BY DEF InStep
    <3>2. CASE m # n
      BY <1>1, <1>2, <2>1, <3>1, <3>2 DEF LineAt
    <3>3. CASE m = n
      <4>1. Line(accepted[n], Tail(queue[n]), busy[n], o)
        BY <1>1, <3>1, <3>3, LineLeaves DEF LineAt
      <4> QED
        BY <1>1, <1>2, <2>1, <3>3, <4>1 DEF LineAt
    <3> QED
      BY <3>2, <3>3
  <2>4. Answered
    <3>1. \A m \in Nodes : \A x \in Out(m)' : x.from # NoOne => x.from \in Nodes
      BY <2>2, OutIs, Constants DEF NoOne
    <3>2. SUFFICES ASSUME NEW m \in Nodes, NEW x \in Out(m)', x.from # NoOne, x.from = r.from PROVE FALSE
      BY <2>1, <3>1 DEF Answered
    <3>3. m = n
      BY <1>3, <2>2, <3>2, OneNode DEF Out, Waiting
    <3>4. Line(accepted[n], queue[n], busy[n], FALSE)
      BY DEF LineInv, LineAt
    <3>5. x \in Elements(accepted[n]) \/ x \in Elements(Tail(queue[n])) \/ x = busy[n]
      BY <1>1, <1>2, <2>1, <3>2, <3>3 DEF Out, Waiting
    <3>6. Before(r, x, FALSE) \/ Before(x, r, FALSE)
      BY <1>1, <1>3, <3>4, <3>5, BothWait, HeadWaits
    <3> QED
      BY <3>2, <3>6 DEF Before
  <2> QED
    BY <2>2, <2>3, <2>4 DEF Flows, Fewer, Trace
<1> QED
  BY <1>4, <1>5

\* A command is lost.
LEMMA LostFlows ==
  ASSUME Types, LineInv, AskedInv, NEW c \in Nodes, CommandLost(c)
  PROVE  Flows
<1>1. /\ task' = [task EXCEPT ![c] = Failed(task[c])] /\ busy' = busy
      /\ \A d \in Nodes : d # c => task'[d] = task[d]
  BY DEF CommandLost, Types
<1>2. PICK n \in Nodes :
        \/ \E i \in DOMAIN accepted[n] :
              /\ accepted[n][i].from = c /\ queue' = queue
              /\ accepted' = [accepted EXCEPT ![n] = Without(accepted[n], i)]
        \/ \E i \in DOMAIN queue[n] :
              /\ queue[n][i].from = c /\ accepted' = accepted
              /\ queue' = [queue EXCEPT ![n] = Without(queue[n], i)]
  BY DEF CommandLost
<1>3. accepted[n] \in Seq(Commands) /\ queue[n] \in Seq(Commands) /\ Line(accepted[n], queue[n], busy[n], FALSE)
  BY DEF Types, LineInv, LineAt
<1>4. CASE \E i \in DOMAIN accepted[n] :
              /\ accepted[n][i].from = c /\ queue' = queue
              /\ accepted' = [accepted EXCEPT ![n] = Without(accepted[n], i)]
  <2>1. PICK i \in DOMAIN accepted[n] :
              /\ accepted[n][i].from = c /\ queue' = queue
              /\ accepted' = [accepted EXCEPT ![n] = Without(accepted[n], i)]
    BY <1>4
  <2>2. /\ accepted'[n] = Without(accepted[n], i)
        /\ \A m \in Nodes : m # n => accepted'[m] = accepted[m]
    BY <2>1 DEF Types
  <2>3. Elements(accepted'[n]) \subseteq Elements(accepted[n])
    BY <1>3, <2>2, ElementsAre
  <2>4. \A m \in Nodes : Out(m)' \subseteq Out(m)
    BY <1>1, <2>1, <2>2, <2>3 DEF Out, Waiting
  <2>5. InStep
    <3>1. \A o : Line(accepted[n], queue[n], busy[n], o) => Line(accepted'[n], queue[n], busy[n], o)
      BY <1>3, <2>2, LineLeaves
    <3> QED
      BY <1>1, <2>1, <2>2, <3>1 DEF InStep, LineAt
  <2>6. Answered
    <3>1. \A m \in Nodes : \A x \in Out(m)' : x.from # NoOne => x.from \in Nodes
      BY <2>4, OutIs, Constants DEF NoOne
    <3>2. SUFFICES ASSUME NEW m \in Nodes, NEW x \in Out(m)', x.from # NoOne, x.from = c PROVE FALSE
      BY <1>1, <3>1 DEF Answered
    <3>3. accepted[n][i] \in Elements(accepted[n])
      BY <1>3, ElementsAre
    <3>4. m = n
      BY <2>1, <2>4, <3>2, <3>3, OneNode DEF Out, Waiting
    <3>5. x \in Elements(accepted'[n]) \/ x \in Elements(queue[n]) \/ x = busy[n]
      BY <1>1, <2>1, <3>2, <3>4 DEF Out, Waiting
    <3>6. CASE x \in Elements(accepted'[n])
      <4>1. \A j, k \in DOMAIN accepted[n] : j < k => Before(accepted[n][j], accepted[n][k], FALSE)
        BY <1>3, BothWait
      <4>2. x \in Elements(Without(accepted[n], i))
        BY <2>2, <3>6
      <4>4. Before(accepted[n][i], x, FALSE) \/ Before(x, accepted[n][i], FALSE)
        BY <1>3, <4>1, <4>2, OthersWait
      <4> QED
        BY <2>1, <3>2, <4>4 DEF Before
    <3>7. CASE x \notin Elements(accepted'[n])
      <4>1. Before(x, accepted[n][i], FALSE)
        BY <1>3, <3>3, <3>5, <3>7, BothWait
      <4> QED
        BY <2>1, <3>2, <4>1 DEF Before
    <3> QED
      BY <3>6, <3>7
  <2> QED
    BY <2>4, <2>5, <2>6 DEF Flows, Fewer, Trace
<1>5. CASE \E i \in DOMAIN queue[n] :
              /\ queue[n][i].from = c /\ accepted' = accepted
              /\ queue' = [queue EXCEPT ![n] = Without(queue[n], i)]
  <2>1. PICK i \in DOMAIN queue[n] :
              /\ queue[n][i].from = c /\ accepted' = accepted
              /\ queue' = [queue EXCEPT ![n] = Without(queue[n], i)]
    BY <1>5
  <2>2. /\ queue'[n] = Without(queue[n], i)
        /\ \A m \in Nodes : m # n => queue'[m] = queue[m]
    BY <2>1 DEF Types
  <2>3. Elements(queue'[n]) \subseteq Elements(queue[n])
    BY <1>3, <2>2, ElementsAre
  <2>4. \A m \in Nodes : Out(m)' \subseteq Out(m)
    BY <1>1, <2>1, <2>2, <2>3 DEF Out, Waiting
  <2>5. InStep
    <3>1. \A o : Line(accepted[n], queue[n], busy[n], o) => Line(accepted[n], queue'[n], busy[n], o)
      BY <1>3, <2>2, LineLeaves
    <3> QED
      BY <1>1, <2>1, <2>2, <3>1 DEF InStep, LineAt
  <2>6. Answered
    <3>1. \A m \in Nodes : \A x \in Out(m)' : x.from # NoOne => x.from \in Nodes
      BY <2>4, OutIs, Constants DEF NoOne
    <3>2. SUFFICES ASSUME NEW m \in Nodes, NEW x \in Out(m)', x.from # NoOne, x.from = c PROVE FALSE
      BY <1>1, <3>1 DEF Answered
    <3>3. queue[n][i] \in Elements(queue[n])
      BY <1>3, ElementsAre
    <3>4. m = n
      BY <2>1, <2>4, <3>2, <3>3, OneNode DEF Out, Waiting
    <3>5. x \in Elements(queue'[n]) \/ x \in Elements(accepted[n]) \/ x = busy[n]
      BY <1>1, <2>1, <3>2, <3>4 DEF Out, Waiting
    <3>6. CASE x \in Elements(queue'[n])
      <4>1. \A j, k \in DOMAIN queue[n] : j < k => Before(queue[n][j], queue[n][k], FALSE)
        BY <1>3, BothWait
      <4>2. x \in Elements(Without(queue[n], i))
        BY <2>2, <3>6
      <4>4. Before(queue[n][i], x, FALSE) \/ Before(x, queue[n][i], FALSE)
        BY <1>3, <4>1, <4>2, OthersWait
      <4> QED
        BY <2>1, <3>2, <4>4 DEF Before
    <3>7. CASE x \notin Elements(queue'[n])
      <4>1. Before(x, queue[n][i], FALSE) \/ Before(queue[n][i], x, FALSE)
        BY <1>3, <3>3, <3>5, <3>7, BothWait
      <4> QED
        BY <2>1, <3>2, <4>1 DEF Before
    <3> QED
      BY <3>6, <3>7
  <2> QED
    BY <2>4, <2>5, <2>6 DEF Flows, Fewer, Trace
<1> QED
  BY <1>2, <1>4, <1>5

\* A control plane no longer waits for its commands; what some node has in
\* memory is lost, and the tasks that waited for it fail.
LEMMA DisownFlows ==
  ASSUME Types, LineInv, AskedInv, NEW c \in Nodes, NEW g, NEW w, NEW b, Disown(c, g, w, b),
         \A n \in Nodes : /\ g[n] \in {accepted[n], <<>>} /\ w[n] \in {queue[n], <<>>} /\ b[n] \in {busy[n], NoCommand}
                          /\ \A o \in BOOLEAN : LineAt(n, o) => Line(g[n], w[n], b[n], o),
         task'[c].pc # "working",
         \A d \in Nodes : \/ d = c \/ task'[d] = task[d]
                          \/ \A n \in Nodes : /\ \A x \in Elements(g[n]) \cup Elements(w[n]) : x.from # d
                                              /\ b[n].from # d
  PROVE  Flows
<1>1. ASSUME NEW n \in Nodes
      PROVE  /\ accepted'[n] = [i \in DOMAIN g[n] |-> Orphan(c, g[n][i])]
             /\ queue'[n] = [i \in DOMAIN w[n] |-> Orphan(c, w[n][i])]
             /\ busy'[n] = Orphan(c, b[n])
  BY DEF Disown
<1>2. ASSUME NEW n \in Nodes, NEW r \in Out(n)'
      PROVE  \E s \in Out(n) \cup {NoCommand} :
                /\ r = Orphan(c, s) /\ (s \in Elements(g[n]) \cup Elements(w[n]) \/ s = b[n])
  <2>1. r \in Elements(accepted'[n]) \/ r \in Elements(queue'[n]) \/ r = busy'[n]
    BY <1>2 DEF Out, Waiting
  <2>2. CASE r \in Elements(accepted'[n])
    <3>1. PICK s \in Elements(g[n]) : r = Orphan(c, s)
      <4>1. DOMAIN accepted'[n] = DOMAIN g[n] /\ \A i \in DOMAIN g[n] : accepted'[n][i] = Orphan(c, g[n][i])
        BY DEF Disown
      <4>2. PICK i \in DOMAIN accepted'[n] : r = accepted'[n][i]
        BY <2>2 DEF Elements
      <4>3. g[n][i] \in Elements(g[n])
        BY <4>1, <4>2 DEF Elements
      <4> QED
        BY <4>1, <4>2, <4>3
    <3>2. g[n] = accepted[n]
      BY NoElements
    <3> QED
      BY <3>1, <3>2 DEF Out, Waiting
  <2>3. CASE r \in Elements(queue'[n])
    <3>1. PICK s \in Elements(w[n]) : r = Orphan(c, s)
      <4>1. DOMAIN queue'[n] = DOMAIN w[n] /\ \A i \in DOMAIN w[n] : queue'[n][i] = Orphan(c, w[n][i])
        BY DEF Disown
      <4>2. PICK i \in DOMAIN queue'[n] : r = queue'[n][i]
        BY <2>3 DEF Elements
      <4>3. w[n][i] \in Elements(w[n])
        BY <4>1, <4>2 DEF Elements
      <4> QED
        BY <4>1, <4>2, <4>3
    <3>2. w[n] = queue[n]
      BY NoElements
    <3> QED
      BY <3>1, <3>2 DEF Out, Waiting
  <2>4. CASE r = busy'[n]
    BY <1>1, <2>4 DEF Out
  <2> QED
    BY <2>1, <2>2, <2>3, <2>4
<1>3. ASSUME NEW n \in Nodes, NEW s \in Out(n) \cup {NoCommand}
      PROVE  /\ Orphan(c, s).act = s.act /\ Orphan(c, s).op = s.op /\ Orphan(c, s).rev = s.rev
             /\ Orphan(c, s).from = IF s.from = c THEN NoOne ELSE s.from
             /\ s.from \in 0 .. N
  <2>1. s \in Commands \cup Works \cup {NoCommand} /\ s.from \in 0 .. N
    BY OutIs, Constants DEF Out, NoOne
  <2> QED
    BY <2>1, OrphanIs
<1>4. Fewer
  <2>1. SUFFICES ASSUME NEW n \in Nodes, NEW r \in Out(n)', r # NoCommand PROVE \E s \in Out(n) : Trace(r, s)
    BY DEF Fewer
  <2>2. PICK s \in Out(n) \cup {NoCommand} : r = Orphan(c, s)
    BY <1>2
  <2>3. s # NoCommand
    BY <2>1, <2>2, OrphanIs
  <2>4. Trace(r, s)
    BY <1>3, <2>2 DEF Trace
  <2> QED
    BY <2>3, <2>4
<1>5. InStep
  <2>1. SUFFICES ASSUME NEW n \in Nodes, NEW o \in BOOLEAN, LineAt(n, o) PROVE LineAt(n, o)'
    BY DEF InStep
  <2>2. Line(g[n], w[n], b[n], o)
    BY <2>1
  <2>3. Line([i \in DOMAIN g[n] |-> Orphan(c, g[n][i])], [i \in DOMAIN w[n] |-> Orphan(c, w[n][i])],
              Orphan(c, b[n]), o)
    BY <2>2, LineOrphaned
  <2> QED
    BY <1>1, <2>3 DEF LineAt
<1>6. Answered
  <2>1. SUFFICES ASSUME NEW n \in Nodes, NEW r \in Out(n)', r.from # NoOne PROVE task'[r.from] = task[r.from]
    BY DEF Answered
  <2>2. PICK s \in Out(n) \cup {NoCommand} :
           r = Orphan(c, s) /\ (s \in Elements(g[n]) \cup Elements(w[n]) \/ s = b[n])
    BY <1>2
  <2>3. r.from = s.from /\ r.from # c /\ r.from \in Nodes
    BY <1>3, <2>1, <2>2, Constants DEF NoOne
  <2> QED
    BY <2>2, <2>3
<1> QED
  BY <1>4, <1>5, <1>6 DEF Flows

LEMMA GivesUpFlows ==
  ASSUME Types, LineInv, AskedInv, NEW c \in Nodes, GivesUp(c)
  PROVE  Flows
<1>1. Disown(c, accepted, queue, busy) /\ task' = [task EXCEPT ![c] = Failed(task[c])]
  BY DEF GivesUp
<1>2. task'[c].pc # "working" /\ \A d \in Nodes : d # c => task'[d] = task[d]
  BY <1>1, FailedIs DEF Types
<1>3. \A n \in Nodes, o \in BOOLEAN : LineAt(n, o) => Line(accepted[n], queue[n], busy[n], o)
  BY DEF LineAt
<1> QED
  BY <1>1, <1>2, <1>3, DisownFlows

LEMMA DiesFlows ==
  ASSUME Types, LineInv, AskedInv, NEW c \in Nodes, ControlPlaneDies(c)
  PROVE  Flows
<1> DEFINE lost == {accepted[c][i].from : i \in DOMAIN accepted[c]}
           g == [accepted EXCEPT ![c] = <<>>]
<1>1. /\ Disown(c, g, queue, busy)
      /\ task' = [d \in Nodes |-> IF d = c THEN Idle ELSE IF d \in lost THEN Failed(task[d]) ELSE task[d]]
  BY DEF ControlPlaneDies
<1>2. g[c] = <<>> /\ \A n \in Nodes : n # c => g[n] = accepted[n]
  BY DEF Types
<1>3. task'[c].pc # "working"
  BY <1>1, IdleIs
<1>4. ASSUME NEW n \in Nodes, NEW o \in BOOLEAN, LineAt(n, o) PROVE Line(g[n], queue[n], busy[n], o)
  <2>1. Line(accepted[n], queue[n], busy[n], o)
    BY <1>4 DEF LineAt
  <2> QED
    BY <1>2, <2>1, LineCleared
<1>5. ASSUME NEW d \in Nodes, d # c, task'[d] # task[d], NEW n \in Nodes, NEW x,
             x \in Elements(g[n]) \cup Elements(queue[n]) \/ x = busy[n], x.from = d
      PROVE  FALSE
  <2>1. PICK i \in DOMAIN accepted[c] : accepted[c][i].from = d
    BY <1>1, <1>5
  <2>2. accepted[c][i] \in Elements(accepted[c]) /\ Elements(<<>>) = {}
    BY ElementsAre DEF Elements
  <2>3. x \in Out(n)
    BY <1>2, <1>5, <2>2 DEF Out, Waiting
  <2>4. n = c
    BY <1>5, <2>1, <2>2, <2>3, OneNode, Constants DEF Out, Waiting
  <2>5. x \in Elements(queue[c]) \/ x = busy[c]
    BY <1>2, <1>5, <2>2, <2>4
  <2>6. Before(x, accepted[c][i], FALSE)
    BY <2>2, <2>5, BothWait DEF LineInv, LineAt
  <2> QED
    BY <1>5, <2>1, <2>6, Constants DEF Before
<1>6. \A n \in Nodes : /\ g[n] \in {accepted[n], <<>>} /\ queue[n] \in {queue[n], <<>>} /\ busy[n] \in {busy[n], NoCommand}
                       /\ \A o \in BOOLEAN : LineAt(n, o) => Line(g[n], queue[n], busy[n], o)
  BY <1>2, <1>4
<1>7. \A d \in Nodes : \/ d = c \/ task'[d] = task[d]
                       \/ \A n \in Nodes : /\ \A x \in Elements(g[n]) \cup Elements(queue[n]) : x.from # d
                                           /\ busy[n].from # d
  BY <1>5
<1> HIDE DEF g, lost
<1> QED
  BY <1>1, <1>3, <1>6, <1>7, DisownFlows

LEMMA PowerFlows ==
  ASSUME Types, LineInv, AskedInv, NEW c \in Nodes, PowerFails(c)
  PROVE  Flows
<1> DEFINE lost == {accepted[c][i].from : i \in DOMAIN accepted[c]} \cup {busy[c].from}
                \cup {queue[c][i].from : i \in DOMAIN queue[c]}
           g == [accepted EXCEPT ![c] = <<>>]
           w == [queue EXCEPT ![c] = <<>>]
           b == [busy EXCEPT ![c] = NoCommand]
<1>1. /\ Disown(c, g, w, b)
      /\ task' = [d \in Nodes |-> IF d = c THEN Idle ELSE IF d \in lost THEN Failed(task[d]) ELSE task[d]]
  BY DEF PowerFails
<1>2. /\ g[c] = <<>> /\ w[c] = <<>> /\ b[c] = NoCommand
      /\ \A n \in Nodes : n # c => g[n] = accepted[n] /\ w[n] = queue[n] /\ b[n] = busy[n]
  BY DEF Types
<1>3. task'[c].pc # "working"
  BY <1>1, IdleIs
<1>4. ASSUME NEW n \in Nodes, NEW o \in BOOLEAN, LineAt(n, o) PROVE Line(g[n], w[n], b[n], o)
  <2>1. Line(accepted[n], queue[n], busy[n], o)
    BY <1>4 DEF LineAt
  <2>2. Line(<<>>, <<>>, NoCommand, o)
    BY <2>1, LineCleared
  <2> QED
    BY <1>2, <2>1, <2>2
<1>5. ASSUME NEW d \in Nodes, d # c, task'[d] # task[d], NEW n \in Nodes, NEW x,
             x \in Elements(g[n]) \cup Elements(w[n]) \/ x = b[n], x.from = d
      PROVE  FALSE
  <2>1. PICK y \in Out(c) : y.from = d
    BY <1>1, <1>5 DEF Out, Waiting, Elements
  <2>2. Elements(<<>>) = {} /\ NoCommand.from = NoOne /\ d # NoOne
    BY Constants, NoElements DEF NoCommand
  <2>3. n # c
    BY <1>2, <1>5, <2>2
  <2>4. x \in Out(n)
    BY <1>2, <1>5, <2>3 DEF Out, Waiting
  <2> QED
    BY <1>5, <2>1, <2>2, <2>3, <2>4, OneNode
<1>6. \A n \in Nodes : /\ g[n] \in {accepted[n], <<>>} /\ w[n] \in {queue[n], <<>>} /\ b[n] \in {busy[n], NoCommand}
                       /\ \A o \in BOOLEAN : LineAt(n, o) => Line(g[n], w[n], b[n], o)
  BY <1>2, <1>4
<1>7. \A d \in Nodes : \/ d = c \/ task'[d] = task[d]
                       \/ \A n \in Nodes : /\ \A x \in Elements(g[n]) \cup Elements(w[n]) : x.from # d
                                           /\ b[n].from # d
  BY <1>5
<1> HIDE DEF g, w, b, lost
<1> QED
  BY <1>1, <1>3, <1>6, <1>7, DisownFlows

\* A coordinator that waits for no answer goes on.
LEMMA TaskFlows ==
  ASSUME Types, AskedInv, NEW c \in Nodes, UNCHANGED <<accepted, queue, busy>>,
         \A d \in Nodes : d # c => task'[d] = task[d],
         ~ task[c].waits \/ task'[c] = task[c]
  PROVE  Flows
<1>1. \A n \in Nodes : Out(n)' = Out(n) /\ \A o : LineAt(n, o)' = LineAt(n, o)
  BY DEF Out, Waiting, LineAt
<1>2. \A n \in Nodes : \A r \in Out(n) : r.from # NoOne => r.from \in Nodes /\ task[r.from].waits
  BY OutIs, Constants DEF AskedInv, Asked, NoOne
<1> QED
  BY <1>1, <1>2 DEF Flows, Fewer, InStep, Answered, Trace

-----------------------------------------------------------------------------
(***************************************************************************)
(* Types, tasks, commands and nodes, whatever control planes look at once. *)
(***************************************************************************)
LEMMA FlowsKeep ==
  ASSUME Types, LineInv, AskedInv, OpInv, Flows, runs' \in Nat, runs <= runs',
         \A n \in Nodes : journal'[n].op <= runs'
  PROVE  LineInv' /\ AskedInv' /\ OpInv'
<1>1. LineInv'
  BY DEF LineInv, Flows, InStep
<1>2. AskedInv'
  <2>1. SUFFICES ASSUME NEW n \in Nodes, NEW r \in Out(n)', r.from # NoOne PROVE Asked(task'[r.from], n, r)
    BY DEF AskedInv, Asked
  <2>2. PICK s \in Out(n) : Trace(r, s)
    BY <2>1, OutIs DEF Flows, Fewer
  <2>3. s.from = r.from /\ s.act = r.act /\ s.op = r.op /\ s.rev = r.rev
    BY <2>1, <2>2 DEF Trace
  <2>4. Asked(task[r.from], n, s) /\ task'[r.from] = task[r.from]
    BY <2>1, <2>3 DEF AskedInv, Flows, Answered
  <2> QED
    BY <2>3, <2>4 DEF Asked
<1>3. OpInv'
  <2>1. SUFFICES ASSUME NEW n \in Nodes, NEW r \in Out(n)', r.act # "none" PROVE r.op \in 1 .. runs'
    BY DEF OpInv
  <2>2. PICK s \in Out(n) : Trace(r, s)
    BY <2>1, OutIs DEF Flows, Fewer
  <2>3. s.op \in 1 .. runs /\ r.op = s.op
    BY <2>1, <2>2 DEF Trace, OpInv
  <2> QED
    BY <2>3 DEF Types
<1> QED
  BY <1>1, <1>2, <1>3

\* A task that waits works.
LEMMA Waits ==
  ASSUME Types, TaskInv, AskedInv, NEW n \in Nodes, NEW r \in Out(n), r.from # NoOne
  PROVE  /\ r.from \in Nodes /\ Asked(task[r.from], n, r) /\ task[r.from].pc = "working"
         /\ Active(task[r.from]) /\ task[r.from] \in Tasks /\ r.act \in Actions /\ r.act # "end"
         /\ task[r.from].act \in ActsOf(task[r.from].way) /\ task[r.from].way # "none"
<1>1. r.from \in Nodes /\ r.act \in Actions
  BY OutIs, Constants DEF NoOne
<1>2. Asked(task[r.from], n, r)
  BY DEF AskedInv
<1>3. task[r.from].pc = "working" /\ TaskOK(task[r.from], job[r.from], runs)
  BY <1>1, <1>2 DEF TaskInv, TaskOK, Asked
<1>4. "end" \notin Actions
  BY DEF Actions
<1> QED
  BY <1>1, <1>2, <1>3, <1>4 DEF Active, TaskOK, Types

\* Tasks fail, or are lost.
LEMMA TasksFail ==
  ASSUME Types, TaskInv, DOMAIN task' = Nodes, task' = [d \in Nodes |-> task'[d]], runs' = runs,
         \A d \in Nodes : \/ task'[d] = task[d] /\ job'[d] = job[d]
                          \/ task'[d] = Failed(task[d]) /\ Active(task[d]) /\ job'[d] = job[d]
                          \/ task'[d] = Idle /\ job'[d] = "idle"
  PROVE  TaskInv' /\ task' \in [Nodes -> Tasks]
<1>1. ASSUME NEW d \in Nodes PROVE task'[d] \in Tasks /\ TaskOK(task'[d], job'[d], runs')
  <2>1. TaskOK(task[d], job[d], runs) /\ task[d] \in Tasks
    BY DEF TaskInv, Types
  <2>2. CASE task'[d] = task[d] /\ job'[d] = job[d]
    BY <2>1, <2>2
  <2>3. CASE task'[d] = Failed(task[d]) /\ Active(task[d]) /\ job'[d] = job[d]
    <3> DEFINE u == Failed(task[d])
    <3>1. /\ u \in Tasks /\ u.pc = "failed" /\ u.waits = FALSE /\ u.way = task[d].way
          /\ u.op = task[d].op /\ u.rev = task[d].rev /\ u.act = task[d].act
      BY <2>1, FailedIs
    <3> HIDE DEF u
    <3>2. Active(task[d]) /\ job[d] = "running" /\ task[d].pc # "idle"
      BY <2>1, <2>3 DEF TaskOK, Active
    <3>3. TaskOK(u, job[d], runs)
      BY <2>1, <3>1, <3>2 DEF TaskOK, Active
    <3> QED
      BY <2>3, <3>1, <3>3 DEF u
  <2>4. CASE task'[d] = Idle /\ job'[d] = "idle"
    BY <2>4, IdleIs DEF TaskOK, Active
  <2> QED
    BY <2>2, <2>3, <2>4
<1> QED
  BY <1>1 DEF TaskInv

\* The nodes stay as they are, but for commands that end or lose their task.
LEMMA NodesStay ==
  ASSUME Types, NodeInv, UNCHANGED <<journal, bundle>>,
         \A n \in Nodes : \/ busy'[n] = NoCommand
                          \/ /\ busy'[n].act = busy[n].act /\ busy'[n].op = busy[n].op
                             /\ busy'[n].rev = busy[n].rev /\ busy'[n].left = busy[n].left
                             /\ core'[n] = core[n]
  PROVE  NodeInv'
<1>1. SUFFICES ASSUME NEW n \in Nodes
               PROVE  JournalOK(journal[n], bundle[n]) /\ WorkOK(busy'[n], journal[n], bundle[n], core'[n])
  BY DEF NodeInv
<1>2. JournalOK(journal[n], bundle[n]) /\ WorkOK(busy[n], journal[n], bundle[n], core[n])
  BY DEF NodeInv
<1>3. CASE busy'[n] = NoCommand
  BY <1>2, <1>3 DEF WorkOK, NoCommand
<1>4. CASE busy'[n] # NoCommand
  BY <1>2, <1>4 DEF WorkOK
<1> QED
  BY <1>3, <1>4

\* One coordinator goes on.
LEMMA TaskMoves ==
  ASSUME LInv, NEW c \in Nodes, NEW u \in Tasks, NEW s \in Jobs,
         task' = [task EXCEPT ![c] = u], job' = [job EXCEPT ![c] = s], ~ task[c].waits,
         UNCHANGED <<desired, agent, wire>>, runs' \in runs .. MaxRuns, faults' \in 0 .. MaxFaults,
         TaskOK(u, s, runs')
  PROVE  LInv'
<1>1. /\ task'[c] = u /\ \A d \in Nodes : d # c => task'[d] = task[d] /\ job'[d] = job[d]
      /\ job'[c] = s /\ task' \in [Nodes -> Tasks] /\ job' \in [Nodes -> Jobs]
      /\ runs \in Nat /\ runs' \in 0 .. MaxRuns
  BY Constants DEF LInv, Types
<1>2. Types'
  BY <1>1 DEF LInv, Types, agent, wire
<1>3. Flows
  BY <1>1, TaskFlows DEF LInv, wire
<1>4. \A n \in Nodes : journal'[n].op <= runs'
  <2>1. journal' = journal /\ \A n \in Nodes : journal[n].op <= runs /\ journal[n].op \in Nat
    BY Constants DEF LInv, OpInv, agent, Types, Entries
  <2>2. runs' \in Nat /\ runs <= runs' /\ runs \in Nat
    BY <1>1, Constants
  <2> QED
    BY <2>1, <2>2
<1>5. LineInv' /\ AskedInv' /\ OpInv'
  BY <1>1, <1>3, <1>4, FlowsKeep DEF LInv
<1>6. TaskInv'
  <2>1. SUFFICES ASSUME NEW d \in Nodes, d # c PROVE TaskOK(task[d], job[d], runs')
    BY <1>1 DEF TaskInv
  <2> QED
    BY <1>1 DEF LInv, TaskInv, TaskOK
<1>7. NodeInv'
  BY NodesStay DEF LInv, agent, wire
<1> QED
  BY <1>2, <1>5, <1>6, <1>7 DEF LInv

LEMMA CoordinatorKeeps ==
  ASSUME LInv, NEW c \in Nodes,
         \/ Looks(c) \/ Applies(c) \/ Recovers(c) \/ Refuses(c) \/ AlreadyServes(c) \/ Drifts(c)
         \/ Agrees(c) \/ VoicesDiffer(c) \/ Completes(c) \/ IsBack(c) \/ GoesBack(c) \/ NeedsRecovery(c)
  PROVE  LInv'
<1> DEFINE t == task[c]
<1>1. /\ t \in Tasks /\ TaskOK(t, job[c], runs) /\ job[c] \in Jobs /\ job = [job EXCEPT ![c] = job[c]]
      /\ runs \in 0 .. MaxRuns /\ faults \in 0 .. MaxFaults /\ MaxRuns \in Nat /\ MaxFaults \in Nat
      /\ desired \in Revisions /\ Revisions \subseteq 0 .. (2 + MaxSaves)
  BY Constants DEF LInv, Types, TaskInv
<1>2. /\ t.pc # "working" => ~ t.waits
      /\ t.act = "end" => ~ t.waits
      /\ runs \in runs .. MaxRuns
  BY <1>1 DEF TaskOK
<1>3. /\ Fault => faults' \in 0 .. MaxFaults
      /\ Decides(c) => faults' \in 0 .. MaxFaults
      /\ MayBegin => runs + 1 \in runs .. MaxRuns /\ runs + 1 \in 1 .. runs + 1
  BY <1>1, Constants DEF Fault, Faults, Decides, MayBegin
<1>4. ASSUME NEW s \in Jobs \ {"running"}, task' = [task EXCEPT ![c] = Idle], job' = [job EXCEPT ![c] = s], ~ t.waits,
             UNCHANGED <<desired, agent, wire, runs>>, faults' \in 0 .. MaxFaults
      PROVE  LInv'
  <2>1. TaskOK(Idle, s, runs')
    BY <1>4, IdleIs DEF TaskOK, Active
  <2> QED
    BY <1>1, <1>2, <1>4, <2>1, IdleIs, TaskMoves
<1>5. ASSUME task' = [task EXCEPT ![c] = Failed(t)], ~ t.waits, t.pc = "working", UNCHANGED <<job, runs>>,
             UNCHANGED <<desired, agent, wire>>, faults' \in 0 .. MaxFaults
      PROVE  LInv'
  <2> DEFINE u == Failed(t)
  <2>1. /\ u \in Tasks /\ u.pc = "failed" /\ u.waits = FALSE /\ u.way = t.way
        /\ u.op = t.op /\ u.rev = t.rev /\ u.act = t.act
    BY <1>1, FailedIs
  <2>2. task' = [task EXCEPT ![c] = u]
    BY <1>5
  <2> HIDE DEF u
  <2>3. TaskOK(u, job[c], runs')
    BY <1>1, <1>5, <2>1 DEF TaskOK, Active
  <2> QED
    BY <1>1, <1>2, <1>5, <2>1, <2>2, <2>3, TaskMoves
<1>6. ASSUME NEW b \in Tasks, NEW way \in {"prepare", "apply", "back", "recover"}, NEW act \in ActsOf(way) \ {"end"},
             NEW members \in SUBSET Nodes, ~ b.waits, ~ t.waits, b.rev \in Revisions, b.op \in 1 .. runs',
             task' = [task EXCEPT ![c] = Asks(b, way, act, members)], job' = [job EXCEPT ![c] = "running"],
             UNCHANGED <<desired, agent, wire>>, runs' \in runs .. MaxRuns, faults' \in 0 .. MaxFaults
      PROVE  LInv'
  <2> DEFINE u == Asks(b, way, act, members)
  <2>1. act \in Actions /\ "end" \in ActsOf(way)
    BY DEF ActsOf, Actions
  <2>2. /\ u \in Tasks /\ u.pc = "working" /\ u.way = way /\ u.act = (IF members = {} THEN "end" ELSE act)
        /\ u.op = b.op /\ u.rev = b.rev /\ u.waits = b.waits
    BY <2>1, AsksIs
  <2>3. task' = [task EXCEPT ![c] = u] /\ "running" \in Jobs
    BY <1>6 DEF Jobs
  <2> HIDE DEF u
  <2>4. TaskOK(u, "running", runs')
    BY <1>6, <2>1, <2>2 DEF TaskOK, Active
  <2> QED
    BY <1>1, <1>6, <2>2, <2>3, <2>4, TaskMoves
<1>7. CASE Looks(c)
  <2> DEFINE u == [t EXCEPT !.pc = "looking", !.rev = desired]
  <2>1. task' = [task EXCEPT ![c] = u] /\ t.pc = "idle" /\ job[c] # "running"
    BY <1>1, <1>7 DEF Looks, TaskOK, Active
  <2>2. u \in Tasks /\ u.pc = "looking" /\ u.rev = desired /\ u.waits = t.waits
    BY <1>1 DEF Tasks
  <2>3. UNCHANGED <<desired, agent, wire, job, runs, faults>>
    BY <1>7 DEF Looks
  <2> HIDE DEF u
  <2>4. TaskOK(u, job[c], runs')
    BY <1>1, <1>2, <2>1, <2>2, <2>3 DEF TaskOK, Active
  <2> QED
    BY <1>1, <1>2, <2>1, <2>2, <2>3, <2>4, TaskMoves
<1>8. CASE Applies(c)
  <2> DEFINE b == [Idle EXCEPT !.op = runs + 1, !.rev = t.rev]
  <2>1. b \in Tasks /\ ~ b.waits /\ b.rev = t.rev /\ b.op = runs + 1 /\ t.rev \in Revisions
    <3>1. runs + 1 \in 0 .. MaxRuns /\ t.rev \in Revisions /\ t.rev \in 0 .. (2 + MaxSaves)
      BY <1>1, <1>3, <1>8 DEF Applies, GoesAhead, Decides, TaskOK
    <3>2. Idle \in Tasks /\ Idle.waits = FALSE
      BY IdleIs
    <3> QED
      BY <3>1, <3>2 DEF Tasks
  <2>2. task' = [task EXCEPT ![c] = Asks(b, "prepare", "prepare", Nodes)] /\ job' = [job EXCEPT ![c] = "running"]
        /\ t.pc = "looking" /\ runs' = runs + 1 /\ UNCHANGED <<desired, agent, wire>> /\ MayBegin
        /\ faults' \in 0 .. MaxFaults
    BY <1>3, <1>8 DEF Applies, GoesAhead, Decides
  <2>3. "prepare" \in ActsOf("prepare") \ {"end"}
    BY DEF ActsOf
  <2> HIDE DEF b
  <2> QED
    BY <1>1, <1>2, <1>3, <1>6, <2>1, <2>2, <2>3
<1>9. CASE Recovers(c)
  <2>0. PICK n \in Nodes : \E members \in SUBSET Members(journal[n].op) :
          /\ journal[n].op # 0
          /\ GoesAhead(c, Asks([Idle EXCEPT !.op = journal[n].op, !.rev = journal[n].rev], "recover",
                               "quiesce", members))
    BY <1>9 DEF Recovers
  <2>1. PICK members \in SUBSET Members(journal[n].op) :
          /\ journal[n].op # 0
          /\ GoesAhead(c, Asks([Idle EXCEPT !.op = journal[n].op, !.rev = journal[n].rev], "recover",
                               "quiesce", members))
    BY <2>0
  <2> DEFINE b == [Idle EXCEPT !.op = journal[n].op, !.rev = journal[n].rev]
  <2>2. /\ n \in Nodes /\ journal[n] \in Entries /\ journal[n].op # 0 /\ journal[n].rev \in Revisions
        /\ journal[n].op <= runs
    BY <2>1 DEF LInv, Types, NodeInv, JournalOK, OpInv
  <2>3. b \in Tasks /\ ~ b.waits /\ b.rev = journal[n].rev /\ b.op = journal[n].op
    BY <2>2 DEF Idle, Tasks, Entries, Actions
  <2>4. /\ task' = [task EXCEPT ![c] = Asks(b, "recover", "quiesce", members)]
        /\ job' = [job EXCEPT ![c] = "running"] /\ t.pc = "looking" /\ UNCHANGED <<desired, agent, wire, runs>>
        /\ faults' \in 0 .. MaxFaults
    BY <1>3, <1>9, <2>1 DEF Recovers, GoesAhead, Decides
  <2>5. "quiesce" \in ActsOf("recover") \ {"end"} /\ members \in SUBSET Nodes
    BY <2>1 DEF ActsOf, Members
  <2>6. journal[n].op \in 1 .. runs
    BY <1>1, <2>2 DEF Entries
  <2> HIDE DEF b
  <2> QED
    BY <1>1, <1>2, <1>6, <2>2, <2>3, <2>4, <2>5, <2>6
<1>10. CASE Refuses(c)
  <2>1. /\ task' = [task EXCEPT ![c] = Idle] /\ t.pc = "looking"
        /\ UNCHANGED <<desired, agent, wire, job, runs, faults>>
    BY <1>10 DEF Refuses
  <2>2. job[c] # "running"
    BY <1>1, <2>1 DEF TaskOK, Active
  <2> QED
    BY <1>1, <1>2, <1>4, <2>1, <2>2
<1>11. CASE AlreadyServes(c)
  <2>1. /\ task' = [task EXCEPT ![c] = Idle] /\ t.pc = "looking" /\ job' = [job EXCEPT ![c] = "complete"]
        /\ UNCHANGED <<desired, agent, wire, runs>> /\ faults' \in 0 .. MaxFaults
    BY <1>3, <1>11 DEF AlreadyServes, Decides, Ends
  <2>2. "complete" \in Jobs \ {"running"}
    BY DEF Jobs
  <2> QED
    BY <1>1, <1>2, <1>4, <2>1, <2>2
<1>12. CASE Drifts(c)
  BY <1>1, <1>5, <1>12 DEF Drifts
<1>13. CASE Agrees(c)
  <2>1. /\ task' = [task EXCEPT ![c] = Asks(t, "apply", "quiesce", Nodes)] /\ t.pc = "working" /\ t.act = "end"
        /\ UNCHANGED <<desired, agent, wire, job, runs, faults>>
    BY <1>13 DEF Agrees
  <2>2. "quiesce" \in ActsOf("apply") \ {"end"}
    BY DEF ActsOf
  <2>3. job[c] = "running" /\ t.rev \in Revisions /\ t.op \in 1 .. runs
    BY <1>1, <2>1 DEF TaskOK, Active
  <2> QED
    BY <1>1, <1>2, <1>6, <2>1, <2>2, <2>3
<1>14. CASE VoicesDiffer(c)
  BY <1>1, <1>2, <1>3, <1>5, <1>14 DEF VoicesDiffer
<1>15. CASE Completes(c)
  <2>1. /\ t.pc = "working" /\ t.act = "end" /\ UNCHANGED <<desired, agent, wire, runs, faults>>
        /\ \/ task' = [task EXCEPT ![c] = Idle] /\ job' = [job EXCEPT ![c] = "complete"]
           \/ task' = [task EXCEPT ![c] = Failed(t)] /\ job' = job
    BY <1>15 DEF Completes, Ends
  <2>2. "complete" \in Jobs \ {"running"}
    BY DEF Jobs
  <2> QED
    BY <1>1, <1>2, <1>4, <1>5, <2>1, <2>2
<1>16. CASE IsBack(c)
  <2> DEFINE s == IF t.way = "recover" THEN "rolled_back" ELSE "failed"
  <2>1. /\ t.pc = "working" /\ t.act = "end" /\ UNCHANGED <<desired, agent, wire, runs, faults>>
        /\ task' = [task EXCEPT ![c] = Idle] /\ job' = [job EXCEPT ![c] = s]
    BY <1>16 DEF IsBack, Ends
  <2>2. s \in Jobs \ {"running"}
    BY DEF Jobs
  <2> QED
    BY <1>1, <1>2, <1>4, <2>1, <2>2
<1>17. CASE GoesBack(c)
  <2> DEFINE act == IF t.way = "apply" THEN "quiesce" ELSE "rolled_back"
             held == {n \in Nodes : journal[n].op = t.op}
  <2>1. PICK unreachable \in SUBSET (held \ t.got) :
          /\ IF unreachable = {} THEN UNCHANGED faults ELSE Fault
          /\ task' = [task EXCEPT ![c] = Asks(t, "back", act, t.got \cup (held \ unreachable))]
    BY <1>17 DEF GoesBack
  <2>2. t.pc = "failed" /\ UNCHANGED <<desired, agent, wire, job, runs>>
    BY <1>17 DEF GoesBack
  <2>3. t.got \cup (held \ unreachable) \in SUBSET Nodes
    BY <1>1 DEF Tasks
  <2>4. act \in ActsOf("back") \ {"end"}
    BY DEF ActsOf
  <2>5. job[c] = "running" /\ t.rev \in Revisions /\ t.op \in 1 .. runs
    BY <1>1, <2>2 DEF TaskOK, Active
  <2>6. faults' \in 0 .. MaxFaults
    BY <1>1, <1>3, <2>1
  <2> HIDE DEF act, held
  <2> QED
    BY <1>1, <1>2, <1>6, <2>1, <2>2, <2>3, <2>4, <2>5, <2>6
<1>18. CASE NeedsRecovery(c)
  <2>1. /\ t.pc = "failed" /\ UNCHANGED <<desired, agent, wire, runs, faults>>
        /\ task' = [task EXCEPT ![c] = Idle] /\ job' = [job EXCEPT ![c] = "recovery_required"]
    BY <1>18 DEF NeedsRecovery, Ends
  <2>2. "recovery_required" \in Jobs \ {"running"}
    BY DEF Jobs
  <2> QED
    BY <1>1, <1>2, <1>4, <2>1, <2>2
<1> QED
  BY <1>7, <1>8, <1>9, <1>10, <1>11, <1>12, <1>13, <1>14, <1>15, <1>16, <1>17, <1>18

\* A coordinator sends the command its task is at to the first node left.
LEMMA SendsIs ==
  ASSUME LInv, NEW c \in Nodes, Sends(c)
  PROVE  LET t == task[c] IN
         \E n \in Nodes, x \in Commands :
            /\ x.act = t.act /\ x.op = t.op /\ x.rev = t.rev /\ x.from = c /\ x # NoCommand
            /\ n \in t.left /\ \A m \in t.left : n <= m
            /\ accepted' \in [Nodes -> Seq(Commands)] /\ queue' \in [Nodes -> Seq(Commands)]
            /\ Out(n)' = Out(n) \cup {x}
            /\ \A m \in Nodes : \A r \in Out(m) : r.from # c
            /\ \A m \in Nodes : m # n => Out(m)' = Out(m) /\ \A o \in BOOLEAN : LineAt(m, o) => LineAt(m, o)'
            /\ \A o \in BOOLEAN : LineAt(n, o) /\ (\A r \in Out(n) : Before(r, x, o))
                                  /\ (x.act \notin Guarded => \A r \in Out(n) : Before(x, r, o)) => LineAt(n, o)'
<1> DEFINE t == task[c]
           x == [act |-> t.act, op |-> t.op, rev |-> t.rev, from |-> c]
<1>1. /\ t.pc = "working" /\ ~ t.waits /\ t.act # "end" /\ task' = [task EXCEPT ![c].waits = TRUE]
      /\ busy' = busy
  BY DEF Sends
<1>2. PICK n \in t.left : /\ \A m \in t.left : n <= m
            /\ IF t.act \in Guarded
               THEN accepted' = [accepted EXCEPT ![n] = Append(accepted[n], x)] /\ queue' = queue
               ELSE queue' = [queue EXCEPT ![n] = Append(queue[n], x)] /\ accepted' = accepted
  BY DEF Sends
<1>3. t \in Tasks /\ TaskOK(t, job[c], runs) /\ n \in Nodes
  BY <1>2 DEF LInv, Types, TaskInv, Tasks
<1>4. x \in Commands /\ x.act = t.act /\ x.op = t.op /\ x.rev = t.rev /\ x.from = c
  <2>1. t.act \in Actions /\ t.op \in 0 .. MaxRuns /\ t.rev \in Revisions /\ c \in 0 .. N
    BY <1>1, <1>3, Constants DEF TaskOK, Tasks
  <2> QED
    BY <2>1 DEF Commands
<1>5. x # NoCommand
  BY Constants DEF NoCommand, NoOne
<1>6. ASSUME NEW m \in Nodes, NEW r \in Out(m) PROVE r.from # c
  BY <1>1, <1>6, Waits, Constants DEF LInv, Asked
<1>7. accepted[n] \in Seq(Commands) /\ queue[n] \in Seq(Commands)
  BY <1>3 DEF LInv, Types
<1> HIDE DEF x, t
<1>8. /\ accepted' \in [Nodes -> Seq(Commands)] /\ queue' \in [Nodes -> Seq(Commands)]
      /\ \A m \in Nodes : m # n => accepted'[m] = accepted[m] /\ queue'[m] = queue[m]
      /\ t.act \in Guarded => accepted'[n] = Append(accepted[n], x) /\ queue'[n] = queue[n]
      /\ t.act \notin Guarded => queue'[n] = Append(queue[n], x) /\ accepted'[n] = accepted[n]
  <2>1. Append(accepted[n], x) \in Seq(Commands) /\ Append(queue[n], x) \in Seq(Commands)
    BY <1>4, <1>7, AppendIs
  <2> QED
    BY <1>2, <1>3, <2>1 DEF LInv, Types
<1>9. Out(n)' = Out(n) \cup {x}
  <2>1. /\ t.act \in Guarded => Elements(accepted'[n]) = Elements(accepted[n]) \cup {x}
        /\ t.act \notin Guarded => Elements(queue'[n]) = Elements(queue[n]) \cup {x}
    <3>1. Elements(Append(accepted[n], x)) = Elements(accepted[n]) \cup {x}
      BY <1>4, <1>7, ElementsAre
    <3>2. Elements(Append(queue[n], x)) = Elements(queue[n]) \cup {x}
      BY <1>4, <1>7, ElementsAre
    <3> QED
      BY <1>8, <3>1, <3>2
  <2> QED
    BY <1>1, <1>8, <2>1 DEF Out, Waiting
<1>10. ASSUME NEW m \in Nodes, m # n
       PROVE  Out(m)' = Out(m) /\ \A o \in BOOLEAN : LineAt(m, o) => LineAt(m, o)'
  BY <1>1, <1>8, <1>10 DEF Out, Waiting, LineAt
<1>11. ASSUME NEW o \in BOOLEAN, LineAt(n, o), \A r \in Out(n) : Before(r, x, o),
              x.act \notin Guarded => \A r \in Out(n) : Before(x, r, o)
       PROVE  LineAt(n, o)'
  <2>1. /\ Line(accepted[n], queue[n], busy[n], o) /\ Before(busy[n], x, o)
        /\ \A i \in DOMAIN queue[n] : Before(queue[n][i], x, o)
        /\ \A i \in DOMAIN accepted[n] : Before(accepted[n][i], x, o)
        /\ t.act \notin Guarded => \A i \in DOMAIN accepted[n] : Before(x, accepted[n][i], o)
    BY <1>4, <1>11 DEF LineAt, Out, Waiting, Elements
  <2>2. CASE t.act \in Guarded
    <3>1. Line(Append(accepted[n], x), queue[n], busy[n], o)
      BY <1>4, <1>7, <2>1, LineJoins
    <3> QED
      BY <1>1, <1>8, <2>2, <3>1 DEF LineAt
  <2>3. CASE t.act \notin Guarded
    <3>1. Line(accepted[n], Append(queue[n], x), busy[n], o)
      BY <1>4, <1>7, <2>1, <2>3, LineJoins
    <3> QED
      BY <1>1, <1>8, <2>3, <3>1 DEF LineAt
  <2> QED
    BY <2>2, <2>3
<1> DEFINE Sent(nn, xx) ==
            /\ xx.act = t.act /\ xx.op = t.op /\ xx.rev = t.rev /\ xx.from = c /\ xx # NoCommand
            /\ nn \in t.left /\ \A m \in t.left : nn <= m
            /\ accepted' \in [Nodes -> Seq(Commands)] /\ queue' \in [Nodes -> Seq(Commands)]
            /\ Out(nn)' = Out(nn) \cup {xx}
            /\ \A m \in Nodes : \A r \in Out(m) : r.from # c
            /\ \A m \in Nodes : m # nn => Out(m)' = Out(m) /\ \A o \in BOOLEAN : LineAt(m, o) => LineAt(m, o)'
            /\ \A o \in BOOLEAN : LineAt(nn, o) /\ (\A r \in Out(nn) : Before(r, xx, o))
                                  /\ (xx.act \notin Guarded => \A r \in Out(nn) : Before(xx, r, o)) => LineAt(nn, o)'
<1>12. Sent(n, x)
  <2>1. n \in t.left /\ \A m \in t.left : n <= m
    BY <1>2
  <2> QED
    BY <1>4, <1>5, <1>6, <1>8, <1>9, <1>10, <1>11, <2>1
<1> HIDE DEF Sent
<1>13. \E nn \in Nodes, xx \in Commands : Sent(nn, xx)
  BY <1>3, <1>4, <1>12
<1> QED
  BY <1>13 DEF Sent, t

LEMMA SendsKeeps ==
  ASSUME LInv, NEW c \in Nodes, Sends(c)
  PROVE  LInv'
<1> DEFINE t == task[c]
<1>1. PICK n \in Nodes, x \in Commands :
            /\ x.act = t.act /\ x.op = t.op /\ x.rev = t.rev /\ x.from = c /\ x # NoCommand
            /\ n \in t.left /\ \A m \in t.left : n <= m
            /\ accepted' \in [Nodes -> Seq(Commands)] /\ queue' \in [Nodes -> Seq(Commands)]
            /\ Out(n)' = Out(n) \cup {x}
            /\ \A m \in Nodes : \A r \in Out(m) : r.from # c
            /\ \A m \in Nodes : m # n => Out(m)' = Out(m) /\ \A o \in BOOLEAN : LineAt(m, o) => LineAt(m, o)'
            /\ \A o \in BOOLEAN : LineAt(n, o) /\ (\A r \in Out(n) : Before(r, x, o))
                                  /\ (x.act \notin Guarded => \A r \in Out(n) : Before(x, r, o)) => LineAt(n, o)'
  BY SendsIs
<1>2. /\ t \in Tasks /\ TaskOK(t, job[c], runs) /\ t.pc = "working" /\ t.act # "end" /\ ~ t.waits
      /\ t.op \in 1 .. runs
  BY DEF LInv, Types, TaskInv, TaskOK, Sends, Active
<1>3. UNCHANGED <<desired, agent, busy, job, runs, faults>> /\ task' = [task EXCEPT ![c].waits = TRUE]
  BY DEF Sends
<1> DEFINE u == [t EXCEPT !.waits = TRUE]
<1>4. /\ u \in Tasks /\ u.pc = t.pc /\ u.way = t.way /\ u.op = t.op /\ u.rev = t.rev /\ u.act = t.act
      /\ u.left = t.left /\ u.waits
  BY <1>2 DEF Tasks
<1>5. task'[c] = u /\ task' \in [Nodes -> Tasks] /\ \A d \in Nodes : d # c => task'[d] = task[d]
  BY <1>3, <1>4 DEF LInv, Types
<1> HIDE DEF u
<1>6. Types'
  BY <1>1, <1>3, <1>5 DEF LInv, Types, agent
<1>7. LineInv'
  <2>1. \A r \in Out(n) : Before(r, x, FALSE) /\ Before(x, r, FALSE)
    BY <1>1 DEF Before
  <2>2. \A m \in Nodes : LineAt(m, FALSE)
    BY DEF LInv, LineInv
  <2> QED
    BY <1>1, <2>1, <2>2 DEF LineInv
<1>8. TaskInv'
  <2>1. TaskOK(u, job[c], runs)
    BY <1>2, <1>4 DEF TaskOK, Active
  <2> QED
    BY <1>3, <1>5, <2>1 DEF LInv, TaskInv
<1>9. AskedInv'
  <2>1. SUFFICES ASSUME NEW m \in Nodes, NEW r \in Out(m)', r.from # NoOne PROVE Asked(task'[r.from], m, r)
    BY DEF AskedInv, Asked
  <2>2. CASE r \in Out(m)
    <3>1. r.from # c /\ r.from \in Nodes /\ Asked(task[r.from], m, r)
      BY <1>1, <2>1, <2>2, Waits DEF LInv
    <3> QED
      BY <1>5, <3>1
  <2>3. CASE r = x /\ m = n
    BY <1>1, <1>4, <1>5, <2>3 DEF Asked
  <2> QED
    BY <1>1, <2>1, <2>2, <2>3
<1>10. OpInv'
  BY <1>1, <1>2, <1>3 DEF LInv, OpInv, agent
<1>11. NodeInv'
  BY <1>3 DEF LInv, NodeInv, agent
<1> QED
  BY <1>6, <1>7, <1>8, <1>9, <1>10, <1>11 DEF LInv

LEMMA SavesKeeps ==
  ASSUME LInv, Saves
  PROVE  LInv'
<1>1. desired' \in Revisions /\ faults' \in 0 .. MaxFaults
  BY Constants DEF LInv, Types, Saves, Revisions, Fault, Faults
<1>2. UNCHANGED <<agent, wire, task, job, runs>>
  BY DEF Saves
<1>3. \A n \in Nodes : Out(n)' = Out(n)
  BY <1>2 DEF Out, Waiting, wire
<1> QED
  BY <1>1, <1>2, <1>3 DEF LInv, Types, LineInv, LineAt, TaskInv, AskedInv, OpInv, NodeInv, agent, wire

\* A command is refused, lost or given up, or the agent ends it: its task fails.
LEMMA FadesKeep ==
  ASSUME LInv, Flows, Types', UNCHANGED <<journal, bundle>>, runs' = runs,
         \A d \in Nodes : \/ task'[d] = task[d] /\ job'[d] = job[d]
                          \/ task'[d] = Failed(task[d]) /\ Active(task[d]) /\ job'[d] = job[d]
                          \/ task'[d] = Idle /\ job'[d] = "idle",
         \A n \in Nodes : \/ busy'[n] = NoCommand
                          \/ /\ busy'[n].act = busy[n].act /\ busy'[n].op = busy[n].op
                             /\ busy'[n].rev = busy[n].rev /\ busy'[n].left = busy[n].left
                             /\ core'[n] = core[n]
  PROVE  LInv'
<1>1. task' \in [Nodes -> Tasks] /\ runs \in Nat
  BY Constants DEF LInv, Types
<1>2. TaskInv'
  BY <1>1, TasksFail DEF LInv
<1>3. \A n \in Nodes : journal'[n].op <= runs'
  BY DEF LInv, OpInv
<1>4. LineInv' /\ AskedInv' /\ OpInv'
  <2>1. runs' \in Nat /\ runs <= runs'
    BY <1>1
  <2> QED
    BY <1>3, <2>1, FlowsKeep DEF LInv
<1>5. NodeInv'
  BY NodesStay DEF LInv
<1> QED
  BY <1>2, <1>4, <1>5 DEF LInv

\* The task a command has waiting, if any, is told that it failed.
LEMMA TellsFailed ==
  ASSUME LInv, NEW n \in Nodes, NEW r \in Out(n), job' = job,
         task' = IF r.from = NoOne THEN task ELSE [task EXCEPT ![r.from] = Failed(task[r.from])]
  PROVE  /\ task' \in [Nodes -> Tasks]
         /\ \A d \in Nodes : \/ task'[d] = task[d] /\ job'[d] = job[d]
                             \/ task'[d] = Failed(task[d]) /\ Active(task[d]) /\ job'[d] = job[d]
                             \/ task'[d] = Idle /\ job'[d] = "idle"
<1>1. CASE r.from = NoOne
  BY <1>1 DEF LInv, Types
<1>2. CASE r.from # NoOne
  <2>1. r.from \in Nodes /\ Active(task[r.from]) /\ task[r.from] \in Tasks
    BY <1>2, Waits DEF LInv
  <2>2. Failed(task[r.from]) \in Tasks
    BY <2>1, FailedIs
  <2>3. /\ task' = [task EXCEPT ![r.from] = Failed(task[r.from])] /\ task \in [Nodes -> Tasks]
    BY <1>2 DEF LInv, Types
  <2> QED
    BY <2>1, <2>2, <2>3
<1> QED
  BY <1>1, <1>2

LEMMA GuardsKeep ==
  ASSUME LInv, NEW n \in Nodes, Guards(n)
  PROVE  LInv'
<1> DEFINE r == Head(accepted[n])
<1>1. /\ accepted[n] \in Seq(Commands) /\ queue[n] \in Seq(Commands) /\ accepted[n] # <<>>
      /\ accepted' = [accepted EXCEPT ![n] = Tail(accepted[n])]
      /\ UNCHANGED <<desired, agent, busy, job, runs, faults>>
      /\ \/ queue' = [queue EXCEPT ![n] = Append(queue[n], r)] /\ task' = task
         \/ /\ queue' = queue
            /\ task' = IF r.from = NoOne THEN task ELSE [task EXCEPT ![r.from] = Failed(task[r.from])]
  BY DEF LInv, Types, Guards, Tell
<1>2. r \in Commands /\ r \in Out(n)
  BY <1>1, ElementsAre DEF Out, Waiting
<1>3. Tail(accepted[n]) \in Seq(Commands) /\ Append(queue[n], r) \in Seq(Commands)
  BY <1>1, <1>2, TailIs, AppendIs
<1> HIDE DEF r
<1>4. /\ task' \in [Nodes -> Tasks]
      /\ \A d \in Nodes : \/ task'[d] = task[d] /\ job'[d] = job[d]
                          \/ task'[d] = Failed(task[d]) /\ Active(task[d]) /\ job'[d] = job[d]
                          \/ task'[d] = Idle /\ job'[d] = "idle"
  <2>1. task' = task => task' \in [Nodes -> Tasks]
    BY DEF LInv, Types
  <2> QED
    BY <1>1, <1>2, <2>1, TellsFailed
<1>5. Types'
  <2>1. accepted' \in [Nodes -> Seq(Commands)] /\ queue' \in [Nodes -> Seq(Commands)]
    BY <1>1, <1>3 DEF LInv, Types
  <2> QED
    BY <1>1, <1>4, <2>1 DEF LInv, Types, agent
<1>6. Flows
  BY GuardsFlows DEF LInv
<1> QED
  BY <1>1, <1>4, <1>5, <1>6, FadesKeep DEF agent

LEMMA RejectsKeep ==
  ASSUME LInv, NEW n \in Nodes, Rejects(n)
  PROVE  LInv'
<1> DEFINE r == Head(queue[n])
<1>1. /\ queue[n] \in Seq(Commands) /\ queue[n] # <<>>
      /\ queue' = [queue EXCEPT ![n] = Tail(queue[n])]
      /\ UNCHANGED <<desired, agent, accepted, busy, job, runs, faults>>
      /\ task' = IF r.from = NoOne THEN task ELSE [task EXCEPT ![r.from] = Failed(task[r.from])]
  BY DEF LInv, Types, Rejects, Tell
<1>2. r \in Commands /\ r \in Out(n)
  BY <1>1, ElementsAre DEF Out, Waiting
<1>3. Tail(queue[n]) \in Seq(Commands)
  BY <1>1, TailIs
<1> HIDE DEF r
<1>4. /\ task' \in [Nodes -> Tasks]
      /\ \A d \in Nodes : \/ task'[d] = task[d] /\ job'[d] = job[d]
                          \/ task'[d] = Failed(task[d]) /\ Active(task[d]) /\ job'[d] = job[d]
                          \/ task'[d] = Idle /\ job'[d] = "idle"
  BY <1>1, <1>2, TellsFailed
<1>5. Types'
  <2>1. queue' \in [Nodes -> Seq(Commands)]
    BY <1>1, <1>3 DEF LInv, Types
  <2> QED
    BY <1>1, <1>4, <2>1 DEF LInv, Types, agent
<1>6. Flows
  BY TakenFlows DEF LInv
<1> QED
  BY <1>1, <1>4, <1>5, <1>6, FadesKeep DEF agent

LEMMA AbandonsKeep ==
  ASSUME LInv, NEW n \in Nodes, Abandons(n), faults' \in 0 .. MaxFaults
  PROVE  LInv'
<1> DEFINE r == busy[n]
<1>1. /\ busy' = [busy EXCEPT ![n] = NoCommand]
      /\ UNCHANGED <<desired, agent, accepted, queue, job, runs>>
      /\ task' = IF r.from = NoOne THEN task ELSE [task EXCEPT ![r.from] = Failed(task[r.from])]
  BY DEF Abandons, Tell
<1>2. r \in Out(n)
  BY DEF Out
<1> HIDE DEF r
<1>3. /\ task' \in [Nodes -> Tasks]
      /\ \A d \in Nodes : \/ task'[d] = task[d] /\ job'[d] = job[d]
                          \/ task'[d] = Failed(task[d]) /\ Active(task[d]) /\ job'[d] = job[d]
                          \/ task'[d] = Idle /\ job'[d] = "idle"
  BY <1>1, <1>2, TellsFailed
<1>4. busy'[n] = NoCommand /\ \A m \in Nodes : m # n => busy'[m] = busy[m]
  BY <1>1 DEF LInv, Types
<1>5. Types'
  <2>1. busy' \in [Nodes -> Works \cup {NoCommand}]
    BY <1>1 DEF LInv, Types
  <2>2. \A m \in Nodes : busy'[m] # NoCommand => busy'[m].left \in Lefts(busy'[m].act)
    BY <1>4 DEF LInv, Types
  <2> QED
    BY <1>1, <1>3, <2>1, <2>2 DEF LInv, Types, agent
<1>6. Flows
  BY AbandonsFlows DEF LInv
<1>7. \A m \in Nodes : \/ busy'[m] = NoCommand
                       \/ /\ busy'[m].act = busy[m].act /\ busy'[m].op = busy[m].op
                          /\ busy'[m].rev = busy[m].rev /\ busy'[m].left = busy[m].left
                          /\ core'[m] = core[m]
  BY <1>1, <1>4 DEF agent
<1> QED
  BY <1>1, <1>3, <1>5, <1>6, <1>7, FadesKeep DEF agent

LEMMA LostKeeps ==
  ASSUME LInv, NEW c \in Nodes, CommandLost(c)
  PROVE  LInv'
<1>1. /\ task' = [task EXCEPT ![c] = Failed(task[c])] /\ task[c].waits
      /\ UNCHANGED <<desired, agent, busy, job, runs>> /\ faults' \in 0 .. MaxFaults
  BY Constants DEF CommandLost, Fault, Faults, LInv, Types
<1>2. task[c] \in Tasks /\ Active(task[c]) /\ Failed(task[c]) \in Tasks
  BY <1>1, FailedIs DEF LInv, Types, TaskInv, TaskOK, Active
<1>3. /\ task' \in [Nodes -> Tasks]
      /\ \A d \in Nodes : \/ task'[d] = task[d] /\ job'[d] = job[d]
                          \/ task'[d] = Failed(task[d]) /\ Active(task[d]) /\ job'[d] = job[d]
                          \/ task'[d] = Idle /\ job'[d] = "idle"
  BY <1>1, <1>2 DEF LInv, Types
<1>4. accepted' \in [Nodes -> Seq(Commands)] /\ queue' \in [Nodes -> Seq(Commands)]
  <2>1. PICK n \in Nodes :
          \/ \E i \in DOMAIN accepted[n] :
                accepted' = [accepted EXCEPT ![n] = Without(accepted[n], i)] /\ queue' = queue
          \/ \E i \in DOMAIN queue[n] :
                queue' = [queue EXCEPT ![n] = Without(queue[n], i)] /\ accepted' = accepted
    BY DEF CommandLost
  <2>2. accepted[n] \in Seq(Commands) /\ queue[n] \in Seq(Commands)
    BY DEF LInv, Types
  <2>3. \A i \in DOMAIN accepted[n] : Without(accepted[n], i) \in Seq(Commands)
    BY <2>2, WithoutIs
  <2>4. \A i \in DOMAIN queue[n] : Without(queue[n], i) \in Seq(Commands)
    BY <2>2, WithoutIs
  <2>5. accepted \in [Nodes -> Seq(Commands)] /\ queue \in [Nodes -> Seq(Commands)]
    BY DEF LInv, Types
  <2>6. CASE \E i \in DOMAIN accepted[n] :
                accepted' = [accepted EXCEPT ![n] = Without(accepted[n], i)] /\ queue' = queue
    BY <2>3, <2>5, <2>6
  <2>7. CASE \E i \in DOMAIN queue[n] :
                queue' = [queue EXCEPT ![n] = Without(queue[n], i)] /\ accepted' = accepted
    BY <2>4, <2>5, <2>7
  <2> QED
    BY <2>1, <2>6, <2>7
<1>5. Types'
  BY <1>1, <1>3, <1>4 DEF LInv, Types, agent
<1>6. Flows
  BY LostFlows DEF LInv
<1> QED
  BY <1>1, <1>3, <1>5, <1>6, FadesKeep DEF agent

\* Orphaned commands are commands.
LEMMA DisownTypes ==
  ASSUME Types, NEW c \in Nodes, NEW g \in [Nodes -> Seq(Commands)], NEW w \in [Nodes -> Seq(Commands)],
         NEW b \in [Nodes -> Works \cup {NoCommand}], \A n \in Nodes : b[n] \in {busy[n], NoCommand},
         Disown(c, g, w, b)
  PROVE  /\ accepted' \in [Nodes -> Seq(Commands)] /\ queue' \in [Nodes -> Seq(Commands)]
         /\ busy' \in [Nodes -> Works \cup {NoCommand}]
         /\ \A n \in Nodes : busy'[n] # NoCommand => busy'[n].left \in Lefts(busy'[n].act)
         /\ \A n \in Nodes : /\ b[n] = NoCommand => busy'[n] = NoCommand
                             /\ \/ busy'[n] = NoCommand
                                \/ /\ busy'[n].act = busy[n].act /\ busy'[n].op = busy[n].op
                                   /\ busy'[n].rev = busy[n].rev /\ busy'[n].left = busy[n].left
<1>1. ASSUME NEW s \in Seq(Commands)
      PROVE  [i \in DOMAIN s |-> Orphan(c, s[i])] \in Seq(Commands)
  <2>1. DOMAIN s = 1 .. Len(s) /\ Len(s) \in Nat /\ \A i \in DOMAIN s : Orphan(c, s[i]) \in Commands
    BY OrphanIs
  <2> QED
    BY <2>1
<1>2. accepted' \in [Nodes -> Seq(Commands)] /\ queue' \in [Nodes -> Seq(Commands)]
  BY <1>1 DEF Disown
<1>3. ASSUME NEW n \in Nodes
      PROVE  /\ busy'[n] = Orphan(c, b[n])
             /\ busy'[n] \in Works \cup {NoCommand} /\ (busy'[n] = NoCommand <=> b[n] = NoCommand)
             /\ busy'[n].left = b[n].left /\ busy'[n].act = b[n].act /\ busy'[n].op = b[n].op
             /\ busy'[n].rev = b[n].rev
  <2>1. busy'[n] = Orphan(c, b[n]) /\ b[n] \in Works \cup {NoCommand}
    BY DEF Disown
  <2> QED
    BY <2>1, OrphanIs
<1>4. busy' \in [Nodes -> Works \cup {NoCommand}]
  BY <1>3 DEF Disown
<1>5. \A n \in Nodes : busy[n] # NoCommand => busy[n].left \in Lefts(busy[n].act)
  BY DEF Types
<1>6. \A n \in Nodes : busy'[n] # NoCommand => busy'[n].left \in Lefts(busy'[n].act)
  BY <1>3, <1>5
<1> QED
  BY <1>2, <1>3, <1>4, <1>6

LEMMA GivesUpKeeps ==
  ASSUME LInv, NEW c \in Nodes, GivesUp(c)
  PROVE  LInv'
<1>1. /\ task' = [task EXCEPT ![c] = Failed(task[c])] /\ task[c].waits /\ Disown(c, accepted, queue, busy)
      /\ UNCHANGED <<desired, agent, job, runs>> /\ faults' \in 0 .. MaxFaults
  BY Constants DEF GivesUp, Fault, Faults, LInv, Types
<1>2. task[c] \in Tasks /\ Active(task[c]) /\ Failed(task[c]) \in Tasks
  BY <1>1, FailedIs DEF LInv, Types, TaskInv, TaskOK, Active
<1>3. /\ task' \in [Nodes -> Tasks]
      /\ \A d \in Nodes : \/ task'[d] = task[d] /\ job'[d] = job[d]
                          \/ task'[d] = Failed(task[d]) /\ Active(task[d]) /\ job'[d] = job[d]
                          \/ task'[d] = Idle /\ job'[d] = "idle"
  BY <1>1, <1>2 DEF LInv, Types
<1>4. /\ accepted' \in [Nodes -> Seq(Commands)] /\ queue' \in [Nodes -> Seq(Commands)]
      /\ busy' \in [Nodes -> Works \cup {NoCommand}]
      /\ \A n \in Nodes : busy'[n] # NoCommand => busy'[n].left \in Lefts(busy'[n].act)
      /\ \A n \in Nodes : \/ busy'[n] = NoCommand
                          \/ /\ busy'[n].act = busy[n].act /\ busy'[n].op = busy[n].op
                             /\ busy'[n].rev = busy[n].rev /\ busy'[n].left = busy[n].left
  <2>1. /\ accepted \in [Nodes -> Seq(Commands)] /\ queue \in [Nodes -> Seq(Commands)]
        /\ busy \in [Nodes -> Works \cup {NoCommand}] /\ Types
    BY DEF LInv, Types
  <2> QED
    BY <1>1, <2>1, DisownTypes
<1>5. Types'
  BY <1>1, <1>3, <1>4 DEF LInv, Types, agent
<1>6. Flows
  BY GivesUpFlows DEF LInv
<1> QED
  BY <1>1, <1>3, <1>4, <1>5, <1>6, FadesKeep DEF agent

\* A task that waited for a lost command fails; the node's own is lost with it.
LEMMA LosesTasks ==
  ASSUME LInv, NEW c \in Nodes, NEW lost, \A d \in lost : d # NoOne => \E n \in Nodes : \E r \in Out(n) : r.from = d,
         task' = [d \in Nodes |-> IF d = c THEN Idle ELSE IF d \in lost THEN Failed(task[d]) ELSE task[d]],
         job' = [job EXCEPT ![c] = "idle"]
  PROVE  /\ task' \in [Nodes -> Tasks] /\ job' \in [Nodes -> Jobs]
         /\ \A d \in Nodes : \/ task'[d] = task[d] /\ job'[d] = job[d]
                             \/ task'[d] = Failed(task[d]) /\ Active(task[d]) /\ job'[d] = job[d]
                             \/ task'[d] = Idle /\ job'[d] = "idle"
<1>1. \A d \in Nodes : d \in lost => Active(task[d])
  BY Waits, Constants DEF LInv
<1>2. \A d \in Nodes : task[d] \in Tasks /\ Failed(task[d]) \in Tasks /\ Idle \in Tasks
  BY FailedIs, IdleIs DEF LInv, Types
<1>3. job \in [Nodes -> Jobs] /\ "idle" \in Jobs
  BY DEF LInv, Types, Jobs
<1> QED
  BY <1>1, <1>2, <1>3

LEMMA DiesKeeps ==
  ASSUME LInv, NEW c \in Nodes, ControlPlaneDies(c)
  PROVE  LInv'
<1> DEFINE lost == {accepted[c][i].from : i \in DOMAIN accepted[c]}
           g == [accepted EXCEPT ![c] = <<>>]
<1>1. /\ Disown(c, g, queue, busy)
      /\ task' = [d \in Nodes |-> IF d = c THEN Idle ELSE IF d \in lost THEN Failed(task[d]) ELSE task[d]]
      /\ job' = [job EXCEPT ![c] = "idle"]
      /\ UNCHANGED <<desired, agent, runs>> /\ faults' \in 0 .. MaxFaults
  <2>1. /\ Disown(c, g, queue, busy)
        /\ task' = [d \in Nodes |-> IF d = c THEN Idle ELSE IF d \in lost THEN Failed(task[d]) ELSE task[d]]
        /\ job' = [job EXCEPT ![c] = "idle"]
        /\ UNCHANGED <<desired, agent, runs>> /\ Fault
    BY DEF ControlPlaneDies
  <2>2. faults' = faults + 1 /\ faults + 1 <= MaxFaults
    BY <2>1 DEF Fault, Faults
  <2>3. faults' \in 0 .. MaxFaults
    BY <2>2, Constants DEF LInv, Types
  <2> QED
    BY <2>1, <2>3
<1>2. \A d \in lost : d # NoOne => \E n \in Nodes : \E r \in Out(n) : r.from = d
  BY DEF Out, Waiting, Elements
<1>3. g \in [Nodes -> Seq(Commands)]
  BY DEF LInv, Types
<1> HIDE DEF lost, g
<1>4. /\ task' \in [Nodes -> Tasks] /\ job' \in [Nodes -> Jobs]
      /\ \A d \in Nodes : \/ task'[d] = task[d] /\ job'[d] = job[d]
                          \/ task'[d] = Failed(task[d]) /\ Active(task[d]) /\ job'[d] = job[d]
                          \/ task'[d] = Idle /\ job'[d] = "idle"
  BY <1>1, <1>2, LosesTasks
<1>5. /\ accepted' \in [Nodes -> Seq(Commands)] /\ queue' \in [Nodes -> Seq(Commands)]
      /\ busy' \in [Nodes -> Works \cup {NoCommand}]
      /\ \A n \in Nodes : busy'[n] # NoCommand => busy'[n].left \in Lefts(busy'[n].act)
      /\ \A n \in Nodes : \/ busy'[n] = NoCommand
                          \/ /\ busy'[n].act = busy[n].act /\ busy'[n].op = busy[n].op
                             /\ busy'[n].rev = busy[n].rev /\ busy'[n].left = busy[n].left
  <2>1. queue \in [Nodes -> Seq(Commands)] /\ busy \in [Nodes -> Works \cup {NoCommand}] /\ Types
    BY DEF LInv, Types
  <2> QED
    BY <1>1, <1>3, <2>1, DisownTypes
<1>6. Types'
  BY <1>1, <1>4, <1>5 DEF LInv, Types, agent
<1>7. Flows
  BY DiesFlows DEF LInv
<1> QED
  BY <1>1, <1>4, <1>5, <1>6, <1>7, FadesKeep DEF agent

\* A node boots what its bundles say, if they are whole.
LEMMA BootsWhole ==
  ASSUME Types, NodeInv, NEW n \in Nodes, MayBoot(n)
  PROVE  bundle[n] \in Revisions
<1>1. journal[n].state \in {"idle", "prepared", "complete", "rolled_back"}
  BY DEF MayBoot, Types, Entries, JournalStates, Pausing, Terminal
<1>2. bundle[n] \in Revisions \cup {Half} /\ JournalOK(journal[n], bundle[n])
  BY DEF Types, NodeInv
<1> QED
  BY <1>1, <1>2, Constants DEF JournalOK, AtOld, AtNew

LEMMA PowerKeeps ==
  ASSUME LInv, NEW c \in Nodes, PowerFails(c)
  PROVE  LInv'
<1> DEFINE lost == {accepted[c][i].from : i \in DOMAIN accepted[c]} \cup {busy[c].from}
                \cup {queue[c][i].from : i \in DOMAIN queue[c]}
           g == [accepted EXCEPT ![c] = <<>>]
           w == [queue EXCEPT ![c] = <<>>]
           b == [busy EXCEPT ![c] = NoCommand]
           s == IF MayBoot(c) THEN bundle[c] ELSE Stopped
<1>1. /\ Disown(c, g, w, b)
      /\ task' = [d \in Nodes |-> IF d = c THEN Idle ELSE IF d \in lost THEN Failed(task[d]) ELSE task[d]]
      /\ job' = [job EXCEPT ![c] = "idle"]
      /\ worker' = [worker EXCEPT ![c] = s] /\ core' = [core EXCEPT ![c] = s]
      /\ UNCHANGED <<desired, journal, bundle, runs>> /\ faults' \in 0 .. MaxFaults
  BY Constants DEF PowerFails, Fault, Faults, LInv, Types
<1>2. \A d \in lost : d # NoOne => \E n \in Nodes : \E r \in Out(n) : r.from = d
  BY DEF Out, Waiting, Elements
<1>3. /\ g \in [Nodes -> Seq(Commands)] /\ w \in [Nodes -> Seq(Commands)]
      /\ b \in [Nodes -> Works \cup {NoCommand}] /\ \A n \in Nodes : b[n] \in {busy[n], NoCommand}
      /\ b[c] = NoCommand
  BY DEF LInv, Types
<1>4. s \in Revisions \cup {Stopped}
  BY BootsWhole DEF LInv
<1> HIDE DEF lost, g, w, b, s
<1>5. /\ task' \in [Nodes -> Tasks] /\ job' \in [Nodes -> Jobs]
      /\ \A d \in Nodes : \/ task'[d] = task[d] /\ job'[d] = job[d]
                          \/ task'[d] = Failed(task[d]) /\ Active(task[d]) /\ job'[d] = job[d]
                          \/ task'[d] = Idle /\ job'[d] = "idle"
  BY <1>1, <1>2, LosesTasks
<1>6. /\ accepted' \in [Nodes -> Seq(Commands)] /\ queue' \in [Nodes -> Seq(Commands)]
      /\ busy' \in [Nodes -> Works \cup {NoCommand}]
      /\ \A n \in Nodes : busy'[n] # NoCommand => busy'[n].left \in Lefts(busy'[n].act)
      /\ \A n \in Nodes : /\ b[n] = NoCommand => busy'[n] = NoCommand
                          /\ \/ busy'[n] = NoCommand
                             \/ /\ busy'[n].act = busy[n].act /\ busy'[n].op = busy[n].op
                                /\ busy'[n].rev = busy[n].rev /\ busy'[n].left = busy[n].left
  <2>1. Types
    BY DEF LInv
  <2> QED
    BY <1>1, <1>3, <2>1, DisownTypes
<1>7. worker' \in [Nodes -> Revisions \cup {Stopped}] /\ core' \in [Nodes -> Revisions \cup {Stopped}]
      /\ \A n \in Nodes : n # c => core'[n] = core[n]
  BY <1>1, <1>4 DEF LInv, Types
<1>8. Types'
  BY <1>1, <1>5, <1>6, <1>7 DEF LInv, Types
<1>9. Flows
  BY PowerFlows DEF LInv
<1>10. \A n \in Nodes : \/ busy'[n] = NoCommand
                        \/ /\ busy'[n].act = busy[n].act /\ busy'[n].op = busy[n].op
                           /\ busy'[n].rev = busy[n].rev /\ busy'[n].left = busy[n].left
                           /\ core'[n] = core[n]
  BY <1>3, <1>6, <1>7
<1> QED
  BY <1>1, <1>5, <1>8, <1>9, <1>10, FadesKeep

\* The agent takes up what the journal of its node allows.
LEMMA BeginsKeep ==
  ASSUME LInv, NEW n \in Nodes, Begins(n)
  PROVE  LInv'
<1> DEFINE r == Head(queue[n])
           x == [act |-> r.act, op |-> r.op, rev |-> r.rev, from |-> r.from, left |-> Does(r.act)]
<1>1. /\ queue[n] \in Seq(Commands) /\ queue[n] # <<>> /\ Demands(n, r)
      /\ queue' = [queue EXCEPT ![n] = Tail(queue[n])] /\ busy' = [busy EXCEPT ![n] = x]
      /\ UNCHANGED <<desired, agent, accepted, task, job, runs, faults>>
  BY DEF LInv, Types, Begins
<1>2. r \in Commands /\ Tail(queue[n]) \in Seq(Commands)
  BY <1>1, TailIs
<1>3. /\ x \in Works /\ x.left \in Lefts(x.act) /\ x.act = r.act /\ x.op = r.op /\ x.rev = r.rev
      /\ Len(x.left) = (IF x.act \in {"quiesce", "install", "restore"} THEN 3
                        ELSE IF x.act \in {"worker", "core", "old_worker", "old_core"} THEN 2 ELSE 1)
  BY <1>2, PlanIs DEF Works, Commands
<1>4. r.act # "none"
  BY <1>2 DEF Commands, Actions
<1> HIDE DEF x
<1>5. busy'[n] = x /\ \A m \in Nodes : m # n => busy'[m] = busy[m]
  BY <1>1 DEF LInv, Types
<1>6. Types'
  <2>1. queue' \in [Nodes -> Seq(Commands)] /\ busy' \in [Nodes -> Works \cup {NoCommand}]
    BY <1>1, <1>2, <1>3 DEF LInv, Types
  <2>2. \A m \in Nodes : busy'[m] # NoCommand => busy'[m].left \in Lefts(busy'[m].act)
    BY <1>3, <1>5 DEF LInv, Types
  <2> QED
    BY <1>1, <2>1, <2>2 DEF LInv, Types, agent
<1>7. LineInv' /\ AskedInv' /\ OpInv'
  <2>1. Flows
    BY TakenFlows DEF LInv
  <2>2. runs' \in Nat /\ runs <= runs' /\ \A m \in Nodes : journal'[m].op <= runs'
    BY <1>1, Constants DEF LInv, Types, OpInv, agent
  <2> QED
    BY <2>1, <2>2, FlowsKeep DEF LInv
<1>8. TaskInv'
  BY <1>1 DEF LInv, TaskInv
<1>9. NodeInv'
  <2>1. (x.act = "prepare" /\ x.op # journal[n].op) =>
          journal[n].state \in Terminal \cup {"idle"} /\ bundle[n] \in 1 .. x.rev
    BY <1>1, <1>3 DEF Demands, Takes, Holds
  <2>2. x.act \notin {"none", "prepare"} =>
          x.op = journal[n].op /\ x.rev = journal[n].rev /\ journal[n].state \in Phases(x.act)
    BY <1>1, <1>3 DEF Demands, Takes, Holds
  <2>3. WorkOK(x, journal[n], bundle[n], core[n])
    BY <1>3, <2>1, <2>2 DEF WorkOK
  <2> QED
    BY <1>1, <1>5, <2>3 DEF LInv, NodeInv, agent
<1> QED
  BY <1>6, <1>7, <1>8, <1>9 DEF LInv

\* The agent does a step of its command.
LEMMA StepKeeps ==
  ASSUME LInv, NEW n \in Nodes, NEW s, Step(n, s),
         journal' \in [Nodes -> Entries], bundle' \in [Nodes -> Revisions \cup {Half}],
         worker' \in [Nodes -> Revisions \cup {Stopped}], core' \in [Nodes -> Revisions \cup {Stopped}],
         \A m \in Nodes : m # n => journal'[m] = journal[m] /\ bundle'[m] = bundle[m] /\ core'[m] = core[m],
         journal'[n].op <= runs, JournalOK(journal'[n], bundle'[n]),
         \A x \in Works : /\ Len(busy[n].left) # 1 /\ x.act = busy[n].act /\ x.op = busy[n].op
                          /\ x.rev = busy[n].rev /\ Len(x.left) = Len(busy[n].left) - 1
                          => WorkOK(x, journal'[n], bundle'[n], core'[n])
  PROVE  LInv'
<1> DEFINE r == busy[n]
           x == [r EXCEPT !.left = Tail(r.left)]
           u == Confirmed(task[r.from], r.act, n)
<1>1. /\ r \in Works /\ r.left \in Lefts(r.act) /\ r.act \in Actions
      /\ Len(r.left) = 1 =>
              /\ busy' = [busy EXCEPT ![n] = NoCommand]
              /\ task' = IF r.from = NoOne THEN task ELSE [task EXCEPT ![r.from] = u]
      /\ Len(r.left) # 1 => busy' = [busy EXCEPT ![n] = x] /\ task' = task
      /\ UNCHANGED <<desired, accepted, queue, job, runs, faults>>
  BY StepIs DEF LInv
<1>2. Len(r.left) # 1 =>
        /\ x \in Works /\ x.act = r.act /\ x.op = r.op /\ x.rev = r.rev
        /\ x.left \in Lefts(x.act) /\ Len(x.left) = Len(r.left) - 1
  <2>1. Len(r.left) # 1 => Tail(r.left) \in Lefts(r.act) /\ Len(Tail(r.left)) = Len(r.left) - 1
    BY <1>1, LeftIs
  <2>2. Lefts(r.act) \subseteq Plans
    BY <1>1, PlanIs
  <2> QED
    BY <1>1, <2>1, <2>2 DEF Works
<1>3. Len(r.left) # 1 => WorkOK(x, journal'[n], bundle'[n], core'[n])
  BY <1>2
<1>4. r.from # NoOne => u \in Tasks /\ TaskOK(u, job[r.from], runs) /\ r.from \in Nodes
  <2>1. SUFFICES ASSUME r.from # NoOne PROVE u \in Tasks /\ TaskOK(u, job[r.from], runs) /\ r.from \in Nodes
    OBVIOUS
  <2> DEFINE t == task[r.from]
  <2>2. /\ r.from \in Nodes /\ t \in Tasks /\ t.act = r.act /\ t.act # "end" /\ t.act \in ActsOf(t.way)
        /\ t.pc = "working"
    BY <2>1, Waits DEF LInv, Out, Asked
  <2>3. /\ u \in Tasks /\ u.pc = t.pc /\ u.waits = FALSE /\ u.way = t.way /\ u.op = t.op /\ u.rev = t.rev
        /\ u.act = (IF t.left = {n} THEN Then(t.way, t.act) ELSE t.act)
    <3> DEFINE v == Confirmed(t, t.act, n)
    <3>1. /\ v \in Tasks /\ v.pc = t.pc /\ v.waits = FALSE /\ v.way = t.way /\ v.op = t.op /\ v.rev = t.rev
          /\ v.act = (IF t.left = {n} THEN Then(t.way, t.act) ELSE t.act)
      <4>1. ConfirmedAs(v, t, n)
        BY <2>2, ConfirmedIsSo
      <4> HIDE DEF v, t
      <4> QED
        BY <4>1 DEF ConfirmedAs
    <3>2. u = v
      BY <2>2
    <3> HIDE DEF u, v
    <3> QED
      BY <3>1, <3>2
  <2>4. u.act \in ActsOf(t.way)
    BY <2>2, <2>3, ThenIs
  <2>5. TaskOK(t, job[r.from], runs)
    BY <2>2 DEF LInv, TaskInv
  <2> HIDE DEF u, t
  <2>6. TaskOK(u, job[r.from], runs)
    BY <2>2, <2>3, <2>4, <2>5 DEF TaskOK, Active
  <2> QED
    BY <2>2, <2>3, <2>6
<1> HIDE DEF x, u
<1>5. /\ busy'[n] = (IF Len(r.left) = 1 THEN NoCommand ELSE x)
      /\ \A m \in Nodes : m # n => busy'[m] = busy[m]
      /\ busy' \in [Nodes -> Works \cup {NoCommand}]
  BY <1>1, <1>2 DEF LInv, Types
<1>6. task' \in [Nodes -> Tasks] /\ TaskInv'
  <2>1. CASE task' = task
    BY <1>1, <2>1 DEF LInv, Types, TaskInv
  <2>2. CASE r.from # NoOne /\ task' = [task EXCEPT ![r.from] = u]
    <3>1. task' \in [Nodes -> Tasks] /\ task'[r.from] = u /\ \A d \in Nodes : d # r.from => task'[d] = task[d]
      BY <1>4, <2>2 DEF LInv, Types
    <3> QED
      BY <1>1, <1>4, <2>2, <3>1 DEF LInv, TaskInv
  <2> QED
    BY <1>1, <2>1, <2>2
<1>7. Types'
  <2>1. \A m \in Nodes : busy'[m] # NoCommand => busy'[m].left \in Lefts(busy'[m].act)
    BY <1>2, <1>5 DEF LInv, Types
  <2> QED
    BY <1>1, <1>5, <1>6, <2>1 DEF LInv, Types
<1>8. LineInv' /\ AskedInv' /\ OpInv'
  <2>1. Flows
    BY StepFlows DEF LInv
  <2>2. runs' \in Nat /\ runs <= runs' /\ \A m \in Nodes : journal'[m].op <= runs'
    <3>1. runs' = runs /\ runs \in Nat /\ \A m \in Nodes : journal[m].op <= runs
      BY <1>1, Constants DEF LInv, Types, OpInv
    <3>2. \A m \in Nodes : journal'[m].op <= runs
      BY <3>1
    <3> QED
      BY <3>1, <3>2
  <2> QED
    BY <2>1, <2>2, FlowsKeep DEF LInv
<1>9. NodeInv'
  <2>1. WorkOK(NoCommand, journal'[n], bundle'[n], core'[n])
    BY DEF WorkOK, NoCommand
  <2>2. WorkOK(busy'[n], journal'[n], bundle'[n], core'[n])
    BY <1>3, <1>5, <2>1
  <2> QED
    BY <1>5, <2>2 DEF LInv, NodeInv
<1> QED
  BY <1>6, <1>7, <1>8, <1>9 DEF LInv

\* The journal of a node that works on a command past its preparation.
LEMMA WorkIs ==
  ASSUME LInv, NEW n \in Nodes, NEW s, Step(n, s)
  PROVE  LET r == busy[n]
             j == journal[n] IN
         /\ r \in Works /\ r.left \in Lefts(r.act) /\ r.act \in Actions /\ Head(r.left) = s
         /\ Len(r.left) \in 1 .. 3 /\ r.op \in 1 .. runs /\ r.rev \in Revisions /\ j \in Entries /\ j.op <= runs
         /\ JournalOK(j, bundle[n]) /\ WorkOK(r, j, bundle[n], core[n])
         /\ r.act # "prepare" =>
              /\ j.op = r.op /\ j.rev = r.rev /\ j.state # "idle" /\ j.op # 0
              /\ j.prev \in Revisions /\ j.state \in Phases(r.act)
<1>1. /\ busy[n] \in Works /\ busy[n].left \in Lefts(busy[n].act) /\ busy[n].act \in Actions
      /\ Head(busy[n].left) = s /\ busy[n] # NoCommand
  BY StepIs DEF LInv
<1>2. Len(busy[n].left) \in 1 .. 3
  BY <1>1, LeftIs
<1>3. busy[n].act # "none" /\ busy[n].rev \in Revisions
  BY <1>1 DEF Works, Actions
<1>4. busy[n].op \in 1 .. runs /\ journal[n].op <= runs /\ journal[n] \in Entries
  BY <1>3 DEF LInv, OpInv, Out, Types
<1>5. JournalOK(journal[n], bundle[n]) /\ WorkOK(busy[n], journal[n], bundle[n], core[n])
  BY DEF LInv, NodeInv
<1>6. 0 \notin 1 .. runs
  BY Constants DEF LInv, Types
<1> QED
  BY <1>1, <1>2, <1>3, <1>4, <1>5, <1>6 DEF JournalOK, WorkOK

LEMMA PreparesKeep ==
  ASSUME LInv, NEW n \in Nodes, Prepares(n)
  PROVE  LInv'
<1> DEFINE r == busy[n]
           j == journal[n]
           e == IF j.op = r.op THEN j
                ELSE [op |-> r.op, rev |-> r.rev, prev |-> bundle[n], state |-> "prepared"]
<1>1. /\ Step(n, "prepare") /\ UNCHANGED <<bundle, worker, core>> /\ journal' = [journal EXCEPT ![n] = e]
  BY DEF Prepares
<1>2. /\ r \in Works /\ r.left \in Lefts(r.act) /\ r.act \in Actions /\ Head(r.left) = "prepare"
      /\ r.op \in 1 .. runs /\ r.rev \in Revisions /\ j \in Entries /\ j.op <= runs
      /\ JournalOK(j, bundle[n]) /\ WorkOK(r, j, bundle[n], core[n])
  BY <1>1, WorkIs
<1>3. r.act = "prepare" /\ Len(r.left) = 1
  BY <1>2, LeftIs
<1>4. j.op # r.op => bundle[n] \in Revisions
  BY <1>2, <1>3, Constants DEF WorkOK, LInv, Types, Half
<1>5. e \in Entries /\ e.op <= runs /\ JournalOK(e, bundle[n])
  <2>1. CASE j.op = r.op
    BY <1>2, <2>1
  <2>2. CASE j.op # r.op
    <3>1. /\ e = [op |-> r.op, rev |-> r.rev, prev |-> bundle[n], state |-> "prepared"]
          /\ r.op # 0 /\ r.op \in 0 .. MaxRuns /\ runs \in 0 .. MaxRuns /\ "prepared" \in JournalStates
          /\ r.rev \in 0 .. (2 + MaxSaves) /\ bundle[n] \in 0 .. (2 + MaxSaves) /\ r.op <= runs
      <4>1. runs \in 0 .. MaxRuns /\ MaxRuns \in Nat /\ \A x \in Revisions : x \in 0 .. (2 + MaxSaves)
        BY Constants DEF LInv, Types
      <4>2. r.op \in 0 .. MaxRuns /\ r.op # 0 /\ r.op <= runs
        BY <1>2, <4>1
      <4>3. "prepared" \in JournalStates
        BY DEF JournalStates
      <4> QED
        BY <1>2, <1>4, <2>2, <4>1, <4>2, <4>3
    <3>2. e \in Entries /\ e.op <= runs
      BY <3>1 DEF Entries
    <3> QED
      BY <1>2, <1>4, <2>2, <3>1, <3>2 DEF JournalOK, AtOld, AtNew
  <2> QED
    BY <2>1, <2>2
<1> HIDE DEF e
<1>6. /\ journal' \in [Nodes -> Entries] /\ journal'[n] = e /\ \A m \in Nodes : m # n => journal'[m] = journal[m]
      /\ bundle' \in [Nodes -> Revisions \cup {Half}]
      /\ worker' \in [Nodes -> Revisions \cup {Stopped}] /\ core' \in [Nodes -> Revisions \cup {Stopped}]
  BY <1>1, <1>5 DEF LInv, Types
<1> QED
  BY <1>1, <1>3, <1>5, <1>6, StepKeeps

LEMMA JournalsKeep ==
  ASSUME LInv, NEW n \in Nodes, Journals(n)
  PROVE  LInv'
<1> DEFINE r == busy[n]
           j == journal[n]
           e == [j EXCEPT !.state = Reached(r.act)]
<1>1. /\ Step(n, "save") /\ UNCHANGED <<bundle, worker, core>> /\ journal' = [journal EXCEPT ![n] = e]
  BY DEF Journals
<1>2. /\ r \in Works /\ r.left \in Lefts(r.act) /\ r.act \in Actions /\ Head(r.left) = "save"
      /\ r.op \in 1 .. runs /\ r.rev \in Revisions /\ j \in Entries /\ j.op <= runs
      /\ JournalOK(j, bundle[n]) /\ WorkOK(r, j, bundle[n], core[n])
      /\ r.act # "prepare" =>
              /\ j.op = r.op /\ j.rev = r.rev /\ j.state # "idle" /\ j.op # 0
              /\ j.prev \in Revisions /\ j.state \in Phases(r.act)
  BY <1>1, WorkIs
<1>3. r.act # "prepare" /\ Len(r.left) = (IF r.act = "quiesce" THEN 3 ELSE 1)
  BY <1>2, LeftIs
<1>4. /\ e \in Entries /\ e.op = j.op /\ e.rev = j.rev /\ e.prev = j.prev /\ e.state = Reached(r.act)
      /\ e.state # "idle"
  BY <1>2, <1>3 DEF Entries, Reached, JournalStates, Pausing, Terminal, Actions
<1> HIDE DEF e
<1>5. JournalOK(e, bundle[n])
  <2>1. /\ r.act = "quiesce" => e.state = "quiesced"
        /\ r.act = "install" => e.state = "installed" /\ bundle[n] = j.rev
        /\ r.act = "restore" => e.state = "restored" /\ bundle[n] = j.prev
        /\ r.act = "worker" => e.state = "worker_started" /\ bundle[n] = j.rev
        /\ r.act = "core" => e.state = "core_started" /\ bundle[n] = j.rev
        /\ r.act = "finish" => e.state = "complete" /\ bundle[n] = j.rev
        /\ r.act = "old_worker" => e.state = "old_worker_started" /\ bundle[n] = j.prev
        /\ r.act = "old_core" => e.state = "old_core_started" /\ bundle[n] = j.prev
        /\ r.act = "rolled_back" => e.state = "rolled_back" /\ bundle[n] = j.prev
    BY <1>2, <1>3, <1>4 DEF Reached, Phases, JournalOK, WorkOK, AtOld, AtNew
  <2>2. e.state \in AtOld => bundle[n] = e.prev
    BY <1>2, <1>3, <1>4, <2>1 DEF AtOld, Actions
  <2>3. e.state \in AtNew => bundle[n] = e.rev
    BY <1>2, <1>3, <1>4, <2>1 DEF AtNew, Actions
  <2> QED
    BY <1>2, <1>3, <1>4, <2>2, <2>3 DEF JournalOK
<1>6. /\ journal' \in [Nodes -> Entries] /\ journal'[n] = e /\ \A m \in Nodes : m # n => journal'[m] = journal[m]
      /\ bundle' \in [Nodes -> Revisions \cup {Half}]
      /\ worker' \in [Nodes -> Revisions \cup {Stopped}] /\ core' \in [Nodes -> Revisions \cup {Stopped}]
  BY <1>1, <1>4 DEF LInv, Types
<1>7. ASSUME NEW x \in Works, Len(r.left) # 1, x.act = r.act, x.op = r.op, x.rev = r.rev,
             Len(x.left) = Len(r.left) - 1
      PROVE  WorkOK(x, e, bundle[n], core[n])
  <2>1. x.act = "quiesce" /\ Len(x.left) = 2 /\ e.state = "quiesced"
    BY <1>3, <1>4, <1>7 DEF Reached
  <2> QED
    BY <1>2, <1>3, <1>4, <1>7, <2>1 DEF WorkOK, Phases, JournalStates, Pausing
<1> QED
  BY <1>1, <1>2, <1>4, <1>5, <1>6, <1>7, StepKeeps

\* A step that leaves the journal alone.
LEMMA DoesKeep ==
  ASSUME LInv, NEW n \in Nodes,
         StopsCore(n) \/ StopsWorker(n) \/ Breaks(n) \/ Writes(n) \/ StartsWorker(n) \/ StartsCore(n)
  PROVE  LInv'
<1> DEFINE r == busy[n]
           j == journal[n]
<1>1. ASSUME NEW s, Step(n, s), s \notin {"prepare", "save"}, NEW b \in Revisions \cup {Half}, NEW w \in Revisions \cup {Stopped},
             NEW k \in Revisions \cup {Stopped},
             journal' = journal, bundle' = [bundle EXCEPT ![n] = b], worker' = [worker EXCEPT ![n] = w],
             core' = [core EXCEPT ![n] = k], j.state \notin AtOld \cup AtNew \/ b = bundle[n],
             r.act = "quiesce" => k = Stopped \/ Len(r.left) > 2,
             (r.act = "install" /\ Len(r.left) = 2) => b = r.rev,
             (r.act = "restore" /\ Len(r.left) = 2) => b = j.prev
      PROVE  LInv'
  <2>1. /\ r \in Works /\ r.left \in Lefts(r.act) /\ r.act \in Actions /\ Head(r.left) = s
        /\ Len(r.left) \in 1 .. 3 /\ j \in Entries /\ j.op <= runs
        /\ JournalOK(j, bundle[n]) /\ WorkOK(r, j, bundle[n], core[n])
        /\ r.act # "prepare" =>
                /\ j.op = r.op /\ j.rev = r.rev /\ j.state # "idle" /\ j.op # 0
                /\ j.prev \in Revisions /\ j.state \in Phases(r.act)
    BY <1>1, WorkIs
  <2>2. r.act # "prepare" /\ (Len(r.left) = 3 => r.act \in {"install", "restore"})
    BY <1>1, <2>1, LeftIs
  <2>3. /\ journal' \in [Nodes -> Entries] /\ journal'[n] = j /\ \A m \in Nodes : journal'[m] = journal[m]
        /\ bundle' \in [Nodes -> Revisions \cup {Half}] /\ bundle'[n] = b
        /\ worker' \in [Nodes -> Revisions \cup {Stopped}] /\ core' \in [Nodes -> Revisions \cup {Stopped}]
        /\ core'[n] = k /\ \A m \in Nodes : m # n => bundle'[m] = bundle[m] /\ core'[m] = core[m]
    BY <1>1 DEF LInv, Types
  <2>4. JournalOK(j, b)
    BY <1>1, <2>1, <2>2 DEF JournalOK
  <2>5. ASSUME NEW x \in Works, Len(r.left) # 1, x.act = r.act, x.op = r.op, x.rev = r.rev,
               Len(x.left) = Len(r.left) - 1
        PROVE  WorkOK(x, j, b, k)
    <3>1. x.act # "prepare" /\ x.op = j.op /\ x.rev = j.rev /\ j.state \in Phases(x.act)
      BY <2>1, <2>2, <2>5
    <3>2. x.act = "quiesce" => j.state = "quiesced" /\ k = Stopped
      <4>1. SUFFICES ASSUME x.act = "quiesce" PROVE j.state = "quiesced" /\ k = Stopped
        OBVIOUS
      <4>2. Len(r.left) = 2
        BY <2>1, <2>2, <2>5, <4>1
      <4> QED
        BY <1>1, <2>1, <2>5, <4>1, <4>2 DEF WorkOK
    <3>5. Len(x.left) < 2 => Len(r.left) = 2
      <4>1. Len(r.left) = 2 \/ Len(r.left) = 3
        BY <2>1, <2>5
      <4>2. Len(r.left) = 3 => Len(x.left) = 2
        BY <2>5
      <4> QED
        BY <4>1, <4>2
    <3>3. (x.act = "install" /\ Len(x.left) < 2) => b = j.rev
      BY <1>1, <2>1, <2>2, <2>5, <3>5
    <3>4. (x.act = "restore" /\ Len(x.left) < 2) => b = j.prev
      BY <1>1, <2>1, <2>2, <2>5, <3>5
    <3> QED
      BY <3>1, <3>2, <3>3, <3>4 DEF WorkOK
  <2> QED
    BY <1>1, <2>1, <2>3, <2>4, <2>5, StepKeeps
<1>2. /\ bundle = [bundle EXCEPT ![n] = bundle[n]] /\ worker = [worker EXCEPT ![n] = worker[n]]
      /\ core = [core EXCEPT ![n] = core[n]] /\ bundle[n] \in Revisions \cup {Half}
      /\ worker[n] \in Revisions \cup {Stopped} /\ core[n] \in Revisions \cup {Stopped}
  BY DEF LInv, Types
<1>3. ASSUME NEW s, Step(n, s), s \notin {"prepare", "save"}
      PROVE  /\ r.act \in Actions /\ r.left \in Lefts(r.act) /\ Head(r.left) = s /\ Len(r.left) \in 1 .. 3
             /\ j.op = r.op /\ j.rev = r.rev /\ j.prev \in Revisions /\ j.state \in Phases(r.act)
             /\ r.rev \in Revisions /\ JournalOK(j, bundle[n]) /\ WorkOK(r, j, bundle[n], core[n])
  <2>1. /\ r \in Works /\ r.left \in Lefts(r.act) /\ r.act \in Actions /\ Head(r.left) = s
        /\ Len(r.left) \in 1 .. 3 /\ r.rev \in Revisions
        /\ JournalOK(j, bundle[n]) /\ WorkOK(r, j, bundle[n], core[n])
        /\ r.act # "prepare" =>
                /\ j.op = r.op /\ j.rev = r.rev /\ j.prev \in Revisions /\ j.state \in Phases(r.act)
    BY <1>3, WorkIs
  <2>2. r.act # "prepare"
    BY <1>3, <2>1, LeftIs
  <2> QED
    BY <2>1, <2>2
<1>4. CASE StopsCore(n)
  <2>1. Step(n, "stop_core") /\ core' = [core EXCEPT ![n] = Stopped] /\ UNCHANGED <<journal, bundle, worker>>
    BY <1>4 DEF StopsCore
  <2>2. r.act = "quiesce"
    BY <1>3, <2>1, LeftIs
  <2> QED
    BY <1>1, <1>2, <2>1, <2>2
<1>5. CASE StopsWorker(n)
  <2>1. Step(n, "stop_worker") /\ worker' = [worker EXCEPT ![n] = Stopped] /\ UNCHANGED <<journal, bundle, core>>
    BY <1>5 DEF StopsWorker
  <2>2. r.act = "quiesce" /\ Len(r.left) = 1
    BY <1>3, <2>1, LeftIs
  <2>3. core[n] = Stopped
    BY <1>3, <2>1, <2>2 DEF WorkOK
  <2> QED
    BY <1>1, <1>2, <2>1, <2>2, <2>3
<1>6. CASE Breaks(n)
  <2>1. Step(n, "break") /\ bundle' = [bundle EXCEPT ![n] = Half] /\ UNCHANGED <<journal, worker, core>>
    BY <1>6 DEF Breaks
  <2>2. r.act \in {"install", "restore"} /\ Len(r.left) = 3
    BY <1>3, <2>1, LeftIs
  <2>3. j.state \notin AtOld \cup AtNew
    BY <1>3, <2>1, <2>2 DEF Phases, AtOld, AtNew
  <2>4. r.act # "quiesce" /\ Len(r.left) # 2 /\ Half \in Revisions \cup {Half}
    BY <2>2
  <2>5. "break" \notin {"prepare", "save"}
    OBVIOUS
  <2> QED
    BY <1>1, <1>2, <2>1, <2>3, <2>4, <2>5
<1>7. CASE Writes(n)
  <2>1. \/ Step(n, "write_new") /\ bundle' = [bundle EXCEPT ![n] = r.rev] /\ UNCHANGED <<journal, worker, core>>
        \/ Step(n, "write_old") /\ bundle' = [bundle EXCEPT ![n] = j.prev] /\ UNCHANGED <<journal, worker, core>>
    BY <1>7 DEF Writes
  <2>2. CASE Step(n, "write_new") /\ bundle' = [bundle EXCEPT ![n] = r.rev] /\ UNCHANGED <<journal, worker, core>>
    <3>1. r.act = "install" /\ Len(r.left) = 2
      BY <1>3, <2>2, LeftIs
    <3>2. j.state \notin AtOld \cup AtNew /\ r.rev \in Revisions
      BY <1>3, <2>2, <3>1 DEF Phases, AtOld, AtNew
    <3> QED
      BY <1>1, <1>2, <2>2, <3>1, <3>2
  <2>3. CASE Step(n, "write_old") /\ bundle' = [bundle EXCEPT ![n] = j.prev] /\ UNCHANGED <<journal, worker, core>>
    <3>1. r.act = "restore" /\ Len(r.left) = 2
      BY <1>3, <2>3, LeftIs
    <3>2. j.state \notin AtOld \cup AtNew /\ j.prev \in Revisions
      BY <1>3, <2>3, <3>1 DEF Phases, AtOld, AtNew
    <3> QED
      BY <1>1, <1>2, <2>3, <3>1, <3>2
  <2> QED
    BY <2>1, <2>2, <2>3
<1>8. CASE StartsWorker(n)
  <2> DEFINE w == IF worker[n] = Stopped THEN bundle[n] ELSE worker[n]
  <2>1. Step(n, "start_worker") /\ worker' = [worker EXCEPT ![n] = w] /\ UNCHANGED <<journal, bundle, core>>
    BY <1>8 DEF StartsWorker, Started
  <2>2. r.act \in {"worker", "old_worker"}
    BY <1>3, <2>1, LeftIs
  <2>3. bundle[n] \in Revisions
    BY <1>3, <2>1, <2>2 DEF Phases, JournalOK, AtOld, AtNew
  <2>4. w \in Revisions \cup {Stopped}
    BY <1>2, <2>3
  <2> HIDE DEF w
  <2> QED
    BY <1>1, <1>2, <2>1, <2>2, <2>4
<1>9. CASE StartsCore(n)
  <2> DEFINE k == IF core[n] = Stopped THEN bundle[n] ELSE core[n]
  <2>1. Step(n, "start_core") /\ core' = [core EXCEPT ![n] = k] /\ UNCHANGED <<journal, bundle, worker>>
    BY <1>9 DEF StartsCore, Started
  <2>2. r.act \in {"core", "old_core"}
    BY <1>3, <2>1, LeftIs
  <2>3. bundle[n] \in Revisions
    BY <1>3, <2>1, <2>2 DEF Phases, JournalOK, AtOld, AtNew
  <2>4. k \in Revisions \cup {Stopped}
    BY <1>2, <2>3
  <2> HIDE DEF k
  <2> QED
    BY <1>1, <1>2, <2>1, <2>2, <2>4
<1> QED
  BY <1>4, <1>5, <1>6, <1>7, <1>8, <1>9

LEMMA StartsInLine == Init => LInv
<1> SUFFICES ASSUME Init PROVE LInv
  OBVIOUS
<1>1. Types
  <2>1. /\ [op |-> 0, rev |-> 0, prev |-> 0, state |-> "idle"] \in Entries /\ 1 \in Revisions /\ 2 \in Revisions
        /\ <<>> \in Seq(Commands) /\ Idle \in Tasks /\ "idle" \in Jobs /\ 0 \in 0 .. MaxRuns /\ 0 \in 0 .. MaxFaults
    BY Constants, IdleIs DEF Entries, Revisions, Jobs, JournalStates
  <2> QED
    BY <2>1 DEF Init, Types
<1>2. \A n \in Nodes : accepted[n] = <<>> /\ queue[n] = <<>> /\ busy[n] = NoCommand /\ task[n] = Idle /\ job[n] = "idle"
                       /\ journal[n] = [op |-> 0, rev |-> 0, prev |-> 0, state |-> "idle"] /\ bundle[n] = 1
  BY DEF Init
<1>3. \A n \in Nodes : Out(n) = {NoCommand}
  BY <1>2, NoElements DEF Out, Waiting
<1>4. NoCommand.from = NoOne /\ NoCommand.act = "none"
  BY DEF NoCommand
<1>5. LineInv
  <2>1. DOMAIN (<<>>) = {}
    OBVIOUS
  <2> QED
    BY <1>2, <2>1 DEF LineInv, LineAt, Line
<1>6. TaskInv
  BY <1>2, IdleIs DEF TaskInv, TaskOK, Active
<1>7. AskedInv /\ OpInv
  <2>1. \A n \in Nodes : journal[n].op = 0 /\ runs = 0
    BY <1>2 DEF Init
  <2> QED
    BY <1>3, <1>4, <2>1 DEF AskedInv, OpInv
<1>8. NodeInv
  BY <1>2, <1>4, Constants DEF NodeInv, JournalOK, WorkOK, AtOld, AtNew, Half
<1> QED
  BY <1>1, <1>5, <1>6, <1>7, <1>8 DEF LInv

LEMMA StaysInLine == LInv /\ [Next]_vars => LInv'
<1> SUFFICES ASSUME LInv, [Next]_vars PROVE LInv'
  OBVIOUS
<1>1. ASSUME NEW c \in Nodes, Looks(c) \/ Coordinator(c) PROVE LInv'
  BY <1>1, CoordinatorKeeps, SendsKeeps DEF Coordinator
<1>2. ASSUME NEW n \in Nodes, Node(n) PROVE LInv'
  <2>1. CASE NotReady(n)
    <3>1. Abandons(n) /\ faults' \in 0 .. MaxFaults
      BY <2>1 DEF NotReady, LInv, Types
    <3> QED
      BY <3>1, AbandonsKeep
  <2> QED
    BY <1>2, <2>1, GuardsKeep, BeginsKeep, RejectsKeep, PreparesKeep, JournalsKeep, DoesKeep DEF Node
<1>3. ASSUME NEW n \in Nodes, Fails(n) PROVE LInv'
  <2>1. CASE StepFails(n)
    <3>1. Abandons(n) /\ faults' \in 0 .. MaxFaults
      BY <2>1, Constants DEF StepFails, Fault, Faults, LInv, Types
    <3> QED
      BY <3>1, AbandonsKeep
  <2> QED
    BY <1>3, <2>1, CoordinatorKeeps, GivesUpKeeps, LostKeeps, DiesKeeps, PowerKeeps DEF Fails
<1>4. CASE Saves
  BY <1>4, SavesKeeps
<1>5. CASE UNCHANGED vars
  <2>1. UNCHANGED <<desired, journal, bundle, worker, core, accepted, queue, busy, task, job, runs, faults>>
    BY <1>5 DEF vars
  <2>2. \A n \in Nodes : Out(n)' = Out(n)
    BY <2>1 DEF Out, Waiting
  <2> QED
    BY <2>1, <2>2 DEF LInv, Types, LineInv, LineAt, TaskInv, AskedInv, OpInv, NodeInv
<1> QED
  BY <1>1, <1>2, <1>3, <1>4, <1>5 DEF Next

LEMMA InLine == Spec => []LInv
  BY StartsInLine, StaysInLine, PTL DEF Spec

\* Which control planes' readings are stale, and whether one went ahead.
Marks == stale \subseteq Nodes /\ together \in BOOLEAN

LEMMA MarksAre == Spec => []Marks
<1>1. Init => Marks
  BY DEF Init, Marks
<1>2. Marks /\ [Next]_vars => Marks'
  <2> SUFFICES ASSUME Marks, [Next]_vars PROVE Marks'
    OBVIOUS
  <2>1. ASSUME NEW c \in Nodes, Looks(c) \/ Applies(c) \/ Recovers(c) \/ Refuses(c) \/ AlreadyServes(c) PROVE Marks'
    BY <2>1 DEF Looks, Applies, Recovers, Refuses, AlreadyServes, GoesAhead, Decides, Marks
  <2>2. ASSUME NEW c \in Nodes, \/ Sends(c) \/ Drifts(c) \/ Agrees(c) \/ Completes(c) \/ IsBack(c)
                                 \/ GoesBack(c) \/ NeedsRecovery(c)
        PROVE  Marks'
    BY <2>2 DEF Sends, Drifts, Agrees, Completes, IsBack, GoesBack, NeedsRecovery, Marks
  <2>3. ASSUME NEW n \in Nodes, Node(n) PROVE Marks'
    BY <2>3 DEF Node, Guards, Begins, Rejects, Prepares, Journals, StopsCore, StopsWorker, Breaks, Writes,
                StartsWorker, StartsCore, NotReady, Abandons, Step, Marks
  <2>4. ASSUME NEW n \in Nodes, Fails(n) PROVE Marks'
    BY <2>4 DEF Fails, VoicesDiffer, GivesUp, CommandLost, StepFails, Abandons, ControlPlaneDies, PowerFails, Marks
  <2>5. CASE Saves \/ UNCHANGED vars
    BY <2>5 DEF Saves, vars, Marks
  <2> QED
    BY <2>1, <2>2, <2>3, <2>4, <2>5 DEF Next, Coordinator
<1> QED
  BY <1>1, <1>2, PTL DEF Spec

\* TypeOK: every variable of the coordinators and the agents, the commands
\* between them and the journals stay within the states the code can store.
THEOREM TypeCorrect == Spec => []TypeOK
<1>1. LInv /\ Marks => TypeOK
  <2> SUFFICES ASSUME LInv, Marks PROVE TypeOK
    OBVIOUS
  <2>1. journal \in [Nodes -> [op : 0..MaxRuns, rev : 0..(2 + MaxSaves),
                              prev : 0..(2 + MaxSaves), state : JournalStates]]
    BY DEF LInv, Types, Entries
  <2>2. /\ bundle \in [Nodes -> Revisions \cup {Half}] /\ worker \in [Nodes -> Revisions \cup {Half, Stopped}]
        /\ core \in [Nodes -> Revisions \cup {Half, Stopped}]
    BY DEF LInv, Types
  <2>3. NoCommand \in [act : Actions \cup {"none"}, op : 0..MaxRuns, rev : Revisions \cup {0}, from : 0..N, left : Plans]
    <3>1. <<>> \in Plans
      BY PlanIs DEF Actions
    <3> QED
      BY <3>1, Constants DEF NoCommand, NoOne
  <2>4. Works \subseteq [act : Actions \cup {"none"}, op : 0..MaxRuns, rev : Revisions \cup {0}, from : 0..N, left : Plans]
    BY DEF Works
  <2>5. busy \in [Nodes -> [act : Actions \cup {"none"}, op : 0..MaxRuns,
                            rev : Revisions \cup {0}, from : 0..N,
                            left : UNION {Suffixes(Does(a)) : a \in Actions}]]
    BY <2>3, <2>4 DEF LInv, Types, Plans
  <2>6. \A c \in Nodes : /\ task[c].pc \in {"idle", "looking", "working", "failed"}
                         /\ task[c].pc \in {"working", "failed"} <=> job[c] = "running"
    BY DEF LInv, Types, Tasks, TaskInv, TaskOK, Active
  <2> QED
    BY <2>1, <2>2, <2>5, <2>6 DEF LInv, Types, Marks, TypeOK
<1> QED
  BY <1>1, MarksAre, InLine, PTL

\* WholeBundle: no service ever runs, nor would boot just now, from bundles of
\* which only some are replaced, even when control planes start at once.
THEOREM WholeBundles == Spec => []WholeBundle
<1>1. LInv => WholeBundle
  <2> SUFFICES ASSUME LInv, NEW n \in Nodes PROVE worker[n] # Half /\ core[n] # Half /\ (MayBoot(n) => bundle[n] # Half)
    BY DEF WholeBundle
  <2>1. worker[n] # Half /\ core[n] # Half
    BY Constants DEF LInv, Types, Half, Stopped
  <2>2. MayBoot(n) => bundle[n] # Half
    BY BootsWhole, Constants DEF LInv
  <2> QED
    BY <2>1, <2>2
<1> QED
  BY <1>1, InLine, PTL

-----------------------------------------------------------------------------
(***************************************************************************)
(* One operation at a time: what holds until a start has gone ahead beside *)
(* another control plane at work.                                          *)
(***************************************************************************)
Onward == {"prepare", "install", "worker", "core", "finish"}
Down(n) == worker[n] = Stopped /\ core[n] = Stopped

\* One control plane is at work, and what others have read beside it is stale.
SingleInv == \A c, d \in Nodes :
    /\ Active(task[c]) /\ Active(task[d]) => c = d
    /\ task[c].pc = "looking" /\ c \notin stale => ~ Active(task[d])

\* No command to prepare overtakes another.
QueueInv == \A n \in Nodes : LineAt(n, TRUE)

\* What is to be prepared is newer than the journal of its node, and no newer
\* than the journals before it in the order of the nodes; nothing else is newer.
OrderInv ==
    \A n \in Nodes : \A r \in Out(n) :
        /\ r.act = "prepare" =>
              r.op > journal[n].op /\ \A m \in Nodes : m < n => journal[m].op >= r.op
        /\ r.act \notin {"none", "prepare"} => r.op <= journal[n].op

\* An operation goes forward with one kind of command, at one node.
UniqueInv ==
    \A m, n \in Nodes : \A r \in Out(m), s \in Out(n) :
        r.act \in Onward /\ s.act \in Onward /\ r.op = s.op => r.act = s.act /\ m = n

\* What a task that goes forward has reached.
PhaseOK(t) ==
    /\ t.act = "quiesce" => \A n \in Nodes :
          /\ journal[n].state \in {"prepared", "quiesced"}
          /\ n \notin t.left => journal[n].state = "quiesced" /\ Down(n)
    /\ t.act = "install" => \A n \in Nodes :
          /\ journal[n].state \in {"quiesced", "installed"} /\ Down(n)
          /\ n \notin t.left => journal[n].state = "installed"
    /\ t.sound => \A n \in Nodes : (t.act = "end" \/ (t.act = "finish" /\ n \notin t.left)) =>
          journal[n].state = "complete" /\ Serves(n, t.rev)
ForwardOK(t, c) ==
    /\ t.nodes = Nodes
    /\ \A n \in t.got : journal[n].op = t.op /\ journal[n].rev = t.rev
    /\ t.pc = "working" => \A n \in Nodes : \A r \in Out(n) : r.op = t.op => r.from = c
PrepareOK(t) ==
    /\ t.act = "prepare" => t.got = Nodes \ t.left
    /\ t.act = "end" => t.got = Nodes
    /\ t.pc = "working" =>
          /\ \A n \in Nodes : journal[n].op = t.op => journal[n].state = "prepared"
          /\ t.act = "prepare" => \A n \in t.left : journal[n].op # t.op
CourseOK(t, c, k) ==
    /\ t.left \subseteq t.nodes
    /\ t.way # "recover" => t.op = k
    /\ t.way \in {"back", "recover"} => \A n \in t.nodes : journal[n].op >= t.op
    /\ t.way \in {"prepare", "apply"} => ForwardOK(t, c)
    /\ t.way = "prepare" => PrepareOK(t)
    /\ t.way = "apply" => t.got = Nodes /\ (t.pc = "working" => PhaseOK(t))
CourseInv == \A c \in Nodes : Active(task[c]) => CourseOK(task[c], c, runs)

\* Between operations, and on the way to and from the old revision: whatever
\* runs or is started runs revision v.
Harmless(n, v) ==
    /\ journal[n].prev = v
    /\ journal[n].state \in AtOld \cup {"quiesced", "installed"}
    /\ journal[n].state = "installed" =>
          \A r \in Out(n) : r.act = "worker" => r.op # journal[n].op
Closed(n, v) ==
    /\ bundle[n] = v
    /\ journal[n].state \in {"idle", "complete"}
    /\ journal[n].state = "complete" =>
          \A m \in Nodes : journal[m].op = journal[n].op => journal[m].state = "complete"
    /\ \A r \in Out(n) : r.act = "quiesce" => r.op # journal[n].op
    /\ \A c \in Nodes : Active(task[c]) => task[c].op # journal[n].op
    /\ \A m \in Nodes : \A r \in Out(m) : r.act = "prepare" => r.op # journal[n].op
Runs(v) == \A n \in Nodes : worker[n] \in {Stopped, v} /\ core[n] \in {Stopped, v}
Waking(t) == t.pc = "working" /\ t.way = "apply" /\ t.act \notin {"quiesce", "install"}
Calm(v) ==
    /\ Runs(v)
    /\ \A n \in Nodes : Harmless(n, v) \/ Closed(n, v)
    /\ \A c \in Nodes : ~ Waking(task[c])

\* Every bundle of operation k is installed: whatever runs or is started runs
\* its revision R, until every node is stopped to go back to P.
Quiet(n) == journal[n].state = "quiesced"
OnTheWay(n, k, R, P) ==
    /\ journal[n].op = k /\ journal[n].rev = R /\ journal[n].prev = P
    /\ journal[n].state \in AtNew \cup {"quiesced"}
    /\ runs > k => journal[n].state \in {"complete", "quiesced"}
    /\ \A r \in Out(n) : r.op = k => r.act \in {"quiesce", "worker", "core", "finish"}
    /\ Quiet(n) \/ (\E r \in Out(n) : r.op = k /\ r.act = "quiesce") =>
          \A m \in Nodes : m < n => Quiet(m)
Conducts(t) ==
    /\ t.way # "prepare"
    /\ t.pc = "working" /\ t.way = "apply" => t.act \in {"worker", "core", "finish", "end"}
    /\ t.pc = "working" /\ t.way \in {"back", "recover"} =>
          /\ t.act = "quiesce" /\ t.nodes = Nodes
          /\ \A n \in Nodes \ t.left : Quiet(n) /\ Down(n)
Going(k, R, P) ==
    /\ Runs(R)
    /\ \A n \in Nodes : OnTheWay(n, k, R, P)
    /\ \A c \in Nodes : Active(task[c]) /\ task[c].op = k => Conducts(task[c]) /\ (runs > k => Quiet(1))

Mode == \/ \E v \in Revisions : Calm(v)
        \/ \E k \in 1..runs, R, P \in Revisions : Going(k, R, P)

MInv == SingleInv /\ QueueInv /\ OrderInv /\ UniqueInv /\ CourseInv /\ Mode

LEMMA OrderStays ==
  ASSUME LInv, Flows, QueueInv, OrderInv, UniqueInv, \A n \in Nodes : journal'[n].op = journal[n].op
  PROVE  QueueInv' /\ OrderInv' /\ UniqueInv'
<1>1. ASSUME NEW n \in Nodes, NEW r \in Out(n)', r.act # "none" PROVE \E s \in Out(n) : Trace(r, s)
  BY <1>1 DEF Flows, Fewer, NoCommand
<1>2. QueueInv'
  BY DEF QueueInv, Flows, InStep
<1>3. OrderInv'
  <2>1. SUFFICES ASSUME NEW n \in Nodes, NEW r \in Out(n)', r.act # "none"
                 PROVE  /\ r.act = "prepare" =>
                              r.op > journal[n].op /\ \A m \in Nodes : m < n => journal[m].op >= r.op
                        /\ r.act \notin {"none", "prepare"} => r.op <= journal[n].op
    BY DEF OrderInv
  <2>2. PICK s \in Out(n) : Trace(r, s)
    BY <1>1, <2>1
  <2> QED
    BY <2>2 DEF Trace, OrderInv
<1>4. UniqueInv'
  <2>1. SUFFICES ASSUME NEW m \in Nodes, NEW n \in Nodes, NEW r \in Out(m)', NEW s \in Out(n)',
                        r.act \in Onward, s.act \in Onward, r.op = s.op
                 PROVE  r.act = s.act /\ m = n
    BY DEF UniqueInv
  <2>2. PICK x \in Out(m) : Trace(r, x)
    BY <1>1, <2>1 DEF Onward
  <2>3. PICK y \in Out(n) : Trace(s, y)
    BY <1>1, <2>1 DEF Onward
  <2> QED
    BY <2>1, <2>2, <2>3 DEF Trace, UniqueInv
<1> QED
  BY <1>2, <1>3, <1>4

LEMMA HarmlessStays ==
  ASSUME LInv, Flows, NEW n \in Nodes, NEW v, Harmless(n, v), journal'[n] = journal[n]
  PROVE  Harmless(n, v)'
<1>1. ASSUME NEW r \in Out(n)', r.act = "worker" PROVE \E s \in Out(n) : s.act = "worker" /\ s.op = r.op
  BY <1>1 DEF Flows, Fewer, NoCommand, Trace
<1> QED
  BY <1>1 DEF Harmless

LEMMA ClosedStays ==
  ASSUME LInv, Flows, NEW n \in Nodes, NEW v, Closed(n, v),
         journal'[n] = journal[n], bundle'[n] = bundle[n],
         \A m \in Nodes : journal'[m].op = journal[n].op =>
            journal[m].op = journal[n].op /\ (journal[m].state = "complete" => journal'[m].state = "complete"),
         \A c \in Nodes : Active(task'[c]) => Active(task[c]) /\ task'[c].op = task[c].op
  PROVE  Closed(n, v)'
<1>1. ASSUME NEW m \in Nodes, NEW r \in Out(m)', r.act # "none" PROVE \E s \in Out(m) : s.act = r.act /\ s.op = r.op
  BY <1>1 DEF Flows, Fewer, NoCommand, Trace
<1>2. ASSUME NEW r \in Out(n)', r.act = "quiesce" PROVE r.op # journal'[n].op
  BY <1>1, <1>2 DEF Closed
<1>3. ASSUME NEW m \in Nodes, NEW r \in Out(m)', r.act = "prepare" PROVE r.op # journal'[n].op
  BY <1>1, <1>3 DEF Closed
<1>4. \A c \in Nodes : Active(task'[c]) => task'[c].op # journal'[n].op
  BY DEF Closed
<1>5. journal'[n].state = "complete" =>
          \A m \in Nodes : journal'[m].op = journal'[n].op => journal'[m].state = "complete"
  BY DEF Closed
<1> QED
  BY <1>2, <1>3, <1>4, <1>5 DEF Closed

\* A node is as it was, or boots.
Boots(n) ==
    \/ worker'[n] = worker[n] /\ core'[n] = core[n]
    \/ /\ worker'[n] = IF MayBoot(n) THEN bundle[n] ELSE Stopped
       /\ core'[n] = IF MayBoot(n) THEN bundle[n] ELSE Stopped

\* Tasks fail or are lost.
Fade(c) ==
    \/ task'[c] = task[c]
    \/ task'[c] = Failed(task[c]) /\ Active(task[c])
    \/ task'[c] = Idle
Rests(c) == ~ Active(task[c]) /\ ~ Active(task'[c])

LEMMA FadeIs ==
  ASSUME LInv, NEW c \in Nodes, Fade(c) \/ Rests(c), Active(task'[c])
  PROVE  LET t == task[c]
             u == task'[c] IN
         /\ Active(t) /\ u.way = t.way /\ u.op = t.op /\ u.rev = t.rev /\ u.act = t.act /\ u.nodes = t.nodes
         /\ u.left = t.left /\ u.got = t.got /\ u.sound = t.sound /\ (u.pc = "working" => u = t)
<1>1. task[c] \in Tasks
  BY DEF LInv, Types
<1>2. task'[c] # Idle
  BY IdleIs DEF Active
<1>3. CASE task'[c] = task[c]
  BY <1>3
<1>4. CASE task'[c] = Failed(task[c]) /\ Active(task[c])
  <2>1. FailedAs(task'[c], task[c])
    BY <1>1, <1>4, FailedIsSo
  <2>2. task'[c].pc # "working"
    BY <2>1 DEF FailedAs
  <2> QED
    BY <1>4, <2>1, <2>2 DEF FailedAs
<1> QED
  BY <1>2, <1>3, <1>4 DEF Fade, Rests

LEMMA CourseFades ==
  ASSUME LInv, CourseInv, Flows, UNCHANGED <<journal, bundle>>, runs' = runs, \A c \in Nodes : Fade(c) \/ Rests(c),
         \A n \in Nodes : Boots(n)
  PROVE  CourseInv'
<1> SUFFICES ASSUME NEW c \in Nodes, Active(task'[c])
             PROVE  CourseOK(task[c], c, runs)'
  BY DEF CourseInv, Active
<1> DEFINE t == task[c]
           u == task'[c]
<1>1. /\ Active(t) /\ u.way = t.way /\ u.op = t.op /\ u.rev = t.rev /\ u.act = t.act /\ u.nodes = t.nodes
      /\ u.left = t.left /\ u.got = t.got /\ u.sound = t.sound /\ (u.pc = "working" => u = t)
  BY FadeIs
<1>2. CourseOK(t, c, runs)
  BY <1>1 DEF CourseInv
<1>3. ASSUME t.way \in {"prepare", "apply"}, u.pc = "working", NEW n \in Nodes, NEW r \in Out(n)', r.op = t.op
      PROVE  r.from = c
  <2>1. t.op # 0
    BY <1>1 DEF LInv, TaskInv, TaskOK, Types
  <2>2. PICK s \in Out(n) : Trace(r, s)
    BY <1>3, <2>1 DEF Flows, Fewer, NoCommand
  <2>3. s.from = c
    BY <1>1, <1>2, <1>3, <2>2 DEF CourseOK, ForwardOK, Trace
  <2> QED
    BY <1>1, <1>3, <2>2, <2>3 DEF Trace
<1>4. t.way \in {"prepare", "apply"} => ForwardOK(task[c], c)'
  BY <1>1, <1>2, <1>3 DEF CourseOK, ForwardOK
<1>5. t.way = "prepare" => PrepareOK(task[c])'
  BY <1>1, <1>2 DEF CourseOK, PrepareOK
<1>6. ASSUME NEW n \in Nodes, journal[n].state \in {"quiesced", "installed"}, Down(n) PROVE Down(n)'
  BY <1>6 DEF Boots, Down, MayBoot, Pausing
<1>7. ASSUME NEW n \in Nodes, journal[n].state = "complete", journal[n].rev = t.rev, Serves(n, t.rev)
      PROVE  worker'[n] = t.rev /\ core'[n] = t.rev
  <2>1. bundle[n] = t.rev
    BY <1>7 DEF LInv, NodeInv, JournalOK, AtNew
  <2> QED
    BY <1>7, <2>1 DEF Boots, Serves, MayBoot, Pausing
<1>8. t.way = "apply" /\ u.pc = "working" => PhaseOK(task[c])'
  <2>1. SUFFICES ASSUME t.way = "apply", u.pc = "working" PROVE PhaseOK(task[c])'
    OBVIOUS
  <2>2. PhaseOK(t) /\ \A n \in Nodes : journal[n].rev = t.rev
    BY <1>1, <1>2, <2>1 DEF CourseOK, ForwardOK
  <2>3. t.act = "quiesce" => \A n \in Nodes :
          /\ journal'[n].state \in {"prepared", "quiesced"}
          /\ n \notin t.left => journal'[n].state = "quiesced" /\ Down(n)'
    BY <1>6, <2>2 DEF PhaseOK
  <2>4. t.act = "install" => \A n \in Nodes :
          /\ journal'[n].state \in {"quiesced", "installed"} /\ Down(n)'
          /\ n \notin t.left => journal'[n].state = "installed"
    BY <1>6, <2>2 DEF PhaseOK
  <2>5. t.sound => \A n \in Nodes : (t.act = "end" \/ (t.act = "finish" /\ n \notin t.left)) =>
          journal'[n].state = "complete" /\ worker'[n] = t.rev /\ core'[n] = t.rev
    BY <1>7, <2>2 DEF PhaseOK
  <2> QED
    BY <1>1, <2>1, <2>3, <2>4, <2>5 DEF PhaseOK, Serves
<1> QED
  BY <1>1, <1>2, <1>4, <1>5, <1>8 DEF CourseOK

LEMMA ModeFades ==
  ASSUME LInv, MInv, Flows, UNCHANGED <<journal, bundle>>, runs' = runs, \A c \in Nodes : Fade(c) \/ Rests(c),
         \A n \in Nodes : Boots(n)
  PROVE  Mode'
<1>1. ASSUME NEW c \in Nodes, Active(task'[c])
      PROVE  /\ Active(task[c]) /\ task'[c].op = task[c].op /\ task'[c].way = task[c].way /\ task'[c].act = task[c].act
             /\ task'[c].nodes = task[c].nodes /\ task'[c].left = task[c].left
             /\ task'[c].pc = "working" => task[c].pc = "working"
  BY <1>1, FadeIs
<1>2. ASSUME NEW v \in Revisions, Runs(v), \A n \in Nodes : MayBoot(n) => bundle[n] = v PROVE Runs(v)'
  BY <1>2 DEF Runs, Boots
<1>3. ASSUME NEW v \in Revisions, Calm(v) PROVE Calm(v)'
  <2>1. \A n \in Nodes : MayBoot(n) => bundle[n] = v
    <3>1. SUFFICES ASSUME NEW n \in Nodes, MayBoot(n) PROVE bundle[n] = v
      OBVIOUS
    <3>2. CASE Harmless(n, v)
      BY <3>1, <3>2 DEF Harmless, MayBoot, Pausing, AtOld, LInv, NodeInv, JournalOK
    <3>3. CASE Closed(n, v)
      BY <3>3 DEF Closed
    <3> QED
      BY <1>3, <3>2, <3>3 DEF Calm
  <2>2. \A n \in Nodes : Harmless(n, v)' \/ Closed(n, v)'
    BY <1>1, <1>3, HarmlessStays, ClosedStays DEF Calm
  <2>3. \A c \in Nodes : ~ Waking(task'[c])
    BY <1>1, <1>3 DEF Calm, Waking, Active
  <2> QED
    BY <1>2, <1>3, <2>1, <2>2, <2>3 DEF Calm, Waking
<1>4. ASSUME NEW k \in 1 .. runs, NEW R \in Revisions, NEW P \in Revisions, Going(k, R, P) PROVE Going(k, R, P)'
  <2>1. \A n \in Nodes : MayBoot(n) => bundle[n] = R
    BY <1>4 DEF Going, OnTheWay, MayBoot, Pausing, AtNew, LInv, NodeInv, JournalOK
  <2>2. Runs(R)'
    BY <1>2, <1>4, <2>1 DEF Going
  <2>3. ASSUME NEW n \in Nodes PROVE OnTheWay(n, k, R, P)'
    <3>1. OnTheWay(n, k, R, P)
      BY <1>4 DEF Going
    <3>2. ASSUME NEW r \in Out(n)', r.op = k PROVE \E s \in Out(n) : s.act = r.act /\ s.op = k
      <4>1. r.op # 0
        BY <3>2, Constants DEF LInv, Types
      <4> QED
        BY <3>2, <4>1 DEF Flows, Fewer, NoCommand, Trace
    <3>3. \A m \in Nodes : Quiet(m)' <=> Quiet(m)
      BY DEF Quiet
    <3>4. \A r \in Out(n)' : r.op = k => r.act \in {"quiesce", "worker", "core", "finish"}
      BY <3>1, <3>2 DEF OnTheWay
    <3>5. Quiet(n)' \/ (\E r \in Out(n)' : r.op = k /\ r.act = "quiesce") => \A m \in Nodes : m < n => Quiet(m)'
      BY <3>1, <3>2, <3>3 DEF OnTheWay
    <3> QED
      BY <3>1, <3>4, <3>5 DEF OnTheWay
  <2>4. ASSUME NEW n \in Nodes, Quiet(n), Down(n) PROVE Quiet(n)' /\ Down(n)'
    BY <2>4 DEF Quiet, Down, Boots, MayBoot, Pausing
  <2>5. ASSUME NEW c \in Nodes, Active(task'[c]), task'[c].op = k
        PROVE  Conducts(task[c])' /\ (runs > k => Quiet(1)')
    <3>1. Conducts(task[c]) /\ (runs > k => Quiet(1))
      BY <1>1, <1>4, <2>5 DEF Going
    <3>2. Quiet(1)' <=> Quiet(1)
      BY DEF Quiet
    <3> QED
      BY <1>1, <2>4, <2>5, <3>1, <3>2 DEF Conducts
  <2> QED
    BY <2>2, <2>3, <2>5 DEF Going, Active
<1>5. CASE \E v \in Revisions : Calm(v)
  BY <1>3, <1>5 DEF Mode
<1>6. CASE \E k \in 1 .. runs, R \in Revisions, P \in Revisions : Going(k, R, P)
  BY <1>4, <1>6 DEF Mode
<1> QED
  BY <1>5, <1>6 DEF MInv, Mode

LEMMA FadesHold ==
  ASSUME LInv, MInv, Flows, UNCHANGED <<journal, bundle>>, runs' = runs, \A c \in Nodes : Fade(c) \/ Rests(c),
         \A n \in Nodes : Boots(n), SingleInv'
  PROVE  MInv'
<1>1. QueueInv' /\ OrderInv' /\ UniqueInv'
  BY OrderStays DEF MInv
<1>2. CourseInv'
  BY CourseFades DEF MInv
<1>3. Mode'
  BY ModeFades
<1> QED
  BY <1>1, <1>2, <1>3 DEF MInv

\* No reading that was stale is taken for a good one.
StaysStale == \A c \in Nodes : c \in stale => c \in stale' \/ task'[c] = Idle

LEMMA FailsHold ==
  ASSUME LInv, MInv, Flows, UNCHANGED <<journal, bundle>>, runs' = runs, \A c \in Nodes : Fade(c),
         \A n \in Nodes : Boots(n), StaysStale
  PROVE  MInv'
<1>1. \A c \in Nodes : Active(task'[c]) => Active(task[c])
  BY FadeIs
<1>2. ASSUME NEW c \in Nodes, task'[c].pc = "looking", c \notin stale'
      PROVE  task[c].pc = "looking" /\ c \notin stale
  <2>1. task'[c] # Idle
    BY <1>2, IdleIs
  <2>2. CASE task'[c] = task[c]
    BY <1>2, <2>1, <2>2 DEF StaysStale
  <2>3. CASE task'[c] = Failed(task[c])
    BY <1>2, <2>3, FailedIs DEF LInv, Types
  <2> QED
    BY <2>1, <2>2, <2>3 DEF Fade
<1>3. SingleInv'
  <2>1. \A c, d \in Nodes : Active(task'[c]) /\ Active(task'[d]) => c = d
    BY <1>1 DEF MInv, SingleInv
  <2>2. \A c, d \in Nodes : task'[c].pc = "looking" /\ c \notin stale' => ~ Active(task'[d])
    BY <1>1, <1>2 DEF MInv, SingleInv
  <2> QED
    BY <2>1, <2>2 DEF SingleInv, Active
<1> QED
  BY <1>3, FadesHold

LEMMA TellsFade ==
  ASSUME LInv, NEW n \in Nodes, NEW r \in Out(n),
         task' = IF r.from = NoOne THEN task ELSE [task EXCEPT ![r.from] = Failed(task[r.from])]
  PROVE  \A c \in Nodes : Fade(c)
<1>1. CASE r.from = NoOne
  BY <1>1 DEF Fade
<1>2. CASE r.from # NoOne
  <2>1. r.from \in Nodes /\ Active(task[r.from])
    BY <1>2, Waits DEF LInv
  <2> QED
    BY <1>2, <2>1 DEF Fade, LInv, Types
<1> QED
  BY <1>1, <1>2

LEMMA LosesFade ==
  ASSUME LInv, NEW c \in Nodes, NEW lost, \A d \in lost : d # NoOne => \E n \in Nodes : \E r \in Out(n) : r.from = d,
         task' = [d \in Nodes |-> IF d = c THEN Idle ELSE IF d \in lost THEN Failed(task[d]) ELSE task[d]]
  PROVE  \A d \in Nodes : Fade(d)
<1>1. \A d \in Nodes : d \in lost => Active(task[d])
  BY Waits, Constants DEF LInv
<1> QED
  BY <1>1 DEF Fade

\* A node takes or refuses a command, or something fails.
LEMMA FailuresHold ==
  ASSUME LInv, MInv, NEW n \in Nodes,
         \/ Guards(n) \/ Begins(n) \/ Rejects(n) \/ Abandons(n)
         \/ GivesUp(n) \/ CommandLost(n) \/ ControlPlaneDies(n) \/ PowerFails(n)
  PROVE  MInv'
<1>0. StaysStale
  <2>1. CASE stale' = stale
    BY <2>1 DEF StaysStale
  <2>2. CASE ControlPlaneDies(n) \/ PowerFails(n)
    <3>1. stale' = stale \ {n} /\ task'[n] = Idle
      BY <2>2 DEF ControlPlaneDies, PowerFails
    <3> QED
      BY <3>1 DEF StaysStale
  <2> QED
    BY <2>1, <2>2 DEF Guards, Begins, Rejects, Abandons, GivesUp, CommandLost
<1>1. \A m \in Nodes : UNCHANGED <<worker, core>> => Boots(m)
  BY DEF Boots
<1>2. task' = task => \A c \in Nodes : Fade(c)
  BY DEF Fade
<1>3. CASE Guards(n)
  <2> DEFINE r == Head(accepted[n])
  <2>1. r \in Out(n)
    <3>1. accepted[n] \in Seq(Commands) /\ accepted[n] # <<>>
      BY <1>3 DEF Guards, LInv, Types
    <3> QED
      BY <3>1, ElementsAre DEF Out, Waiting
  <2>2. /\ UNCHANGED <<journal, bundle, worker, core, runs>>
        /\ \/ task' = task
           \/ task' = IF r.from = NoOne THEN task ELSE [task EXCEPT ![r.from] = Failed(task[r.from])]
    BY <1>3 DEF Guards, Tell, agent
  <2>3. Flows
    BY <1>3, GuardsFlows DEF LInv
  <2>4. \A c \in Nodes : Fade(c)
    BY <1>2, <2>1, <2>2, TellsFade
  <2> QED
    BY <1>0, <1>1, <2>2, <2>3, <2>4, FailsHold
<1>4. CASE Begins(n)
  <2>1. UNCHANGED <<journal, bundle, worker, core, runs, task>>
    BY <1>4 DEF Begins, agent
  <2>2. Flows
    BY <1>4, TakenFlows DEF LInv
  <2> QED
    BY <1>0, <1>1, <1>2, <2>1, <2>2, FailsHold
<1>5. CASE Rejects(n)
  <2> DEFINE r == Head(queue[n])
  <2>1. r \in Out(n)
    <3>1. queue[n] \in Seq(Commands) /\ queue[n] # <<>>
      BY <1>5 DEF Rejects, LInv, Types
    <3> QED
      BY <3>1, ElementsAre DEF Out, Waiting
  <2>2. /\ UNCHANGED <<journal, bundle, worker, core, runs>>
        /\ task' = IF r.from = NoOne THEN task ELSE [task EXCEPT ![r.from] = Failed(task[r.from])]
    BY <1>5 DEF Rejects, Tell, agent
  <2>3. Flows
    BY <1>5, TakenFlows DEF LInv
  <2>4. \A c \in Nodes : Fade(c)
    BY <2>1, <2>2, TellsFade
  <2> QED
    BY <1>0, <1>1, <2>2, <2>3, <2>4, FailsHold
<1>6. CASE Abandons(n)
  <2> DEFINE r == busy[n]
  <2>1. r \in Out(n)
    BY DEF Out
  <2>2. /\ UNCHANGED <<journal, bundle, worker, core, runs>>
        /\ task' = IF r.from = NoOne THEN task ELSE [task EXCEPT ![r.from] = Failed(task[r.from])]
    BY <1>6 DEF Abandons, Tell, agent
  <2>3. Flows
    BY <1>6, AbandonsFlows DEF LInv
  <2>4. \A c \in Nodes : Fade(c)
    BY <2>1, <2>2, TellsFade
  <2> QED
    BY <1>0, <1>1, <2>2, <2>3, <2>4, FailsHold
<1>7. CASE GivesUp(n) \/ CommandLost(n)
  <2>1. /\ UNCHANGED <<journal, bundle, worker, core, runs>> /\ task[n].waits
        /\ task' = [task EXCEPT ![n] = Failed(task[n])]
    BY <1>7 DEF GivesUp, CommandLost, agent
  <2>2. Active(task[n])
    BY <2>1 DEF LInv, TaskInv, TaskOK, Active
  <2>3. Flows
    BY <1>7, GivesUpFlows, LostFlows DEF LInv
  <2>4. \A c \in Nodes : Fade(c)
    BY <2>1, <2>2 DEF Fade, LInv, Types
  <2> QED
    BY <1>0, <1>1, <2>1, <2>3, <2>4, FailsHold
<1>8. CASE ControlPlaneDies(n)
  <2> DEFINE lost == {accepted[n][i].from : i \in DOMAIN accepted[n]}
  <2>1. /\ UNCHANGED <<journal, bundle, worker, core, runs>>
        /\ task' = [d \in Nodes |-> IF d = n THEN Idle ELSE IF d \in lost THEN Failed(task[d]) ELSE task[d]]
    BY <1>8 DEF ControlPlaneDies, agent
  <2>2. \A d \in lost : d # NoOne => \E m \in Nodes : \E r \in Out(m) : r.from = d
    BY DEF Out, Waiting, Elements
  <2>3. Flows
    BY <1>8, DiesFlows DEF LInv
  <2> HIDE DEF lost
  <2>4. \A c \in Nodes : Fade(c)
    BY <2>1, <2>2, LosesFade
  <2> QED
    BY <1>0, <1>1, <2>1, <2>3, <2>4, FailsHold
<1>9. CASE PowerFails(n)
  <2> DEFINE lost == {accepted[n][i].from : i \in DOMAIN accepted[n]} \cup {busy[n].from}
                \cup {queue[n][i].from : i \in DOMAIN queue[n]}
  <2>1. /\ UNCHANGED <<journal, bundle, runs>>
        /\ task' = [d \in Nodes |-> IF d = n THEN Idle ELSE IF d \in lost THEN Failed(task[d]) ELSE task[d]]
        /\ worker' = [worker EXCEPT ![n] = IF MayBoot(n) THEN bundle[n] ELSE Stopped]
        /\ core' = [core EXCEPT ![n] = IF MayBoot(n) THEN bundle[n] ELSE Stopped]
    BY <1>9 DEF PowerFails
  <2>2. \A d \in lost : d # NoOne => \E m \in Nodes : \E r \in Out(m) : r.from = d
    BY DEF Out, Waiting, Elements
  <2>3. Flows
    BY <1>9, PowerFlows DEF LInv
  <2> HIDE DEF lost
  <2>4. \A c \in Nodes : Fade(c)
    BY <2>1, <2>2, LosesFade
  <2>5. \A m \in Nodes : Boots(m)
    BY <2>1 DEF Boots, LInv, Types
  <2> QED
    BY <1>0, <2>1, <2>3, <2>4, <2>5, FailsHold
<1> QED
  BY <1>3, <1>4, <1>5, <1>6, <1>7, <1>8, <1>9

\* One coordinator goes on, the others stand still; no node is touched.
LEMMA TurnHolds ==
  ASSUME LInv, MInv, NEW c \in Nodes, NEW u \in Tasks, task' = [task EXCEPT ![c] = u], ~ task[c].waits,
         UNCHANGED <<agent, wire>>, runs' \in {runs, runs + 1},
         \A d \in Nodes : d # c => ~ Active(task[d]), SingleInv',
         Active(u) => CourseOK(u, c, runs'),
         ~ Waking(u) \/ \A v \in Revisions : ~ Calm(v),
         \A v \in Revisions, n \in Nodes : Calm(v) /\ Closed(n, v) /\ Active(u) => u.op # journal[n].op,
         \A k \in 1 .. runs, R, P \in Revisions : Going(k, R, P) =>
            /\ Active(u) /\ u.op = k => Conducts(u) /\ (runs' > k => Quiet(1))
            /\ runs' # runs => \A n \in Nodes : journal[n].state = "complete"
  PROVE  MInv'
<1>1. /\ task'[c] = u /\ \A d \in Nodes : d # c => task'[d] = task[d] /\ ~ Active(task'[d])
      /\ runs \in Nat
  BY Constants DEF LInv, Types
<1>2. UNCHANGED <<journal, bundle, worker, core, accepted, queue, busy>>
  BY DEF agent, wire
<1>3. \A n \in Nodes : Out(n)' = Out(n) /\ Down(n)' = Down(n) /\ Quiet(n)' = Quiet(n)
  BY <1>2 DEF Out, Waiting, Down, Quiet
<1>4. SingleInv'
  OBVIOUS
<1>5. QueueInv' /\ OrderInv' /\ UniqueInv'
  <2>1. Flows
    BY <1>1, <1>2, TaskFlows DEF LInv
  <2> QED
    BY <1>2, <2>1, OrderStays DEF MInv
<1>6. CourseInv'
  <2>1. SUFFICES ASSUME Active(u) PROVE CourseOK(task[c], c, runs)'
    BY <1>1 DEF CourseInv
  <2>2. CourseOK(u, c, runs')
    BY <2>1
  <2>3. u.way \in {"prepare", "apply"} => ForwardOK(task[c], c)'
    BY <1>1, <1>2, <1>3, <2>2 DEF CourseOK, ForwardOK
  <2>4. u.way = "prepare" => PrepareOK(task[c])'
    BY <1>1, <1>2, <2>2 DEF CourseOK, PrepareOK
  <2>5. PhaseOK(u) => PhaseOK(task[c])'
    BY <1>1, <1>2, <1>3 DEF PhaseOK, Serves
  <2> QED
    BY <1>1, <1>2, <2>2, <2>3, <2>4, <2>5 DEF CourseOK
<1>7. ASSUME NEW v \in Revisions, Calm(v) PROVE Calm(v)'
  <2>1. Runs(v)'
    BY <1>2, <1>7 DEF Calm, Runs
  <2>2. ASSUME NEW n \in Nodes PROVE Harmless(n, v)' \/ Closed(n, v)'
    <3>1. CASE Harmless(n, v)
      BY <1>2, <1>3, <3>1 DEF Harmless
    <3>2. CASE Closed(n, v)
      <4>1. \A d \in Nodes : Active(task'[d]) => task'[d].op # journal[n].op
        BY <1>1, <1>7, <3>2
      <4> QED
        BY <1>2, <1>3, <3>2, <4>1 DEF Closed
    <3> QED
      BY <1>7, <3>1, <3>2 DEF Calm
  <2>3. \A d \in Nodes : ~ Waking(task'[d])
    <3>1. ~ Waking(u)
      BY <1>7
    <3> QED
      BY <1>1, <3>1 DEF Waking, Active
  <2> QED
    BY <2>1, <2>2, <2>3 DEF Calm, Waking
<1>8. ASSUME NEW k \in 1 .. runs, NEW R \in Revisions, NEW P \in Revisions, Going(k, R, P)
      PROVE  Going(k, R, P)' /\ k \in 1 .. runs'
  <2>1. Runs(R)'
    BY <1>2, <1>8 DEF Going, Runs
  <2>2. ASSUME NEW n \in Nodes PROVE OnTheWay(n, k, R, P)'
    <3>1. OnTheWay(n, k, R, P)
      BY <1>8 DEF Going
    <3>2. runs' > k => journal[n].state \in {"complete", "quiesced"}
      BY <1>8, <3>1 DEF OnTheWay
    <3> QED
      BY <1>2, <1>3, <3>1, <3>2 DEF OnTheWay
  <2>3. Active(u) /\ u.op = k => Conducts(task[c])' /\ (runs' > k => Quiet(1)')
    <3>1. Quiet(1)' = Quiet(1)
      BY <1>2 DEF Quiet
    <3>2. Conducts(u) => Conducts(task[c])'
      BY <1>1, <1>3 DEF Conducts
    <3> QED
      BY <1>8, <3>1, <3>2
  <2>4. k \in 1 .. runs'
    BY <1>1
  <2> QED
    BY <1>1, <2>1, <2>2, <2>3, <2>4 DEF Going
<1>9. Mode'
  <2>1. CASE \E v \in Revisions : Calm(v)
    BY <1>7, <2>1 DEF Mode
  <2>2. CASE \E k \in 1 .. runs, R \in Revisions, P \in Revisions : Going(k, R, P)
    BY <1>8, <2>2 DEF Mode
  <2> QED
    BY <2>1, <2>2 DEF MInv, Mode
<1> QED
  BY <1>4, <1>5, <1>6, <1>9 DEF MInv

\* While one is at work no other is, nor becomes so.
LEMMA ActiveTurn ==
  ASSUME LInv, MInv, NEW c \in Nodes, NEW u, task' = [task EXCEPT ![c] = u], u.pc # "looking",
         Active(task[c]), stale' = stale
  PROVE  SingleInv' /\ \A d \in Nodes : d # c => ~ Active(task[d])
<1>1. \A d \in Nodes : d # c => ~ Active(task[d]) /\ task'[d] = task[d]
  BY DEF MInv, SingleInv
<1>2. task'[c] = u
  BY DEF LInv, Types
<1>3. \A d \in Nodes : task[d].pc = "looking" => d \in stale
  BY DEF MInv, SingleInv
<1> QED
  BY <1>1, <1>2, <1>3 DEF SingleInv, Active

\* Who goes ahead on a good reading is alone at work; no other reading is good.
LEMMA StartTurn ==
  ASSUME LInv, MInv, NEW c \in Nodes, NEW u, GoesAhead(c, u), c \notin stale, u.pc = "working"
  PROVE  SingleInv' /\ \A d \in Nodes : d # c => ~ Active(task[d])
<1>1. \A d \in Nodes : ~ Active(task[d])
  BY DEF MInv, SingleInv, GoesAhead, Decides
<1>2. task'[c] = u /\ \A d \in Nodes : d # c => task'[d] = task[d]
  BY DEF GoesAhead, LInv, Types
<1>3. \A d \in Nodes : task'[d].pc = "looking" => d \in stale'
  BY <1>2 DEF GoesAhead
<1> QED
  BY <1>1, <1>2, <1>3 DEF SingleInv, Active

\* A coordinator stands by, or fails.
LEMMA FailedTurnHolds ==
  ASSUME LInv, MInv, NEW c \in Nodes, UNCHANGED <<agent, wire, runs, stale>>, Active(task[c]),
         \/ task' = [task EXCEPT ![c] = Idle] /\ ~ task[c].waits
         \/ task' = [task EXCEPT ![c] = Failed(task[c])] /\ ~ task[c].waits /\ task[c].pc = "working"
  PROVE  MInv'
<1> DEFINE t == task[c]
<1>1. CASE task' = [task EXCEPT ![c] = Idle] /\ ~ t.waits
  <2>1. Idle \in Tasks /\ ~ Active(Idle) /\ ~ Waking(Idle) /\ Idle.pc # "looking"
    BY IdleIs DEF Active, Waking
  <2>2. SingleInv' /\ \A d \in Nodes : d # c => ~ Active(task[d])
    BY <1>1, <2>1, ActiveTurn
  <2> QED
    BY <1>1, <2>1, <2>2, TurnHolds
<1>2. CASE task' = [task EXCEPT ![c] = Failed(t)] /\ ~ t.waits /\ t.pc = "working"
  <2> DEFINE u == Failed(t)
  <2>1. t \in Tasks /\ Active(t) /\ CourseOK(t, c, runs)
    BY <1>2 DEF LInv, Types, Active, MInv, CourseInv
  <2>2. /\ u \in Tasks /\ u.pc = "failed" /\ u.way = t.way /\ u.op = t.op /\ u.rev = t.rev /\ u.act = t.act
        /\ u.nodes = t.nodes /\ u.left = t.left /\ u.got = t.got /\ u.sound = t.sound
    BY <2>1, FailedIs
  <2>3. task' = [task EXCEPT ![c] = u]
    BY <1>2
  <2> HIDE DEF u
  <2>4. CourseOK(u, c, runs)
    BY <2>1, <2>2 DEF CourseOK, ForwardOK, PrepareOK
  <2>5. ~ Waking(u)
    BY <2>2 DEF Waking
  <2>6. \A v \in Revisions, n \in Nodes : Closed(n, v) => u.op # journal[n].op
    BY <2>1, <2>2 DEF Closed
  <2>7. ASSUME NEW k \in 1 .. runs, NEW R \in Revisions, NEW P \in Revisions, Going(k, R, P), u.op = k
        PROVE  Conducts(u) /\ (runs > k => Quiet(1))
    <3>1. Conducts(t) /\ (runs > k => Quiet(1))
      BY <2>1, <2>2, <2>7 DEF Going
    <3> QED
      BY <2>2, <3>1 DEF Conducts
  <2>8. runs' = runs /\ UNCHANGED <<agent, wire>> /\ ~ task[c].waits /\ u \in Tasks
    BY <1>2, <2>2
  <2>9. SingleInv' /\ \A d \in Nodes : d # c => ~ Active(task[d])
    BY <2>2, <2>3, ActiveTurn
  <2>10. \A k \in 1 .. runs, R, P \in Revisions : Going(k, R, P) =>
            /\ Active(u) /\ u.op = k => Conducts(u) /\ (runs' > k => Quiet(1))
            /\ runs' # runs => \A n \in Nodes : journal[n].state = "complete"
    BY <2>7, <2>8
  <2>11. CourseOK(u, c, runs') /\ runs' \in {runs, runs + 1}
    BY <2>4, <2>8
  <2> HIDE DEF t
  <2> QED
    BY <2>3, <2>5, <2>6, <2>8, <2>9, <2>10, <2>11, TurnHolds
<1> QED
  BY <1>1, <1>2

\* What is pending is neither of a closed node's operation nor complete.
LEMMA PendingIs ==
  ASSUME LInv, NEW n \in Pending
  PROVE  /\ n \in Nodes /\ journal[n] \in Entries /\ journal[n].op # 0 /\ journal[n].op <= runs
         /\ journal[n].state \notin {"idle", "complete", "rolled_back"} /\ journal[n].rev \in Revisions
<1>1. n \in Nodes /\ journal[n].state \notin {"idle", "complete", "rolled_back"}
  BY DEF Pending, Terminal
<1> QED
  BY <1>1 DEF LInv, Types, NodeInv, JournalOK, OpInv

\* A coordinator looks, or has looked and does nothing.
LEMMA LooksHold ==
  ASSUME LInv, MInv, NEW c \in Nodes, Looks(c) \/ Refuses(c) \/ AlreadyServes(c)
  PROVE  MInv'
<1>1. PICK u : task' = [task EXCEPT ![c] = u] /\ u.pc \in {"idle", "looking"}
               /\ (u.pc = "looking" => Looks(c))
  <2>1. CASE Looks(c)
    <3> DEFINE v == [task[c] EXCEPT !.pc = "looking", !.rev = desired]
    <3>1. task' = [task EXCEPT ![c] = v] /\ v.pc = "looking"
      BY <2>1 DEF Looks, LInv, Types, Tasks
    <3> QED
      BY <2>1, <3>1
  <2>2. CASE Refuses(c) \/ AlreadyServes(c)
    <3>1. task' = [task EXCEPT ![c] = Idle]
      BY <2>2 DEF Refuses, AlreadyServes, Ends
    <3> QED
      BY <3>1, IdleIs
  <2> QED
    BY <2>1, <2>2
<1>2. /\ task[c] \in Tasks /\ task[c].pc \in {"idle", "looking"} /\ ~ task[c].waits
      /\ UNCHANGED <<journal, bundle, worker, core, accepted, queue, busy, runs>>
  BY DEF Looks, Refuses, AlreadyServes, Decides, agent, wire, LInv, Types, TaskInv, TaskOK
<1>3. task'[c] = u /\ \A d \in Nodes : d # c => task'[d] = task[d]
  BY <1>1 DEF LInv, Types
<1>4. \A d \in Nodes : Fade(d) \/ Rests(d)
  BY <1>1, <1>2, <1>3 DEF Fade, Rests, Active
<1>5. \A n \in Nodes : Boots(n)
  BY <1>2 DEF Boots
<1>6. Flows
  BY <1>2, <1>3, TaskFlows DEF LInv
<1>7. SingleInv'
  <2>1. \A d \in Nodes : Active(task'[d]) => Active(task[d])
    BY <1>1, <1>3 DEF Active
  <2>2. ASSUME NEW d \in Nodes, task'[d].pc = "looking", d \notin stale', NEW e \in Nodes, Active(task[e]) PROVE FALSE
    <3>1. CASE d = c
      <4>1. Looks(c)
        BY <1>1, <1>3, <2>2, <3>1
      <4> QED
        BY <2>2, <3>1, <4>1 DEF Looks, AtWork, Active
    <3>2. CASE d # c
      <4>1. task[d].pc = "looking" /\ d \notin stale
        BY <1>3, <2>2, <3>2 DEF Looks, Refuses, AlreadyServes
      <4> QED
        BY <2>2, <4>1 DEF MInv, SingleInv
    <3> QED
      BY <3>1, <3>2
  <2> QED
    BY <2>1, <2>2 DEF MInv, SingleInv, Active
<1> QED
  BY <1>2, <1>4, <1>5, <1>6, <1>7, FadesHold

LEMMA AppliesHold ==
  ASSUME LInv, MInv, NEW c \in Nodes, Applies(c), ~ together'
  PROVE  MInv'
<1> DEFINE t == task[c]
           b == [Idle EXCEPT !.op = runs + 1, !.rev = t.rev]
           u == Asks(b, "prepare", "prepare", Nodes)
<1>1. /\ task' = [task EXCEPT ![c] = u] /\ t.pc = "looking" /\ runs' = runs + 1 /\ UNCHANGED <<agent, wire>>
      /\ Pending = {} /\ MayBegin /\ GoesAhead(c, u) /\ c \notin stale
  BY DEF Applies, GoesAhead, Decides
<1>2. /\ t \in Tasks /\ ~ t.waits /\ t.rev \in Revisions /\ runs \in Nat /\ runs + 1 \in 0 .. MaxRuns
  <2>1. t \in Tasks /\ ~ t.waits /\ t.rev \in Revisions
    BY <1>1 DEF LInv, Types, TaskInv, TaskOK
  <2>2. runs \in Nat /\ runs < MaxRuns /\ MaxRuns \in Nat
    BY <1>1, Constants DEF MayBegin, LInv, Types
  <2> QED
    BY <2>1, <2>2
<1>3. b \in Tasks /\ b.op = runs + 1 /\ b.rev = t.rev /\ b.got = {} /\ b.sound = TRUE /\ b.waits = FALSE
  BY <1>2, IdleIs, Constants DEF Tasks
<1> HIDE DEF b
<1>4. /\ u \in Tasks /\ u.pc = "working" /\ u.way = "prepare" /\ u.nodes = Nodes /\ u.left = Nodes
      /\ u.act = "prepare" /\ u.op = runs + 1 /\ u.got = {}
  <2>1. "prepare" \in Actions
    BY DEF Actions
  <2> QED
    BY <1>3, <2>1, AsksIs, Constants
<1> HIDE DEF u
<1>5. \A n \in Nodes : journal[n].op # runs + 1 /\ journal[n].op \in Nat
  <2>1. \A n \in Nodes : journal[n].op <= runs /\ journal[n].op \in Nat
    BY Constants DEF LInv, OpInv, Types, Entries
  <2> QED
    BY <1>2, <2>1
<1>6. \A n \in Nodes : \A r \in Out(n) : r.op # runs + 1
  <2>1. SUFFICES ASSUME NEW n \in Nodes, NEW r \in Out(n), r.op = runs + 1 PROVE FALSE
    OBVIOUS
  <2>2. r.act # "none"
    BY <1>2, <2>1, OutIs DEF LInv, NoCommand
  <2>3. r.op \in 1 .. runs
    BY <2>2 DEF LInv, OpInv
  <2> QED
    BY <1>2, <2>1, <2>3
<1>7. CourseOK(u, c, runs')
  BY <1>1, <1>4, <1>5, <1>6 DEF CourseOK, ForwardOK, PrepareOK
<1>8. ~ Waking(u)
  BY <1>4 DEF Waking
<1>9. \A k \in 1 .. runs : u.op # k
  BY <1>2, <1>4
<1>10. ASSUME NEW k \in 1 .. runs, NEW R \in Revisions, NEW P \in Revisions, Going(k, R, P), NEW n \in Nodes
       PROVE  journal[n].state = "complete"
  <2>1. journal[n].state \in Terminal \cup {"idle"}
    BY <1>1 DEF Pending
  <2>2. journal[n].state \in AtNew \cup {"quiesced"}
    BY <1>10 DEF Going, OnTheWay
  <2> QED
    BY <2>1, <2>2 DEF Terminal, AtNew
<1>11. SingleInv' /\ \A d \in Nodes : d # c => ~ Active(task[d])
  BY <1>1, <1>4, StartTurn
<1> QED
  BY <1>1, <1>2, <1>4, <1>5, <1>7, <1>8, <1>9, <1>10, <1>11, TurnHolds

LEMMA RecoversHold ==
  ASSUME LInv, MInv, NEW c \in Nodes, Recovers(c), ~ together'
  PROVE  MInv'
<1> DEFINE t == task[c]
<1>1. PICK n \in Pending :
          GoesAhead(c, Asks([Idle EXCEPT !.op = journal[n].op, !.rev = journal[n].rev], "recover",
                    "quiesce", {m \in Nodes : journal[m].op = journal[n].op}))
  BY DEF Recovers, Members, GoesAhead, Decides
<1> DEFINE b == [Idle EXCEPT !.op = journal[n].op, !.rev = journal[n].rev]
           members == {m \in Nodes : journal[m].op = journal[n].op}
           u == Asks(b, "recover", "quiesce", members)
<1>2. /\ task' = [task EXCEPT ![c] = u] /\ t.pc = "looking" /\ UNCHANGED <<agent, wire, runs>>
      /\ GoesAhead(c, u) /\ c \notin stale
  BY <1>1 DEF Recovers, GoesAhead, Decides
<1>3. /\ n \in Nodes /\ journal[n] \in Entries /\ journal[n].op # 0 /\ journal[n].op <= runs
      /\ journal[n].state \notin {"idle", "complete", "rolled_back"} /\ journal[n].rev \in Revisions
  BY PendingIs
<1>4. b \in Tasks /\ b.op = journal[n].op
  BY <1>3, IdleIs DEF Tasks, Entries
<1> HIDE DEF b
<1>5. /\ u \in Tasks /\ u.pc = "working" /\ u.way = "recover" /\ u.nodes = members /\ u.left = members
      /\ u.act = "quiesce" /\ u.op = journal[n].op
  <2>1. "quiesce" \in Actions /\ members \in SUBSET Nodes /\ members # {}
    BY <1>3 DEF Actions
  <2> HIDE DEF members
  <2> QED
    BY <1>4, <2>1, AsksIs
<1> HIDE DEF u
<1>6. ~ t.waits
  BY <1>2 DEF LInv, TaskInv, TaskOK
<1>7. \A m \in members : journal[m].op >= u.op
  <2>1. journal[n].op \in Nat
    BY <1>3, Constants DEF Entries
  <2> QED
    BY <1>5, <2>1
<1>8. CourseOK(u, c, runs')
  BY <1>2, <1>5, <1>7 DEF CourseOK
<1>9. ~ Waking(u)
  BY <1>5 DEF Waking
<1>10. \A v \in Revisions, m \in Nodes : Closed(m, v) => u.op # journal[m].op
  BY <1>3, <1>5 DEF Closed, LInv, NodeInv, JournalOK
<1>11. ASSUME NEW k \in 1 .. runs, NEW R \in Revisions, NEW P \in Revisions, Going(k, R, P)
       PROVE  Conducts(u) /\ (runs > k => Quiet(1))
  <2>1. \A m \in Nodes : OnTheWay(m, k, R, P)
    BY <1>11 DEF Going
  <2>2. members = Nodes
    BY <1>3, <2>1 DEF OnTheWay
  <2>3. Conducts(u)
    BY <1>5, <2>2 DEF Conducts
  <2>4. runs > k => Quiet(n)
    BY <1>3, <2>1 DEF OnTheWay, Quiet
  <2>5. Quiet(n) => Quiet(1)
    <3>1. 1 \in Nodes /\ (n = 1 \/ 1 < n)
      BY <1>3, Constants
    <3> QED
      BY <1>3, <2>1, <3>1 DEF OnTheWay
  <2> QED
    BY <2>3, <2>4, <2>5
<1>12. runs' = runs
  BY <1>2
<1>13. SingleInv' /\ \A d \in Nodes : d # c => ~ Active(task[d])
  BY <1>2, <1>5, StartTurn
<1> QED
  BY <1>2, <1>5, <1>6, <1>8, <1>9, <1>10, <1>11, <1>12, <1>13, TurnHolds

LEMMA AgreesHold ==
  ASSUME LInv, MInv, NEW c \in Nodes, Agrees(c)
  PROVE  MInv'
<1> DEFINE t == task[c]
           u == Asks(t, "apply", "quiesce", Nodes)
<1>1. /\ task' = [task EXCEPT ![c] = u] /\ t.pc = "working" /\ t.way = "prepare" /\ t.act = "end"
      /\ UNCHANGED <<agent, wire, runs, stale>>
  BY DEF Agrees
<1>2. t \in Tasks /\ Active(t) /\ CourseOK(t, c, runs) /\ ~ t.waits
  BY <1>1 DEF LInv, Types, TaskInv, TaskOK, Active, MInv, CourseInv
<1>3. /\ u \in Tasks /\ u.pc = "working" /\ u.way = "apply" /\ u.nodes = Nodes /\ u.left = Nodes
      /\ u.act = "quiesce" /\ u.op = t.op /\ u.rev = t.rev /\ u.got = t.got
  <2>1. "quiesce" \in Actions
    BY DEF Actions
  <2> QED
    BY <1>2, <2>1, AsksIs, Constants
<1> HIDE DEF u
<1>4. t.got = Nodes /\ t.op = runs /\ ForwardOK(t, c) /\ PrepareOK(t)
  BY <1>1, <1>2 DEF CourseOK, PrepareOK
<1>5. ForwardOK(u, c)
  BY <1>1, <1>3, <1>4 DEF ForwardOK
<1>6. PhaseOK(u)
  <2>1. \A n \in Nodes : journal[n].state = "prepared"
    BY <1>1, <1>4 DEF ForwardOK, PrepareOK
  <2> QED
    BY <1>3, <2>1 DEF PhaseOK
<1>7. CourseOK(u, c, runs')
  BY <1>1, <1>3, <1>4, <1>5, <1>6 DEF CourseOK
<1>8. ~ Waking(u)
  BY <1>3 DEF Waking
<1>9. \A v \in Revisions, n \in Nodes : Closed(n, v) => u.op # journal[n].op
  BY <1>2, <1>3 DEF Closed
<1>10. \A k \in 1 .. runs, R, P \in Revisions : Going(k, R, P) => u.op # k
  BY <1>1, <1>2, <1>3 DEF Going, Conducts
<1>11. runs' = runs
  BY <1>1
<1>12. SingleInv' /\ \A d \in Nodes : d # c => ~ Active(task[d])
  BY <1>1, <1>2, <1>3, ActiveTurn
<1> QED
  BY <1>1, <1>2, <1>3, <1>7, <1>8, <1>9, <1>10, <1>11, <1>12, TurnHolds

LEMMA GoesBackHolds ==
  ASSUME LInv, MInv, NEW c \in Nodes, GoesBack(c)
  PROVE  MInv'
<1> DEFINE t == task[c]
           act == IF t.way = "apply" THEN "quiesce" ELSE "rolled_back"
           held == {n \in Nodes : journal[n].op = t.op}
<1>1. PICK unreachable \in SUBSET (held \ t.got) :
          task' = [task EXCEPT ![c] = Asks(t, "back", act, t.got \cup (held \ unreachable))]
  BY DEF GoesBack
<1> DEFINE members == t.got \cup (held \ unreachable)
           u == Asks(t, "back", act, members)
<1>2. /\ task' = [task EXCEPT ![c] = u] /\ t.pc = "failed" /\ t.way \in {"prepare", "apply"}
      /\ UNCHANGED <<agent, wire, runs, stale>>
  BY <1>1 DEF GoesBack
<1>3. t \in Tasks /\ Active(t) /\ CourseOK(t, c, runs) /\ ~ t.waits /\ t.op \in 1 .. runs /\ runs \in Nat
  <2>1. t \in Tasks /\ Active(t) /\ TaskOK(t, job[c], runs) /\ runs \in Nat
    BY <1>2, Constants DEF LInv, Types, TaskInv, Active
  <2>2. CourseOK(t, c, runs)
    BY <2>1 DEF MInv, CourseInv
  <2> QED
    BY <1>2, <2>1, <2>2 DEF TaskOK
<1>4. members \in SUBSET Nodes /\ \A n \in members : journal[n].op >= t.op
  <2>1. \A n \in t.got : journal[n].op = t.op /\ n \in Nodes
    BY <1>2, <1>3 DEF CourseOK, ForwardOK, Tasks
  <2> QED
    BY <1>3, <2>1
<1>5. t.way = "apply" => members = Nodes
  BY <1>3, <1>4 DEF CourseOK
<1>6. t.op = runs
  BY <1>2, <1>3 DEF CourseOK
<1> HIDE DEF members, held
<1>7. /\ u \in Tasks /\ u.pc = "working" /\ u.way = "back" /\ u.nodes = members /\ u.left = members
      /\ u.op = t.op /\ u.act = IF members = {} THEN "end" ELSE act
  <2>1. act \in Actions
    BY DEF Actions
  <2> QED
    BY <1>3, <1>4, <2>1, AsksIs
<1> HIDE DEF u
<1>8. CourseOK(u, c, runs')
  BY <1>2, <1>4, <1>6, <1>7 DEF CourseOK
<1>9. ~ Waking(u)
  BY <1>7 DEF Waking
<1>10. \A v \in Revisions, n \in Nodes : Closed(n, v) => u.op # journal[n].op
  BY <1>3, <1>7 DEF Closed
<1>11. ASSUME NEW k \in 1 .. runs, NEW R \in Revisions, NEW P \in Revisions, Going(k, R, P), u.op = k
       PROVE  Conducts(u) /\ (runs > k => Quiet(1))
  <2>1. t.way = "apply" /\ (runs > k => Quiet(1))
    BY <1>2, <1>3, <1>7, <1>11 DEF Going, Conducts
  <2>2. u.act = "quiesce" /\ u.nodes = Nodes /\ u.left = Nodes
    BY <1>5, <1>7, <2>1, Constants
  <2> QED
    BY <1>7, <2>1, <2>2 DEF Conducts
<1>12. runs' = runs
  BY <1>2
<1>13. SingleInv' /\ \A d \in Nodes : d # c => ~ Active(task[d])
  BY <1>2, <1>3, <1>7, ActiveTurn
<1> QED
  BY <1>2, <1>3, <1>7, <1>8, <1>9, <1>10, <1>11, <1>12, <1>13, TurnHolds

LEMMA TurnsHold ==
  ASSUME LInv, MInv, NEW c \in Nodes, ~ together',
         \/ Looks(c) \/ Applies(c) \/ Recovers(c) \/ Refuses(c) \/ AlreadyServes(c) \/ Drifts(c)
         \/ Agrees(c) \/ VoicesDiffer(c) \/ Completes(c) \/ IsBack(c) \/ GoesBack(c) \/ NeedsRecovery(c)
  PROVE  MInv'
<1> DEFINE t == task[c]
<1>1. /\ t.pc # "working" => ~ t.waits
      /\ t.act = "end" => ~ t.waits
  BY DEF LInv, TaskInv, TaskOK
<1>2. CASE Drifts(c) \/ VoicesDiffer(c) \/ Completes(c) \/ IsBack(c) \/ NeedsRecovery(c)
  <2>1. /\ UNCHANGED <<agent, wire, runs, stale>> /\ Active(t) /\ ~ t.waits
        /\ \/ task' = [task EXCEPT ![c] = Idle]
           \/ task' = [task EXCEPT ![c] = Failed(t)] /\ t.pc = "working"
    BY <1>1, <1>2 DEF Drifts, VoicesDiffer, Completes, IsBack, NeedsRecovery, Ends, Active
  <2> QED
    BY <2>1, FailedTurnHolds
<1> QED
  BY <1>2, LooksHold, AppliesHold, RecoversHold, AgreesHold, GoesBackHolds

LEMMA SendsHold ==
  ASSUME LInv, MInv, NEW c \in Nodes, Sends(c)
  PROVE  MInv'
<1> DEFINE t == task[c]
<1>1. PICK n \in Nodes, x \in Commands :
            /\ x.act = t.act /\ x.op = t.op /\ x.rev = t.rev /\ x.from = c /\ x # NoCommand
            /\ n \in t.left /\ \A m \in t.left : n <= m
            /\ accepted' \in [Nodes -> Seq(Commands)] /\ queue' \in [Nodes -> Seq(Commands)]
            /\ Out(n)' = Out(n) \cup {x}
            /\ \A m \in Nodes : \A r \in Out(m) : r.from # c
            /\ \A m \in Nodes : m # n => Out(m)' = Out(m) /\ \A o \in BOOLEAN : LineAt(m, o) => LineAt(m, o)'
            /\ \A o \in BOOLEAN : LineAt(n, o) /\ (\A r \in Out(n) : Before(r, x, o))
                                  /\ (x.act \notin Guarded => \A r \in Out(n) : Before(x, r, o)) => LineAt(n, o)'
  BY SendsIs
<1>2. /\ t \in Tasks /\ t.pc = "working" /\ t.act # "end" /\ ~ t.waits /\ Active(t)
      /\ t.op \in 1 .. runs /\ t.act \in ActsOf(t.way) /\ t.way # "none" /\ runs \in Nat
  <2>1. t \in Tasks /\ t.pc = "working" /\ t.act # "end" /\ ~ t.waits /\ Active(t) /\ TaskOK(t, job[c], runs)
    BY DEF LInv, Types, TaskInv, Sends, Active
  <2> QED
    BY <2>1, Constants DEF TaskOK, LInv, Types
<1>3. CourseOK(t, c, runs)
  BY <1>2 DEF MInv, CourseInv
<1>4. UNCHANGED <<journal, bundle, worker, core, busy, runs>> /\ task' = [task EXCEPT ![c].waits = TRUE]
  BY DEF Sends, agent
<1> DEFINE u == [t EXCEPT !.waits = TRUE]
<1>5. /\ u \in Tasks /\ u.pc = t.pc /\ u.way = t.way /\ u.op = t.op /\ u.rev = t.rev /\ u.act = t.act
      /\ u.nodes = t.nodes /\ u.left = t.left /\ u.got = t.got /\ u.sound = t.sound
  BY <1>2 DEF Tasks
<1>6. /\ task'[c] = u /\ \A d \in Nodes : d # c => task'[d] = task[d] /\ ~ Active(task'[d])
  BY <1>2, <1>4 DEF LInv, Types, MInv, SingleInv
<1> HIDE DEF u
<1>7. \A m \in Nodes : \A r \in Out(m)' : r \in Out(m) \/ (m = n /\ r = x)
  BY <1>1
<1>8. t.way \in {"prepare", "apply"} => \A m \in Nodes : \A r \in Out(m) : r.op # t.op
  BY <1>1, <1>2, <1>3 DEF CourseOK, ForwardOK
<1>9. /\ t.way \in {"prepare", "apply", "back", "recover"}
      /\ t.act = "prepare" <=> t.way = "prepare"
      /\ t.act = "worker" => t.way = "apply"
      /\ t.act \in Onward => t.way \in {"prepare", "apply"}
  BY <1>2 DEF ActsOf, Tasks, Onward
<1>10. n \in Nat /\ Nodes \subseteq Nat
  BY Constants
<1>11. SingleInv'
  <2>1. task' = [task EXCEPT ![c] = u] /\ u.pc # "looking" /\ stale' = stale
    BY <1>2, <1>4, <1>5 DEF Sends, u
  <2> QED
    BY <1>2, <2>1, ActiveTurn
<1>12. \A r \in Out(n) : r.act # "none" /\ t.act = "prepare" => r.op < t.op
  <2>1. SUFFICES ASSUME NEW r \in Out(n), r.act # "none", t.act = "prepare" PROVE r.op < t.op
    OBVIOUS
  <2>2. r.op \in 1 .. runs /\ r.op # t.op /\ t.op = runs
    BY <1>3, <1>8, <1>9, <2>1 DEF LInv, OpInv, CourseOK
  <2> QED
    BY <1>2, <2>2
<1>13. QueueInv'
  <2>1. \A r \in Out(n) : Before(r, x, TRUE)
    BY <1>1, <1>12 DEF Before
  <2>2. x.act \notin Guarded => \A r \in Out(n) : Before(x, r, TRUE)
    BY <1>1 DEF Before, Guarded
  <2>3. LineAt(n, TRUE)' /\ \A m \in Nodes : m # n => LineAt(m, TRUE)'
    BY <1>1, <2>1, <2>2 DEF MInv, QueueInv
  <2> QED
    BY <2>3 DEF QueueInv
<1>14. OrderInv'
  <2>1. SUFFICES ASSUME NEW m \in Nodes, NEW r \in Out(m)'
                 PROVE  /\ r.act = "prepare" =>
                              r.op > journal[m].op /\ \A y \in Nodes : y < m => journal[y].op >= r.op
                        /\ r.act \notin {"none", "prepare"} => r.op <= journal[m].op
    BY <1>4 DEF OrderInv
  <2>2. CASE r \in Out(m)
    BY <2>2 DEF MInv, OrderInv
  <2>3. CASE m = n /\ r = x /\ x.act = "prepare"
    <3>1. t.way = "prepare" /\ t.act = "prepare" /\ PrepareOK(t) /\ ForwardOK(t, c) /\ t.op = runs
      BY <1>1, <1>3, <1>9, <2>3 DEF CourseOK
    <3>2. \A y \in Nodes : journal[y].op <= runs /\ journal[y].op \in Nat
      BY Constants DEF LInv, OpInv, Types, Entries
    <3>3. x.op > journal[n].op
      <4>1. journal[n].op # t.op /\ journal[n].op <= runs /\ journal[n].op \in Nat /\ x.op = t.op
        BY <1>1, <1>2, <3>1, <3>2 DEF PrepareOK
      <4> QED
        BY <1>2, <3>1, <4>1
    <3>4. ASSUME NEW y \in Nodes, y < n PROVE journal[y].op >= x.op
      <4>1. y \notin t.left
        BY <1>1, <1>10, <3>4
      <4>2. journal[y].op = t.op
        BY <3>1, <4>1 DEF PrepareOK, ForwardOK
      <4> QED
        BY <1>1, <1>2, <4>2
    <3> QED
      BY <2>3, <3>3, <3>4
  <2>4. CASE m = n /\ r = x /\ x.act # "prepare"
    <3>1. journal[n].op >= t.op
      <4>1. CASE t.way = "apply"
        <5>1. journal[n].op = t.op
          BY <1>3, <4>1 DEF CourseOK, ForwardOK
        <5> QED
          BY <1>2, <5>1
      <4>2. CASE t.way \in {"back", "recover"}
        BY <1>1, <1>3, <4>2 DEF CourseOK
      <4> QED
        BY <1>1, <1>9, <2>4, <4>1, <4>2
    <3>2. journal[n].op \in Nat
      BY Constants DEF LInv, Types, Entries
    <3> QED
      BY <1>1, <1>2, <2>4, <3>1, <3>2
  <2> QED
    BY <1>7, <2>2, <2>3, <2>4
<1>15. UniqueInv'
  <2>1. SUFFICES ASSUME NEW i \in Nodes, NEW j \in Nodes, NEW r \in Out(i)', NEW s \in Out(j)',
                        r.act \in Onward, s.act \in Onward, r.op = s.op
                 PROVE  r.act = s.act /\ i = j
    BY DEF UniqueInv
  <2>2. CASE r \in Out(i) /\ s \in Out(j)
    BY <2>1, <2>2 DEF MInv, UniqueInv
  <2>3. CASE r = x /\ i = n /\ s = x /\ j = n
    BY <2>3
  <2>4. CASE r = x /\ s \in Out(j)
    BY <1>1, <1>8, <1>9, <2>1, <2>4
  <2>5. CASE s = x /\ r \in Out(i)
    BY <1>1, <1>8, <1>9, <2>1, <2>5
  <2> QED
    BY <1>7, <2>2, <2>3, <2>4, <2>5
<1>16. CourseInv'
  <2>1. SUFFICES CourseOK(task[c], c, runs)'
    BY <1>6 DEF CourseInv
  <2>2. t.way \in {"prepare", "apply"} => ForwardOK(task[c], c)'
    BY <1>1, <1>3, <1>4, <1>5, <1>6, <1>7 DEF CourseOK, ForwardOK
  <2>3. t.way = "prepare" => PrepareOK(task[c])'
    BY <1>3, <1>4, <1>5, <1>6 DEF CourseOK, PrepareOK
  <2>4. PhaseOK(t) => PhaseOK(task[c])'
    BY <1>4, <1>5, <1>6 DEF PhaseOK, Down, Serves
  <2> QED
    BY <1>3, <1>4, <1>5, <1>6, <2>2, <2>3, <2>4 DEF CourseOK
<1>17. ASSUME NEW v \in Revisions, Calm(v) PROVE Calm(v)'
  <2>1. Runs(v)'
    BY <1>4, <1>17 DEF Calm, Runs
  <2>2. ~ Waking(t)
    BY <1>17 DEF Calm
  <2>3. t.act # "worker"
    BY <1>2, <1>9, <2>2 DEF Waking
  <2>4. ASSUME NEW m \in Nodes PROVE Harmless(m, v)' \/ Closed(m, v)'
    <3>1. CASE Harmless(m, v)
      <4>1. \A r \in Out(m)' : r.act = "worker" => r \in Out(m)
        BY <1>1, <1>7, <2>3
      <4> QED
        BY <1>4, <3>1, <4>1 DEF Harmless
    <3>2. CASE Closed(m, v)
      <4>1. t.op # journal[m].op
        BY <1>2, <3>2 DEF Closed
      <4>2. \A r \in Out(m)' : r.act = "quiesce" => r.op # journal[m].op
        BY <1>1, <1>7, <3>2, <4>1 DEF Closed
      <4>3. \A y \in Nodes : \A r \in Out(y)' : r.act = "prepare" => r.op # journal[m].op
        BY <1>1, <1>7, <3>2, <4>1 DEF Closed
      <4>4. \A d \in Nodes : Active(task'[d]) => task'[d].op # journal[m].op
        BY <1>5, <1>6, <4>1
      <4> QED
        BY <1>4, <3>2, <4>2, <4>3, <4>4 DEF Closed
    <3> QED
      BY <1>17, <3>1, <3>2 DEF Calm
  <2>5. \A d \in Nodes : ~ Waking(task'[d])
    BY <1>5, <1>6, <2>2 DEF Waking, Active
  <2> QED
    BY <2>1, <2>4, <2>5 DEF Calm, Waking
<1>18. ASSUME NEW k \in 1 .. runs, NEW R \in Revisions, NEW P \in Revisions, Going(k, R, P)
       PROVE  Going(k, R, P)'
  <2>1. Runs(R)'
    BY <1>4, <1>18 DEF Going, Runs
  <2>2. t.op = k => Conducts(t) /\ (runs > k => Quiet(1))
    BY <1>2, <1>18 DEF Going
  <2>3. t.op = k => t.act \in {"quiesce", "worker", "core", "finish"}
    BY <1>2, <1>9, <2>2 DEF Conducts
  <2>4. t.op = k /\ t.act = "quiesce" => \A m \in Nodes : m < n => Quiet(m)
    <3>1. SUFFICES ASSUME t.op = k, t.act = "quiesce", NEW m \in Nodes, m < n PROVE Quiet(m)
      OBVIOUS
    <3>2. m \notin t.left
      BY <1>1, <1>10, <3>1
    <3>3. t.way \in {"back", "recover"}
      BY <1>2, <1>9, <2>2, <3>1 DEF Conducts
    <3> QED
      BY <1>2, <2>2, <3>1, <3>2, <3>3 DEF Conducts
  <2>5. ASSUME NEW m \in Nodes PROVE OnTheWay(m, k, R, P)'
    <3>1. OnTheWay(m, k, R, P)
      BY <1>18 DEF Going
    <3>2. \A r \in Out(m)' : r.op = k => r.act \in {"quiesce", "worker", "core", "finish"}
      BY <1>1, <1>7, <2>3, <3>1 DEF OnTheWay
    <3>3. \A y \in Nodes : Quiet(y)' = Quiet(y)
      BY <1>4 DEF Quiet
    <3>4. Quiet(m)' \/ (\E r \in Out(m)' : r.op = k /\ r.act = "quiesce") => \A y \in Nodes : y < m => Quiet(y)'
      BY <1>1, <1>7, <2>4, <3>1, <3>3 DEF OnTheWay
    <3> QED
      BY <1>4, <3>1, <3>2, <3>4 DEF OnTheWay
  <2>6. t.op = k => Conducts(task[c])' /\ (runs > k => Quiet(1)')
    BY <1>4, <1>5, <1>6, <2>2 DEF Conducts, Quiet, Down
  <2> QED
    BY <1>4, <1>5, <1>6, <2>1, <2>5, <2>6 DEF Going
<1>19. Mode'
  <2>1. CASE \E v \in Revisions : Calm(v)
    BY <1>17, <2>1 DEF Mode
  <2>2. CASE \E k \in 1 .. runs, R \in Revisions, P \in Revisions : Going(k, R, P)
    BY <1>4, <1>18, <2>2 DEF Mode
  <2> QED
    BY <2>1, <2>2 DEF MInv, Mode
<1> QED
  BY <1>11, <1>13, <1>14, <1>15, <1>16, <1>19 DEF MInv

\* What a step of the agent at node n does to the nodes.
Alike(m) == /\ journal'[m] = journal[m] /\ bundle'[m] = bundle[m]
            /\ worker'[m] = worker[m] /\ core'[m] = core[m]
Effect(n, r, j) ==
    /\ runs' = runs /\ \A m \in Nodes : m # n => Alike(m)
    /\ r.act = "prepare" =>
          /\ bundle'[n] = bundle[n] /\ worker'[n] = worker[n] /\ core'[n] = core[n]
          /\ j.op = r.op => journal'[n] = j
          /\ j.op # r.op => /\ journal'[n].op = r.op /\ journal'[n].rev = r.rev
                            /\ journal'[n].prev = bundle[n] /\ journal'[n].state = "prepared"
    /\ r.act # "prepare" =>
          /\ journal'[n].op = j.op /\ journal'[n].rev = j.rev /\ journal'[n].prev = j.prev
          /\ journal'[n].state \in {j.state, Reached(r.act)}
          /\ Len(r.left) = 1 => journal'[n].state = Reached(r.act)
    /\ r.act \notin {"prepare", "install", "restore"} => bundle'[n] = bundle[n]
    /\ r.act \notin {"worker", "old_worker"} => worker'[n] \in {worker[n], Stopped}
    /\ r.act \notin {"core", "old_core"} => core'[n] \in {core[n], Stopped}
    /\ r.act \in {"worker", "old_worker"} => worker'[n] \in {worker[n], bundle[n]}
    /\ r.act \in {"core", "old_core"} => core'[n] \in {core[n], bundle[n]}
    /\ r.act \in {"install", "finish"} => worker'[n] = worker[n] /\ core'[n] = core[n]
    /\ r.act = "quiesce" /\ Len(r.left) = 1 => worker'[n] = Stopped /\ core'[n] = Stopped

\* A step of the agent's command.
Performs(n) == \/ Prepares(n) \/ Journals(n) \/ StopsCore(n) \/ StopsWorker(n)
             \/ Breaks(n) \/ Writes(n) \/ StartsWorker(n) \/ StartsCore(n)

LEMMA EffectIs ==
  ASSUME LInv, NEW n \in Nodes, Performs(n)
  PROVE  Effect(n, busy[n], journal[n]) /\ \E s : Step(n, s)
<1> DEFINE r == busy[n]
           j == journal[n]
<1>1. PICK s : Step(n, s)
  BY DEF Performs, Prepares, Journals, StopsCore, StopsWorker, Breaks, Writes, StartsWorker, StartsCore
<1>2. /\ journal \in [Nodes -> Entries] /\ DOMAIN bundle = Nodes /\ DOMAIN worker = Nodes /\ DOMAIN core = Nodes
      /\ bundle = [m \in Nodes |-> bundle[m]] /\ worker = [m \in Nodes |-> worker[m]] /\ core = [m \in Nodes |-> core[m]]
  BY DEF LInv, Types
<1>3. runs' = runs
  BY <1>1 DEF Step
<1>4. ASSUME NEW x, Step(n, x)
      PROVE  /\ r \in Works /\ r.left \in Lefts(r.act) /\ r.act \in Actions /\ Head(r.left) = x /\ j \in Entries
             /\ Len(r.left) \in 1 .. 3 /\ WorkOK(r, j, bundle[n], core[n])
  BY <1>4, WorkIs
<1>5. CASE Prepares(n)
  <2>1. Step(n, "prepare")
    BY <1>5 DEF Prepares
  <2>2. r.act = "prepare"
    BY <1>4, <2>1, LeftIs
  <2>3. /\ \A m \in Nodes : m # n => journal'[m] = journal[m]
        /\ journal'[n] = IF j.op = r.op THEN j
             ELSE [op |-> r.op, rev |-> r.rev, prev |-> bundle[n], state |-> "prepared"]
    BY <1>2, <1>5 DEF Prepares
  <2> QED
    BY <1>1, <1>3, <1>5, <2>2, <2>3 DEF Prepares, Effect, Alike
<1>6. CASE Journals(n)
  <2>1. Step(n, "save")
    BY <1>6 DEF Journals
  <2>2. r.act # "prepare" /\ (r.act = "quiesce" => Len(r.left) = 3)
    BY <1>4, <2>1, LeftIs
  <2>3. /\ \A m \in Nodes : m # n => journal'[m] = journal[m]
        /\ journal'[n].op = j.op /\ journal'[n].rev = j.rev /\ journal'[n].prev = j.prev
        /\ journal'[n].state = Reached(r.act)
    BY <1>2, <1>6 DEF Journals, Entries
  <2> QED
    BY <1>1, <1>3, <1>6, <2>2, <2>3 DEF Journals, Effect, Alike
<1>7. CASE StopsCore(n)
  <2>1. Step(n, "stop_core") /\ core' = [core EXCEPT ![n] = Stopped] /\ UNCHANGED <<journal, bundle, worker>>
    BY <1>7 DEF StopsCore
  <2>2. r.act = "quiesce" /\ Len(r.left) = 2
    BY <1>4, <2>1, LeftIs
  <2> QED
    BY <1>1, <1>2, <1>3, <2>1, <2>2 DEF Effect, Alike
<1>8. CASE StopsWorker(n)
  <2>1. Step(n, "stop_worker") /\ worker' = [worker EXCEPT ![n] = Stopped] /\ UNCHANGED <<journal, bundle, core>>
    BY <1>8 DEF StopsWorker
  <2>2. r.act = "quiesce" /\ Len(r.left) = 1
    BY <1>4, <2>1, LeftIs
  <2>3. j.state = "quiesced" /\ core[n] = Stopped
    BY <1>4, <2>1, <2>2 DEF WorkOK
  <2>4. /\ \A m \in Nodes : m # n => Alike(m)
        /\ worker'[n] = Stopped /\ core'[n] = Stopped /\ bundle'[n] = bundle[n] /\ journal'[n] = j
    BY <1>2, <2>1, <2>3 DEF Alike
  <2>5. Reached(r.act) = "quiesced"
    BY <2>2 DEF Reached
  <2> QED
    BY <1>1, <1>3, <2>2, <2>3, <2>4, <2>5 DEF Effect
<1>9. CASE Breaks(n) \/ Writes(n)
  <2>1. PICK b : /\ bundle' = [bundle EXCEPT ![n] = b] /\ UNCHANGED <<journal, worker, core>>
                 /\ Step(n, "break") \/ Step(n, "write_new") \/ Step(n, "write_old")
    BY <1>9 DEF Breaks, Writes
  <2>2. r.act \in {"install", "restore"} /\ Len(r.left) # 1
    BY <1>4, <2>1, LeftIs
  <2> QED
    BY <1>1, <1>2, <1>3, <2>1, <2>2, SMTT(30) DEF Effect, Alike
<1>10. CASE StartsWorker(n)
  <2>1. Step(n, "start_worker") /\ worker' = Started(worker, n) /\ UNCHANGED <<journal, bundle, core>>
    BY <1>10 DEF StartsWorker
  <2>2. r.act \in {"worker", "old_worker"} /\ Len(r.left) = 2
    BY <1>4, <2>1, LeftIs
  <2>3. worker'[n] \in {worker[n], bundle[n]} /\ \A m \in Nodes : m # n => worker'[m] = worker[m]
    BY <1>2, <2>1 DEF Started
  <2> QED
    BY <1>1, <1>3, <2>1, <2>2, <2>3 DEF Effect, Alike
<1>11. CASE StartsCore(n)
  <2>1. Step(n, "start_core") /\ core' = Started(core, n) /\ UNCHANGED <<journal, bundle, worker>>
    BY <1>11 DEF StartsCore
  <2>2. r.act \in {"core", "old_core"} /\ Len(r.left) = 2
    BY <1>4, <2>1, LeftIs
  <2>3. core'[n] \in {core[n], bundle[n]} /\ \A m \in Nodes : m # n => core'[m] = core[m]
    BY <1>2, <2>1 DEF Started
  <2> QED
    BY <1>1, <1>3, <2>1, <2>2, <2>3 DEF Effect, Alike
<1> QED
  BY <1>5, <1>6, <1>7, <1>8, <1>9, <1>10, <1>11 DEF Performs

\* The task whose command was carried out goes on; the others are as they were.
Goes(c, n, r) ==
    \/ task'[c] = task[c] /\ (r.from = c => Len(r.left) # 1)
    \/ /\ Len(r.left) = 1 /\ r.from = c /\ task[c].waits /\ n \in task[c].left /\ task[c].act = r.act
       /\ task'[c].pc = task[c].pc /\ task'[c].waits = FALSE /\ task'[c].way = task[c].way
       /\ task'[c].op = task[c].op /\ task'[c].rev = task[c].rev /\ task'[c].nodes = task[c].nodes
       /\ task'[c].left = (IF task[c].left = {n} THEN task[c].nodes ELSE task[c].left \ {n})
       /\ task'[c].act = (IF task[c].left = {n} THEN Then(task[c].way, r.act) ELSE r.act)
       /\ task'[c].got = (IF r.act = "prepare" THEN task[c].got \cup {n} ELSE task[c].got)
       /\ task'[c].sound = (task[c].sound /\ (r.act = "finish" => Serves(n, task[c].rev)))

LEMMA GoesIs ==
  ASSUME LInv, NEW n \in Nodes, NEW s, Step(n, s), NEW c \in Nodes
  PROVE  /\ Goes(c, n, busy[n]) /\ (Active(task'[c]) <=> Active(task[c]))
         /\ task'[c].pc = task[c].pc /\ task'[c].op = task[c].op /\ task'[c].way = task[c].way
         /\ busy[n].from = c => /\ task[c].waits /\ task[c].act = busy[n].act /\ task[c].op = busy[n].op
                                /\ task[c].pc = "working" /\ n \in task[c].left /\ task[c].act \in ActsOf(task[c].way)
<1> DEFINE r == busy[n]
           t == task[c]
           u == Confirmed(t, r.act, n)
<1>1. /\ r \in Works /\ r.act \in Actions
      /\ Len(r.left) = 1 => task' = IF r.from = NoOne THEN task
                                    ELSE [task EXCEPT ![r.from] = Confirmed(task[r.from], r.act, n)]
      /\ Len(r.left) # 1 => task' = task
  BY StepIs DEF LInv
<1>2. c # NoOne
  BY Constants
<1>3. r.from = c => /\ t.waits /\ t.act = r.act /\ t.op = r.op /\ t.pc = "working" /\ n \in t.left
                    /\ t.act \in ActsOf(t.way) /\ t \in Tasks /\ t.act # "end"
  BY <1>2, Waits DEF LInv, Out, Asked
<1>4. CASE Len(r.left) = 1 /\ r.from = c
  <2>1. task'[c] = u
    BY <1>1, <1>2, <1>4 DEF LInv, Types
  <2>2. /\ u.pc = t.pc /\ u.waits = FALSE /\ u.way = t.way /\ u.op = t.op /\ u.rev = t.rev
        /\ u.nodes = t.nodes
        /\ u.left = (IF t.left = {n} THEN t.nodes ELSE t.left \ {n})
        /\ u.act = (IF t.left = {n} THEN Then(t.way, t.act) ELSE t.act)
        /\ u.got = (IF t.act = "prepare" THEN t.got \cup {n} ELSE t.got)
        /\ u.sound = (t.sound /\ (t.act = "finish" => Serves(n, t.rev)))
    <3> DEFINE v == Confirmed(t, t.act, n)
    <3>1. /\ v.pc = t.pc /\ v.waits = FALSE /\ v.way = t.way /\ v.op = t.op /\ v.rev = t.rev
          /\ v.nodes = t.nodes
          /\ v.left = (IF t.left = {n} THEN t.nodes ELSE t.left \ {n})
          /\ v.act = (IF t.left = {n} THEN Then(t.way, t.act) ELSE t.act)
          /\ v.got = (IF t.act = "prepare" THEN t.got \cup {n} ELSE t.got)
          /\ v.sound = (t.sound /\ (t.act = "finish" => Serves(n, t.rev)))
      <4>1. ConfirmedAs(v, t, n)
        BY <1>3, <1>4, ConfirmedIsSo
      <4> HIDE DEF v, t
      <4> QED
        BY <4>1 DEF ConfirmedAs
    <3>2. u = v
      BY <1>3, <1>4
    <3> HIDE DEF u, v
    <3> QED
      BY <3>1, <3>2
  <2> HIDE DEF u
  <2> QED
    BY <1>3, <1>4, <2>1, <2>2 DEF Goes, Active
<1>5. CASE ~ (Len(r.left) = 1 /\ r.from = c)
  <2>1. task'[c] = t
    BY <1>1, <1>5 DEF LInv, Types
  <2> QED
    BY <1>3, <1>5, <2>1 DEF Goes
<1> QED
  BY <1>4, <1>5

\* The order of the commands under the agent's steps.
LEMMA PerformsOrder ==
  ASSUME LInv, MInv, NEW n \in Nodes, Performs(n)
  PROVE  SingleInv' /\ QueueInv' /\ OrderInv' /\ UniqueInv'
<1> DEFINE r == busy[n]
           j == journal[n]
<1>1. PICK s : Step(n, s)
  BY EffectIs
<1>2. Effect(n, r, j) /\ r.act \in Actions /\ r \in Out(n) /\ Flows
  <2>1. Effect(n, r, j) /\ r.act \in Actions
    BY <1>1, EffectIs, StepIs DEF LInv
  <2>2. Flows
    BY <1>1, StepFlows DEF LInv
  <2> QED
    BY <2>1, <2>2 DEF Out
<1>3. SingleInv'
  <2>1. (\A c \in Nodes : task'[c].pc = task[c].pc) /\ stale' = stale
    BY <1>1, GoesIs DEF Step
  <2> QED
    BY <2>1 DEF SingleInv, MInv, Active
<1>4. CASE r.act = "prepare" => j.op = r.op
  <2>1. \A m \in Nodes : journal'[m].op = journal[m].op
    BY <1>2, <1>4 DEF Effect, Alike
  <2> QED
    BY <1>2, <1>3, <2>1, OrderStays DEF MInv
<1>5. CASE r.act = "prepare" /\ j.op # r.op
  <2>1. journal'[n].op = r.op /\ \A m \in Nodes : m # n => journal'[m] = journal[m]
    BY <1>2, <1>5 DEF Effect, Alike
  <2>2. r.op > j.op /\ \A m \in Nodes : m < n => journal[m].op >= r.op
    BY <1>2, <1>5 DEF MInv, OrderInv
  <2>3. /\ \A m \in Nodes : journal[m].op \in Nat /\ journal'[m].op \in Nat /\ journal'[m].op >= journal[m].op
        /\ \A m \in Nodes : \A x \in Out(m) : x.op \in Nat
        /\ r.op \in Nat
    <3>1. \A m \in Nodes : journal[m].op \in Nat
      BY Constants DEF LInv, Types, Entries
    <3>2. \A m \in Nodes : \A x \in Out(m) : x.op \in Nat
      BY OutIs, Constants DEF LInv
    <3>3. r.op \in Nat
      BY <1>2, <3>2
    <3> QED
      BY <2>1, <2>2, <3>1, <3>2, <3>3
  <2>4. ASSUME NEW m \in Nodes, NEW x \in Out(m)', x.act # "none" PROVE \E y \in Out(m) : Trace(x, y)
    BY <1>2, <2>4 DEF Flows, Fewer, NoCommand
  <2>5. QueueInv'
    BY <1>2 DEF MInv, QueueInv, Flows, InStep
  <2>6. UniqueInv'
    <3>1. SUFFICES ASSUME NEW p \in Nodes, NEW q \in Nodes, NEW x \in Out(p)', NEW y \in Out(q)',
                          x.act \in Onward, y.act \in Onward, x.op = y.op
                   PROVE  x.act = y.act /\ p = q
      BY DEF UniqueInv
    <3>2. PICK v \in Out(p) : Trace(x, v)
      BY <2>4, <3>1 DEF Onward
    <3>3. PICK w \in Out(q) : Trace(y, w)
      BY <2>4, <3>1 DEF Onward
    <3> QED
      BY <3>1, <3>2, <3>3 DEF Trace, MInv, UniqueInv
  <2>7. ASSUME NEW m \in Nodes, NEW x \in Out(m)', x.act \notin {"none", "prepare"} PROVE x.op <= journal'[m].op
    <3>1. PICK y \in Out(m) : Trace(x, y)
      BY <2>4, <2>7
    <3>2. y.op <= journal[m].op /\ x.op = y.op /\ y.op \in Nat
      BY <2>3, <2>7, <3>1 DEF MInv, OrderInv, Trace
    <3>3. journal'[m].op >= journal[m].op /\ journal'[m].op \in Nat /\ journal[m].op \in Nat
      BY <2>3
    <3> QED
      BY <3>2, <3>3
  <2>8. ASSUME NEW x \in Out(n)', x.act = "prepare" PROVE x.op > r.op
    <3>1. x \in Waiting(n)
      <4>1. busy'[n] = NoCommand
        <5>1. r.left \in Lefts(r.act) /\ r.act \in Actions
          BY <1>1, StepIs DEF LInv
        <5>2. Len(r.left) = 1
          BY <1>5, <5>1, LeftIs
        <5>3. busy' = [busy EXCEPT ![n] = NoCommand]
          BY <1>1, <5>2, StepIs DEF LInv
        <5> QED
          BY <5>3 DEF LInv, Types
      <4>2. Waiting(n)' = Waiting(n)
        BY <1>1 DEF Step, Waiting
      <4> QED
        BY <2>8, <4>1, <4>2 DEF Out, NoCommand
    <3>2. LineAt(n, TRUE)
      BY DEF MInv, QueueInv
    <3>3. Before(r, x, TRUE)
      BY <3>1, <3>2, BothWait DEF LineAt, Waiting
    <3>4. r.op < x.op
      BY <1>5, <2>8, <3>3 DEF Before
    <3>5. x \in Out(n) /\ x.op \in Nat
      BY <2>3, <3>1 DEF Out
    <3> QED
      BY <2>3, <3>4, <3>5
  <2>9. ASSUME NEW m \in Nodes, NEW x \in Out(m)', x.act = "prepare"
        PROVE  x.op > journal'[m].op /\ \A y \in Nodes : y < m => journal'[y].op >= x.op
    <3>1. PICK y \in Out(m) : Trace(x, y)
      BY <2>4, <2>9
    <3>2. /\ y.op > journal[m].op /\ x.op = y.op /\ y.op \in Nat
          /\ \A z \in Nodes : z < m => journal[z].op >= y.op
      BY <2>3, <2>9, <3>1 DEF MInv, OrderInv, Trace
    <3>3. ASSUME NEW z \in Nodes, z < m PROVE journal'[z].op >= x.op
      <4>1. journal[z].op >= y.op /\ journal[z].op \in Nat /\ journal'[z].op \in Nat /\ journal'[z].op >= journal[z].op
        BY <2>3, <3>2, <3>3
      <4> QED
        BY <3>2, <4>1
    <3>4. x.op > journal'[m].op
      <4>1. CASE m = n
        BY <2>1, <2>8, <2>9, <4>1
      <4>2. CASE m # n
        BY <2>1, <3>2, <4>2
      <4> QED
        BY <4>1, <4>2
    <3> QED
      BY <3>3, <3>4
  <2>10. OrderInv'
    BY <2>7, <2>9 DEF OrderInv
  <2> QED
    BY <1>3, <2>5, <2>6, <2>10
<1> QED
  BY <1>4, <1>5

\* What a task has reached, under the agents' steps.
LEMMA PerformsCourse ==
  ASSUME LInv, MInv, NEW n \in Nodes, Performs(n)
  PROVE  CourseInv'
<1> DEFINE r == busy[n]
           j == journal[n]
<1>1. PICK s : Step(n, s)
  BY EffectIs
<1>2. /\ Effect(n, r, j) /\ r \in Out(n) /\ Flows
      /\ r \in Works /\ r.left \in Lefts(r.act) /\ r.act \in Actions /\ Len(r.left) \in 1 .. 3
      /\ r.op \in 1 .. runs /\ j.op <= runs /\ WorkOK(r, j, bundle[n], core[n])
      /\ r.act # "prepare" => j.op = r.op /\ j.rev = r.rev /\ j.state \in Phases(r.act)
  <2>1. Effect(n, r, j) /\ Flows
    BY <1>1, EffectIs, StepFlows DEF LInv
  <2>2. /\ r \in Works /\ r.left \in Lefts(r.act) /\ r.act \in Actions /\ Len(r.left) \in 1 .. 3
        /\ r.op \in 1 .. runs /\ j.op <= runs /\ WorkOK(r, j, bundle[n], core[n])
        /\ r.act # "prepare" => j.op = r.op /\ j.rev = r.rev /\ j.state \in Phases(r.act)
    BY <1>1, WorkIs
  <2> QED
    BY <2>1, <2>2 DEF Out
<1>3. /\ runs \in Nat /\ runs' = runs
      /\ \A m \in Nodes : journal[m].op \in Nat /\ journal'[m].op \in Nat /\ journal[m].op <= runs
                          /\ journal'[m].op >= journal[m].op
      /\ (r.act = "prepare" /\ j.op # r.op) => r.op > j.op
  <2>1. runs \in Nat /\ \A m \in Nodes : journal[m].op \in Nat /\ journal[m].op <= runs
    BY Constants DEF LInv, Types, Entries, OpInv
  <2>2. (r.act = "prepare" /\ j.op # r.op) => r.op > j.op
    BY <1>2 DEF MInv, OrderInv
  <2>3. \A m \in Nodes : m # n => journal'[m] = journal[m]
    BY <1>2 DEF Effect, Alike
  <2>4. journal'[n].op = (IF r.act = "prepare" /\ j.op # r.op THEN r.op ELSE j.op)
    BY <1>2 DEF Effect
  <2>5. r.op \in Nat
    BY <1>2, <2>1
  <2>6. journal'[n].op \in Nat /\ journal'[n].op >= j.op
    BY <2>1, <2>2, <2>4, <2>5
  <2> QED
    BY <1>2, <2>1, <2>2, <2>3, <2>6 DEF Effect
<1> SUFFICES ASSUME NEW c \in Nodes, Active(task'[c])
             PROVE  CourseOK(task[c], c, runs)'
  BY DEF CourseInv
<1> DEFINE t == task[c]
           u == task'[c]
<1>4. /\ Goes(c, n, r) /\ Active(t) /\ u.pc = t.pc /\ u.op = t.op /\ u.way = t.way
      /\ r.from = c => t.waits /\ t.act = r.act /\ t.op = r.op /\ t.pc = "working" /\ n \in t.left /\ t.act \in ActsOf(t.way)
  BY <1>1, GoesIs
<1>5. CourseOK(t, c, runs) /\ u.rev = t.rev /\ u.nodes = t.nodes /\ u.left \subseteq u.nodes /\ t \in Tasks /\ t.op \in Nat
  <2>1. CourseOK(t, c, runs) /\ t \in Tasks
    BY <1>4 DEF MInv, CourseInv, LInv, Types
  <2>2. t.op \in Nat
    BY <2>1, Constants DEF Tasks
  <2> QED
    BY <1>4, <2>1, <2>2 DEF Goes, CourseOK
<1>6. u.way \in {"back", "recover"} => \A m \in u.nodes : journal'[m].op >= u.op
  <2>1. SUFFICES ASSUME u.way \in {"back", "recover"}, NEW m \in u.nodes PROVE journal'[m].op >= u.op
    OBVIOUS
  <2>2. m \in Nodes /\ journal[m].op >= t.op
    BY <1>4, <1>5, <2>1 DEF CourseOK, Tasks
  <2> QED
    BY <1>3, <1>4, <1>5, <2>2
<1>7. ASSUME t.way \in {"prepare", "apply"}
      PROVE  /\ ForwardOK(t, c) /\ t.op = runs
             /\ t.pc = "working" /\ r.op = t.op => r.from = c /\ r.act = t.act
             /\ r.act # "prepare" /\ j.op = t.op => r.op = t.op
  <2>1. ForwardOK(t, c) /\ t.op = runs
    BY <1>5, <1>7 DEF CourseOK
  <2> QED
    BY <1>2, <1>4, <2>1 DEF ForwardOK
<1>8. t.way \in {"prepare", "apply"} => ForwardOK(task[c], c)'
  <2>1. SUFFICES ASSUME t.way \in {"prepare", "apply"} PROVE ForwardOK(task[c], c)'
    OBVIOUS
  <2>2. ASSUME NEW m \in u.got PROVE journal'[m].op = u.op /\ journal'[m].rev = u.rev
    <3>1. CASE m \in t.got
      <4>1. m \in Nodes /\ journal[m].op = t.op /\ journal[m].rev = t.rev
        BY <1>5, <1>7, <2>1, <3>1 DEF ForwardOK, Tasks
      <4>2. CASE m # n
        BY <1>2, <1>4, <1>5, <4>1, <4>2 DEF Effect, Alike
      <4>3. CASE m = n
        <5>1. ~ (r.act = "prepare" /\ j.op # r.op)
          BY <1>2, <1>3, <1>7, <2>1, <4>1, <4>3
        <5> QED
          BY <1>2, <1>4, <1>5, <4>1, <4>3, <5>1 DEF Effect
      <4> QED
        BY <4>2, <4>3
    <3>2. CASE m \notin t.got
      <4>1. m = n /\ r.act = "prepare" /\ r.from = c
        BY <1>4, <2>2, <3>2 DEF Goes
      <4>2. r.op = t.op /\ r.rev = t.rev
        BY <1>2, <1>4, <4>1, Waits, Constants DEF Asked, LInv
      <4>3. t.act = "prepare" /\ t.way = "prepare" /\ t.pc = "working" /\ n \in t.left
        BY <1>4, <2>1, <4>1 DEF ActsOf
      <4>4. j.op # r.op
        BY <1>5, <4>2, <4>3 DEF CourseOK, PrepareOK
      <4> QED
        BY <1>2, <1>4, <1>5, <4>1, <4>2, <4>4 DEF Effect
    <3> QED
      BY <3>1, <3>2
  <2>3. ASSUME u.pc = "working", NEW m \in Nodes, NEW x \in Out(m)', x.op = u.op PROVE x.from = c
    <3>1. t.op # 0
      BY <1>4 DEF LInv, TaskInv, TaskOK, Types
    <3>2. PICK y \in Out(m) : Trace(x, y)
      BY <1>2, <1>4, <2>3, <3>1 DEF Flows, Fewer, NoCommand
    <3>3. y.from = c
      BY <1>4, <1>7, <2>1, <2>3, <3>2 DEF ForwardOK, Trace
    <3> QED
      BY <2>3, <3>2, <3>3 DEF Trace
  <2>4. u.nodes = Nodes
    BY <1>5, <1>7, <2>1 DEF ForwardOK
  <2> QED
    BY <2>2, <2>3, <2>4 DEF ForwardOK
<1>9. t.way = "prepare" => PrepareOK(task[c])'
  <2>1. SUFFICES ASSUME t.way = "prepare" PROVE PrepareOK(task[c])'
    OBVIOUS
  <2>2. PrepareOK(t) /\ t.act \in {"prepare", "end"} /\ t.nodes = Nodes
    BY <1>4, <1>5, <1>7, <2>1 DEF CourseOK, LInv, TaskInv, TaskOK, ActsOf, ForwardOK
  <2>3. CASE u = t /\ (r.from = c => Len(r.left) # 1)
    <3>1. r.act = "prepare" => Len(r.left) = 1
      BY <1>2, LeftIs
    <3>2. t.pc = "working" => r.op # t.op
      BY <1>2, <1>4, <1>7, <2>1, <2>2, <2>3, <3>1 DEF Actions
    <3>3. t.pc = "working" => /\ \A m \in Nodes : journal'[m].op = t.op => journal'[m].state = "prepared"
                              /\ t.act = "prepare" => \A m \in t.left : journal'[m].op # t.op
      <4>1. SUFFICES ASSUME t.pc = "working" PROVE
              \A m \in Nodes : /\ journal'[m].op = t.op => journal[m].op = t.op /\ journal'[m].state = journal[m].state
        BY <1>5, <2>2, <4>1 DEF PrepareOK, CourseOK
      <4>2. ASSUME NEW m \in Nodes, journal'[m].op = t.op
            PROVE  journal[m].op = t.op /\ journal'[m].state = journal[m].state
        <5>1. CASE m # n
          BY <1>2, <4>2, <5>1 DEF Effect, Alike
        <5>2. CASE m = n
          BY <1>2, <1>7, <2>1, <3>2, <4>1, <4>2, <5>2 DEF Effect
        <5> QED
          BY <5>1, <5>2
      <4> QED
        BY <4>2
    <3> QED
      BY <2>2, <2>3, <3>3 DEF PrepareOK
  <2>4. CASE ~ (u = t /\ (r.from = c => Len(r.left) # 1))
    <3>1. /\ r.from = c /\ n \in t.left /\ t.act = r.act /\ u.left = (IF t.left = {n} THEN t.nodes ELSE t.left \ {n})
          /\ u.act = (IF t.left = {n} THEN Then(t.way, r.act) ELSE r.act)
          /\ u.got = (IF r.act = "prepare" THEN t.got \cup {n} ELSE t.got)
          /\ t.pc = "working" /\ r.op = t.op
      BY <1>4, <2>4 DEF Goes
    <3>2. r.act = "prepare" /\ (t.left = {n} => u.act = "end")
      <4>1. r.act = "prepare"
        BY <1>2, <2>2, <3>1 DEF Actions
      <4> QED
        BY <3>1, <4>1, <2>1 DEF Then
    <3>3. /\ journal'[n].op = t.op /\ journal'[n].state = "prepared"
          /\ \A m \in Nodes : m # n => journal'[m] = journal[m]
      <4>1. j.op # r.op
        BY <2>2, <3>1, <3>2 DEF PrepareOK
      <4> QED
        BY <1>2, <3>1, <3>2, <4>1 DEF Effect, Alike
    <3>4. t.got = Nodes \ t.left /\ t.left \subseteq Nodes
      BY <1>5, <2>2, <3>1, <3>2 DEF PrepareOK, Tasks
    <3>5. /\ u.act = "prepare" => u.got = Nodes \ u.left
          /\ u.act = "end" => u.got = Nodes
      <4>1. CASE t.left = {n}
        BY <2>2, <3>1, <3>2, <3>4, <4>1
      <4>2. CASE t.left # {n}
        BY <2>2, <3>1, <3>2, <3>4, <4>2
      <4> QED
        BY <4>1, <4>2
    <3>6. \A m \in Nodes : journal'[m].op = u.op => journal'[m].state = "prepared"
      BY <1>4, <2>2, <3>1, <3>3 DEF PrepareOK
    <3>7. u.act = "prepare" => \A m \in u.left : journal'[m].op # u.op
      <4>1. SUFFICES ASSUME u.act = "prepare", NEW m \in u.left PROVE journal'[m].op # u.op
        OBVIOUS
      <4>2. m \in t.left /\ m # n /\ m \in Nodes
        BY <3>1, <3>2, <3>4, <4>1
      <4> QED
        BY <1>4, <2>2, <3>1, <3>2, <3>3, <4>2 DEF PrepareOK
    <3> QED
      BY <1>4, <3>5, <3>6, <3>7 DEF PrepareOK
  <2> QED
    BY <2>3, <2>4
<1>10. t.way = "apply" => u.got = Nodes /\ (u.pc = "working" => PhaseOK(task[c])')
  <2>1. SUFFICES ASSUME t.way = "apply" PROVE u.got = Nodes /\ (u.pc = "working" => PhaseOK(task[c])')
    OBVIOUS
  <2>2. t.got = Nodes /\ t.nodes = Nodes /\ \A m \in Nodes : journal[m].op = t.op /\ journal[m].rev = t.rev
    BY <1>5, <1>7, <2>1 DEF CourseOK, ForwardOK
  <2>3. u.got = Nodes
    BY <1>4, <2>1, <2>2 DEF Goes, ActsOf
  <2>4. SUFFICES ASSUME u.pc = "working" PROVE PhaseOK(task[c])'
    BY <2>3
  <2>5. PhaseOK(t) /\ t.pc = "working"
    BY <1>4, <1>5, <2>1, <2>4 DEF CourseOK
  <2>6. /\ r.from = c /\ r.act = t.act /\ n \in t.left /\ r.op = t.op /\ r.act \in ActsOf("apply") /\ j.op = r.op
        /\ r.act \in {"quiesce", "install", "worker", "core", "finish"}
    <3>1. ~ (r.act = "prepare" /\ j.op # r.op)
      BY <1>2, <1>3, <1>7, <2>1, <2>2
    <3>2. r.op = t.op
      BY <1>2, <2>2, <3>1
    <3>3. r.from = c /\ r.act = t.act /\ n \in t.left /\ r.act \in ActsOf("apply")
      BY <1>4, <1>7, <2>1, <2>5, <3>2
    <3> QED
      BY <1>2, <2>2, <3>2, <3>3 DEF ActsOf, Actions
  <2>7. /\ \A m \in Nodes : m # n => /\ journal'[m] = journal[m] /\ Down(m)' = Down(m)
                                     /\ worker'[m] = worker[m] /\ core'[m] = core[m]
        /\ Down(n)' <=> worker'[n] = Stopped /\ core'[n] = Stopped
        /\ journal'[n].state \in {j.state, Reached(r.act)}
        /\ Len(r.left) = 1 => journal'[n].state = Reached(r.act)
        /\ r.act = "quiesce" /\ Len(r.left) = 1 => Down(n)'
        /\ r.act \in {"install", "finish"} => worker'[n] = worker[n] /\ core'[n] = core[n]
    BY <1>2, <2>6 DEF Effect, Alike, Down
  <2>8. \/ u = t
        \/ /\ Len(r.left) = 1 /\ u.left = (IF t.left = {n} THEN Nodes ELSE t.left \ {n})
           /\ u.act = (IF t.left = {n} THEN Then("apply", r.act) ELSE r.act)
           /\ u.sound = (t.sound /\ (r.act = "finish" => Serves(n, t.rev)))
    BY <1>4, <2>1, <2>2 DEF Goes
  <2>9. CASE r.act = "quiesce"
    <3>1. \A m \in Nodes : journal'[m].state \in {"prepared", "quiesced"}
      BY <2>5, <2>6, <2>7, <2>9 DEF PhaseOK, Reached
    <3>2. \A m \in Nodes : m # n /\ m \notin t.left => journal'[m].state = "quiesced" /\ Down(m)'
      BY <2>5, <2>6, <2>7, <2>9 DEF PhaseOK
    <3>3. CASE u = t
      BY <2>6, <2>9, <3>1, <3>2, <3>3 DEF PhaseOK
    <3>4. CASE u # t
      <4>1. journal'[n].state = "quiesced" /\ Down(n)'
        BY <2>7, <2>8, <2>9, <3>4 DEF Reached
      <4>2. CASE t.left = {n}
        <5>1. u.act = "install" /\ u.left = Nodes
          BY <2>8, <2>9, <3>4, <4>2 DEF Then
        <5> QED
          BY <3>2, <4>1, <4>2, <5>1 DEF PhaseOK
      <4>3. CASE t.left # {n}
        <5>1. u.act = "quiesce" /\ u.left = t.left \ {n}
          BY <2>8, <2>9, <3>4, <4>3
        <5> QED
          BY <3>1, <3>2, <4>1, <5>1 DEF PhaseOK
      <4> QED
        BY <4>2, <4>3
    <3> QED
      BY <3>3, <3>4
  <2>10. CASE r.act = "install"
    <3>1. \A m \in Nodes : journal'[m].state \in {"quiesced", "installed"} /\ Down(m)'
      BY <2>5, <2>6, <2>7, <2>10 DEF PhaseOK, Reached, Down
    <3>2. \A m \in Nodes : m # n /\ m \notin t.left => journal'[m].state = "installed"
      BY <2>5, <2>6, <2>7, <2>10 DEF PhaseOK
    <3>3. CASE u = t
      BY <2>6, <2>10, <3>1, <3>2, <3>3 DEF PhaseOK
    <3>4. CASE u # t
      <4>1. journal'[n].state = "installed"
        BY <2>7, <2>8, <2>10, <3>4 DEF Reached
      <4>2. CASE t.left = {n}
        <5>1. u.act = "worker"
          BY <2>8, <2>10, <3>4, <4>2 DEF Then
        <5> QED
          BY <5>1 DEF PhaseOK
      <4>3. CASE t.left # {n}
        <5>1. u.act = "install" /\ u.left = t.left \ {n}
          BY <2>8, <2>10, <3>4, <4>3
        <5> QED
          BY <3>1, <3>2, <4>1, <5>1 DEF PhaseOK
      <4> QED
        BY <4>2, <4>3
    <3> QED
      BY <3>3, <3>4
  <2>11. CASE r.act \in {"worker", "core"}
    <3>1. u.act \in {"worker", "core"} \/ (u.act = "finish" /\ u.left = Nodes)
      BY <2>6, <2>8, <2>11 DEF Then
    <3> QED
      BY <3>1 DEF PhaseOK
  <2>12. CASE r.act = "finish"
    <3>1. t.sound => \A m \in Nodes : m # n /\ m \notin t.left => journal'[m].state = "complete" /\ worker'[m] = t.rev /\ core'[m] = t.rev
      BY <2>5, <2>6, <2>7, <2>12 DEF PhaseOK, Serves
    <3>2. CASE u = t
      <4>1. t.sound => \A m \in Nodes : m \notin t.left => journal'[m].state = "complete" /\ worker'[m] = t.rev /\ core'[m] = t.rev
        BY <2>6, <3>1
      <4>2. u.act = "finish" /\ u.left = t.left /\ u.sound = t.sound
        BY <2>6, <2>12, <3>2
      <4> QED
        BY <1>5, <4>1, <4>2 DEF PhaseOK, Serves
    <3>3. CASE u # t
      <4>1. journal'[n].state = "complete" /\ (u.sound => t.sound /\ worker'[n] = t.rev /\ core'[n] = t.rev)
        BY <2>7, <2>8, <2>12, <3>3 DEF Reached, Serves
      <4>2. u.act \in {"finish", "end"} /\ (t.left = {n} \/ (u.left = t.left \ {n} /\ u.act = "finish"))
        BY <2>8, <2>12, <3>3 DEF Then
      <4>3. u.sound => \A m \in Nodes : (u.act = "end" \/ (u.act = "finish" /\ m \notin u.left)) =>
               journal'[m].state = "complete" /\ worker'[m] = t.rev /\ core'[m] = t.rev
        <5>1. SUFFICES ASSUME u.sound, NEW m \in Nodes, u.act = "end" \/ (u.act = "finish" /\ m \notin u.left), m # n
                       PROVE  journal'[m].state = "complete" /\ worker'[m] = t.rev /\ core'[m] = t.rev
          BY <4>1
        <5>2. m \notin t.left
          BY <4>2, <5>1
        <5> QED
          BY <3>1, <4>1, <5>1, <5>2
      <4> QED
        BY <1>5, <4>2, <4>3 DEF PhaseOK, Serves
    <3> QED
      BY <3>2, <3>3
  <2> QED
    BY <2>6, <2>9, <2>10, <2>11, <2>12
<1> QED
  BY <1>3, <1>4, <1>5, <1>6, <1>8, <1>9, <1>10 DEF CourseOK

LEMMA PerformIs ==
  ASSUME LInv, MInv, NEW n \in Nodes, Performs(n)
  PROVE  LET r == busy[n]
             j == journal[n] IN
         /\ Effect(n, r, j) /\ r \in Out(n) /\ Flows
         /\ r \in Works /\ r.left \in Lefts(r.act) /\ r.act \in Actions /\ Len(r.left) \in 1 .. 3
         /\ r.op \in 1 .. runs /\ j.op <= runs /\ j \in Entries /\ JournalOK(j, bundle[n]) /\ WorkOK(r, j, bundle[n], core[n])
         /\ r.act # "prepare" => /\ j.op = r.op /\ j.rev = r.rev /\ j.state \in Phases(r.act) /\ j.state # "idle"
                                 /\ j.prev \in Revisions
         /\ \A c \in Nodes :
               /\ Goes(c, n, r) /\ (Active(task'[c]) <=> Active(task[c]))
               /\ task'[c].pc = task[c].pc /\ task'[c].op = task[c].op /\ task'[c].way = task[c].way
               /\ r.from = c => /\ task[c].waits /\ task[c].act = r.act /\ task[c].op = r.op
                                /\ task[c].pc = "working" /\ n \in task[c].left /\ task[c].act \in ActsOf(task[c].way)
<1> DEFINE r == busy[n]
           j == journal[n]
<1>1. PICK s : Step(n, s)
  BY EffectIs
<1>2. Effect(n, r, j) /\ Flows /\ r \in Out(n)
  BY <1>1, EffectIs, StepFlows DEF LInv, Out
<1>3. /\ r \in Works /\ r.left \in Lefts(r.act) /\ r.act \in Actions /\ Len(r.left) \in 1 .. 3
      /\ r.op \in 1 .. runs /\ j.op <= runs /\ j \in Entries /\ JournalOK(j, bundle[n]) /\ WorkOK(r, j, bundle[n], core[n])
      /\ r.act # "prepare" => /\ j.op = r.op /\ j.rev = r.rev /\ j.state \in Phases(r.act) /\ j.state # "idle"
                              /\ j.prev \in Revisions
  BY <1>1, WorkIs
<1>4. ASSUME NEW c \in Nodes
      PROVE  /\ Goes(c, n, r) /\ (Active(task'[c]) <=> Active(task[c]))
             /\ task'[c].pc = task[c].pc /\ task'[c].op = task[c].op /\ task'[c].way = task[c].way
             /\ r.from = c => /\ task[c].waits /\ task[c].act = r.act /\ task[c].op = r.op
                              /\ task[c].pc = "working" /\ n \in task[c].left /\ task[c].act \in ActsOf(task[c].way)
  BY <1>1, GoesIs
<1> QED
  BY <1>2, <1>3, <1>4

\* Where the old revision is all that runs, the agents' steps keep it so ...
LEMMA CalmPerforms ==
  ASSUME LInv, LInv', MInv, NEW n \in Nodes, Performs(n), NEW v \in Revisions, Calm(v)
  PROVE  Runs(v)' /\ \A m \in Nodes : Harmless(m, v)' \/ Closed(m, v)'
<1> DEFINE r == busy[n]
           j == journal[n]
<1>1. /\ Effect(n, r, j) /\ r \in Out(n) /\ Flows
      /\ r \in Works /\ r.act \in Actions
      /\ JournalOK(j, bundle[n]) /\ WorkOK(r, j, bundle[n], core[n])
      /\ r.act # "prepare" => j.op = r.op /\ j.state \in Phases(r.act) /\ j.state # "idle"
      /\ \A c \in Nodes : (Active(task'[c]) <=> Active(task[c])) /\ task'[c].op = task[c].op
  BY PerformIs
<1>2. Runs(v) /\ \A m \in Nodes : Harmless(m, v) \/ Closed(m, v)
  BY DEF Calm
<1>3. \A m \in Nodes : m # n => Alike(m)
  BY <1>1 DEF Effect
<1>4. ASSUME Closed(n, v), r.act # "prepare" PROVE r.act = "finish" /\ j.state = "complete"
  <2>1. j.state = "complete" /\ r.act # "quiesce"
    BY <1>1, <1>4 DEF Closed
  <2> QED
    BY <1>1, <1>4, <2>1 DEF Phases, Actions
<1>5. ASSUME Harmless(n, v), r.act # "prepare"
      PROVE  /\ r.act \in {"quiesce", "install", "restore", "old_worker", "old_core", "rolled_back"}
             /\ Reached(r.act) \in AtOld \cup {"quiesced", "installed"}
             /\ r.act = "old_worker" \/ r.act = "old_core" => bundle[n] = v
  <2>1. r.act \notin {"worker", "core", "finish"}
    BY <1>1, <1>5 DEF Harmless, Phases, AtOld
  <2>2. r.act \in {"quiesce", "install", "restore", "old_worker", "old_core", "rolled_back"}
    BY <1>1, <1>5, <2>1 DEF Actions
  <2>3. r.act = "old_worker" \/ r.act = "old_core" => j.state \in AtOld
    BY <1>1 DEF Phases, AtOld
  <2> QED
    BY <1>1, <1>5, <2>2, <2>3 DEF Reached, AtOld, JournalOK, Harmless
<1>6. Runs(v)'
  <2>1. worker'[n] \in {Stopped, v} /\ core'[n] \in {Stopped, v}
    <3>1. worker[n] \in {Stopped, v} /\ core[n] \in {Stopped, v}
      BY <1>2 DEF Runs
    <3>2. CASE r.act \notin {"worker", "old_worker", "core", "old_core"}
      BY <1>1, <3>1, <3>2 DEF Effect
    <3>3. CASE r.act \in {"worker", "old_worker", "core", "old_core"}
      <4>1. bundle[n] = v
        BY <1>2, <1>4, <1>5, <3>3
      <4> QED
        BY <1>1, <3>1, <3>3, <4>1 DEF Effect
    <3> QED
      BY <3>2, <3>3
  <2> QED
    BY <1>2, <1>3, <2>1 DEF Runs, Alike
<1>7. CASE r.act = "prepare" /\ j.op # r.op
  <2>1. bundle[n] = v
    <3>1. j.state \in Terminal \cup {"idle"}
      BY <1>1, <1>7 DEF WorkOK
    <3>2. CASE Harmless(n, v)
      <4>1. j.state \in AtOld /\ j.prev = v
        BY <3>1, <3>2 DEF Harmless, Terminal, AtOld
      <4> QED
        BY <1>1, <4>1 DEF JournalOK
    <3> QED
      BY <1>2, <3>2 DEF Closed
  <2>2. Harmless(n, v)'
    BY <1>1, <1>7, <2>1 DEF Effect, Harmless, AtOld
  <2>3. ASSUME NEW m \in Nodes, m # n, Closed(m, v) PROVE Closed(m, v)'
    <3>1. journal'[m] = journal[m] /\ bundle'[m] = bundle[m]
      BY <1>3, <2>3 DEF Alike
    <3>2. journal'[n].op # journal[m].op
      BY <1>1, <1>7, <2>3 DEF Closed, Effect
    <3>3. \A p \in Nodes : journal'[p].op = journal[m].op =>
            journal[p].op = journal[m].op /\ (journal[p].state = "complete" => journal'[p].state = "complete")
      BY <1>3, <3>2 DEF Alike
    <3> QED
      BY <1>1, <2>3, <3>1, <3>3, ClosedStays
  <2>4. ASSUME NEW m \in Nodes, m # n, Harmless(m, v) PROVE Harmless(m, v)'
    BY <1>1, <1>3, <2>4, HarmlessStays DEF Alike
  <2> QED
    BY <1>2, <1>6, <2>2, <2>3, <2>4
<1>8. CASE r.act # "prepare" \/ j.op = r.op
  <2>1. /\ \A p \in Nodes : journal'[p].op = journal[p].op
        /\ \A p \in Nodes : journal[p].state = "complete" => journal'[p].state = "complete"
    <3>1. journal'[n].op = j.op
      BY <1>1, <1>8 DEF Effect
    <3>2. j.state = "complete" => journal'[n].state = "complete"
      <4>1. SUFFICES ASSUME j.state = "complete" PROVE journal'[n].state = "complete"
        OBVIOUS
      <4>2. CASE r.act = "prepare"
        BY <1>1, <1>8, <4>1, <4>2 DEF Effect
      <4>3. CASE r.act # "prepare"
        <5>1. Closed(n, v)
          BY <1>2, <4>1 DEF Harmless, AtOld
        <5>2. r.act = "finish"
          BY <1>4, <4>3, <5>1
        <5> QED
          BY <1>1, <4>1, <5>2 DEF Effect, Reached
      <4> QED
        BY <4>2, <4>3
    <3> QED
      BY <1>3, <3>1, <3>2 DEF Alike
  <2>2. ASSUME NEW m \in Nodes, Closed(m, v) PROVE Closed(m, v)'
    <3>1. journal'[m] = journal[m] /\ bundle'[m] = bundle[m]
      <4>1. CASE m # n
        BY <1>3, <4>1 DEF Alike
      <4>2. CASE m = n /\ r.act = "prepare"
        BY <1>1, <1>8, <4>2 DEF Effect
      <4>3. CASE m = n /\ r.act # "prepare"
        <5>1. r.act = "finish" /\ j.state = "complete"
          BY <1>4, <2>2, <4>3
        <5>2. /\ journal'[n].op = j.op /\ journal'[n].rev = j.rev /\ journal'[n].prev = j.prev
              /\ journal'[n].state = j.state /\ bundle'[n] = bundle[n]
          BY <1>1, <5>1 DEF Effect, Reached
        <5>3. journal'[n] \in Entries /\ j \in Entries
          BY DEF LInv, Types
        <5>4. journal'[n] = j
          BY <5>2, <5>3 DEF Entries
        <5> QED
          BY <4>3, <5>2, <5>4
      <4> QED
        BY <4>1, <4>2, <4>3
    <3> QED
      BY <1>1, <2>1, <2>2, <3>1, ClosedStays
  <2>3. ASSUME NEW m \in Nodes, Harmless(m, v) PROVE Harmless(m, v)'
    <3>1. CASE journal'[m] = journal[m]
      BY <1>1, <2>3, <3>1, HarmlessStays
    <3>2. CASE m = n /\ r.act # "prepare"
      <4>1. /\ r.act \in {"quiesce", "install", "restore", "old_worker", "old_core", "rolled_back"}
            /\ Reached(r.act) \in AtOld \cup {"quiesced", "installed"}
        BY <1>5, <2>3, <3>2
      <4>2. journal'[n].prev = v /\ journal'[n].state \in AtOld \cup {"quiesced", "installed"}
        BY <1>1, <2>3, <3>2, <4>1 DEF Effect, Harmless
      <4>3. ASSUME journal'[n].state = "installed", NEW x \in Out(n)', x.act = "worker" PROVE x.op # journal'[n].op
        <5>1. PICK y \in Out(n) : y.act = "worker" /\ y.op = x.op
          BY <1>1, <4>3 DEF Flows, Fewer, NoCommand, Trace
        <5>2. CASE j.state = "installed"
          BY <2>1, <2>3, <3>2, <5>1, <5>2 DEF Harmless
        <5>3. CASE j.state # "installed"
          <6>1. r.act = "install" /\ r.op = j.op
            BY <1>1, <3>2, <4>1, <4>3, <5>3 DEF Effect, Reached
          <6>2. r.op # y.op
            BY <1>1, <5>1, <6>1 DEF MInv, UniqueInv, Onward
          <6> QED
            BY <2>1, <5>1, <6>1, <6>2
        <5> QED
          BY <5>2, <5>3
      <4> QED
        BY <3>2, <4>2, <4>3 DEF Harmless
    <3>3. m # n \/ r.act = "prepare" => journal'[m] = journal[m]
      BY <1>1, <1>3, <1>8 DEF Effect, Alike
    <3> QED
      BY <3>1, <3>2, <3>3
  <2> QED
    BY <1>2, <1>6, <2>2, <2>3
<1> QED
  BY <1>7, <1>8

\* ... until the last node has the new bundles.
LEMMA CalmGoes ==
  ASSUME LInv, LInv', MInv, NEW n \in Nodes, Performs(n), NEW v \in Revisions, Calm(v)
  PROVE  Mode'
<1> DEFINE r == busy[n]
           j == journal[n]
<1>1. /\ Effect(n, r, j) /\ r \in Out(n) /\ Flows /\ runs' = runs
      /\ r \in Works /\ r.act \in Actions
      /\ \A c \in Nodes : /\ Goes(c, n, r) /\ (Active(task'[c]) <=> Active(task[c])) /\ task'[c].op = task[c].op
                          /\ task'[c].pc = task[c].pc /\ task'[c].way = task[c].way
  BY PerformIs DEF Effect
<1>2. Runs(v)' /\ \A m \in Nodes : Harmless(m, v)' \/ Closed(m, v)'
  BY CalmPerforms
<1>3. CASE \A c \in Nodes : ~ Waking(task'[c])
  <2>1. Calm(v)'
    BY <1>2, <1>3 DEF Calm, Waking
  <2> QED
    BY <2>1 DEF Mode
<1>4. CASE \E c \in Nodes : Waking(task'[c])
  <2>1. PICK c \in Nodes : Waking(task'[c])
    BY <1>4
  <2> DEFINE t == task[c]
             u == task'[c]
  <2>2. ~ Waking(t) /\ u.pc = "working" /\ u.way = "apply" /\ u.act \notin {"quiesce", "install"}
        /\ t.pc = "working" /\ t.way = "apply" /\ t.act \in {"quiesce", "install"} /\ u # t
    BY <1>1, <2>1 DEF Calm, Waking
  <2>3. /\ Len(r.left) = 1 /\ r.from = c /\ t.waits /\ u.waits = FALSE /\ t.left = {n} /\ t.act = "install"
        /\ r.act = "install" /\ u.act = "worker"
    <3>1. /\ Len(r.left) = 1 /\ r.from = c /\ t.waits /\ u.waits = FALSE /\ t.act = r.act
          /\ u.act = (IF t.left = {n} THEN Then("apply", r.act) ELSE r.act)
      <4>1. Goes(c, n, r)
        BY <1>1
      <4>2. u # t /\ t.way = "apply"
        BY <2>2
      <4> QED
        BY <4>1, <4>2 DEF Goes
    <3>2. t.left = {n} /\ u.act = Then("apply", r.act)
      BY <2>2, <3>1
    <3>3. r.act # "quiesce"
      BY <2>2, <3>2 DEF Then
    <3> QED
      BY <2>2, <3>1, <3>2, <3>3 DEF Then
  <2>20. /\ Active(t) /\ CourseOK(t, c, runs) /\ t \in Tasks /\ t.op \in 1 .. runs /\ t.rev \in Revisions
         /\ runs \in Nat
    <3>1. Active(t) /\ t \in Tasks /\ TaskOK(t, job[c], runs) /\ runs \in Nat
      BY <2>2, Constants DEF Active, LInv, TaskInv, Types
    <3>2. CourseOK(t, c, runs)
      BY <3>1 DEF MInv, CourseInv
    <3> QED
      BY <2>2, <3>1, <3>2 DEF TaskOK
  <2>21. PICK k \in 1 .. runs, R \in Revisions : k = t.op /\ R = t.rev
    BY <2>20
  <2>4. Active(t) /\ CourseOK(t, c, runs) /\ t \in Tasks /\ k \in 1 .. runs /\ R \in Revisions /\ runs \in Nat
    BY <2>20
  <2>5. k = runs /\ ForwardOK(t, c) /\ t.got = Nodes /\ PhaseOK(t)
    BY <2>2, <2>4, <2>21 DEF CourseOK
  <2>6. ASSUME NEW m \in Nodes
        PROVE  /\ journal[m].op = k /\ journal[m].rev = R /\ journal[m].prev = v /\ Down(m)
               /\ m # n => journal[m].state = "installed"
    <3>1. journal[m].op = k /\ journal[m].rev = R /\ Down(m) /\ (m # n => journal[m].state = "installed")
      BY <2>3, <2>5, <2>21 DEF ForwardOK, PhaseOK
    <3>2. ~ Closed(m, v)
      BY <2>4, <2>21, <3>1 DEF Closed
    <3>3. journal[m].prev = v
      BY <3>2 DEF Calm, Harmless
    <3> QED
      BY <3>1, <3>3
  <2>7. ASSUME NEW m \in Nodes
        PROVE  /\ journal'[m].op = k /\ journal'[m].rev = R /\ journal'[m].prev = v
               /\ journal'[m].state = "installed" /\ worker'[m] = Stopped /\ core'[m] = Stopped
    <3>1. CASE m # n
      BY <1>1, <2>6, <3>1 DEF Effect, Alike, Down
    <3>2. CASE m = n
      BY <1>1, <2>3, <2>6, <3>2 DEF Effect, Down, Reached
    <3> QED
      BY <3>1, <3>2
  <2>8. ASSUME NEW m \in Nodes, NEW x \in Out(m)', x.op = k PROVE FALSE
    <3>1. k # 0
      BY <2>4
    <3>2. PICK y \in Out(m) : Trace(x, y)
      BY <1>1, <2>8, <3>1 DEF Flows, Fewer, NoCommand
    <3>3. y.from = c
      BY <2>2, <2>5, <2>8, <2>21, <3>2 DEF ForwardOK, Trace
    <3>4. x.from = c
      BY <2>2, <3>2, <3>3 DEF Trace
    <3>5. task'[c] = task[c]
      BY <1>1, <3>4, Constants DEF Flows, Answered
    <3> QED
      BY <2>2, <3>5
  <2>9. \A d \in Nodes : Active(task'[d]) => d = c
    BY <1>1, <2>4 DEF MInv, SingleInv, Active
  <2>10. Conducts(task[c])'
    BY <2>2, <2>3 DEF Conducts
  <2>11. \A m \in Nodes : OnTheWay(m, k, R, v)'
    <3>1. SUFFICES ASSUME NEW m \in Nodes
                   PROVE  /\ journal'[m].op = k /\ journal'[m].rev = R /\ journal'[m].prev = v
                          /\ journal'[m].state \in AtNew \cup {"quiesced"}
                          /\ runs' > k => journal'[m].state \in {"complete", "quiesced"}
                          /\ \A x \in Out(m)' : x.op = k => x.act \in {"quiesce", "worker", "core", "finish"}
                          /\ Quiet(m)' \/ (\E x \in Out(m)' : x.op = k /\ x.act = "quiesce") =>
                                \A p \in Nodes : p < m => Quiet(p)'
      BY DEF OnTheWay
    <3>2. ~ (runs' > k)
      BY <1>1, <2>4, <2>5
    <3> QED
      BY <2>7, <2>8, <3>2 DEF AtNew, Quiet
  <2>12. Runs(R)'
    BY <2>7 DEF Runs
  <2>13. ~ (runs' > k)
    BY <1>1, <2>4, <2>5
  <2>14. Going(k, R, v)'
    BY <2>9, <2>10, <2>11, <2>12, <2>13 DEF Going
  <2>15. k \in 1 .. runs'
    BY <1>1, <2>4
  <2> QED
    BY <2>4, <2>14, <2>15 DEF Mode
<1> QED
  BY <1>3, <1>4

\* Where the new revision is all that runs, the agents' steps keep it so, until
\* every node is stopped to go back or the next operation begins.
LEMMA GoingGoes ==
  ASSUME LInv, LInv', MInv, NEW n \in Nodes, Performs(n),
         NEW k \in 1 .. runs, NEW R \in Revisions, NEW P \in Revisions, Going(k, R, P)
  PROVE  Mode'
<1> DEFINE r == busy[n]
           j == journal[n]
<1>1. /\ Effect(n, r, j) /\ r \in Out(n) /\ Flows /\ runs' = runs
      /\ r \in Works /\ r.act \in Actions /\ Len(r.left) \in 1 .. 3 /\ r.op \in 1 .. runs
      /\ JournalOK(j, bundle[n]) /\ WorkOK(r, j, bundle[n], core[n])
      /\ r.act # "prepare" => j.op = r.op /\ j.state \in Phases(r.act) /\ j.state # "idle"
  BY PerformIs DEF Effect
<1>2. ASSUME NEW c \in Nodes
      PROVE  /\ Goes(c, n, r) /\ (Active(task'[c]) <=> Active(task[c])) /\ task'[c].op = task[c].op
             /\ task'[c].pc = task[c].pc /\ task'[c].way = task[c].way
             /\ r.from = c => task[c].act = r.act /\ task[c].pc = "working" /\ n \in task[c].left
  BY PerformIs
<1>3. /\ Runs(R) /\ \A m \in Nodes : OnTheWay(m, k, R, P)
      /\ \A c \in Nodes : Active(task[c]) /\ task[c].op = k => Conducts(task[c]) /\ (runs > k => Quiet(1))
  BY DEF Going
<1>4. /\ \A m \in Nodes : m # n => Alike(m)
      /\ OnTheWay(n, k, R, P) /\ j.op = k /\ j.rev = R /\ j.prev = P /\ j.state \in AtNew \cup {"quiesced"}
  BY <1>1, <1>3 DEF Effect, OnTheWay
<1>5. /\ runs \in Nat /\ k \in Nat /\ r.op \in Nat /\ Nodes \subseteq Nat /\ 1 \in Nodes
      /\ \A m \in Nodes : m = 1 \/ 1 < m
  <2>1. /\ runs \in Nat /\ Nodes \subseteq Nat /\ 1 \in Nodes
    BY Constants DEF LInv, Types
  <2>3. ASSUME NEW m \in Nodes PROVE m = 1 \/ 1 < m
    BY <2>3, Constants
  <2>2. k \in Nat /\ r.op \in Nat
    BY <1>1, <2>1
  <2> QED
    BY <2>1, <2>2, <2>3
<1>6. CASE r.act = "prepare"
  <2>1. r.op # k /\ r.op > k /\ runs > k
    <3>1. r.op # k
      BY <1>1, <1>4, <1>6 DEF OnTheWay
    <3>2. r.op > j.op
      BY <1>1, <1>6 DEF MInv, OrderInv
    <3> QED
      BY <1>1, <1>4, <1>5, <3>1, <3>2
  <2>2. n = 1
    <3>1. \A m \in Nodes : m < n => journal[m].op >= r.op
      BY <1>1, <1>6 DEF MInv, OrderInv
    <3>2. journal[1].op = k
      BY <1>3, <1>5 DEF OnTheWay
    <3> QED
      BY <1>5, <2>1, <3>1, <3>2
  <2>3. j.state = "complete"
    <3>1. j.state \in Terminal \cup {"idle"}
      BY <1>1, <1>4, <1>6, <2>1 DEF WorkOK
    <3> QED
      BY <1>4, <3>1 DEF Terminal, AtNew
  <2>4. ASSUME NEW m \in Nodes PROVE ~ Quiet(m)
    <3>1. ~ Quiet(1)
      BY <2>2, <2>3 DEF Quiet
    <3>2. Quiet(m) /\ 1 < m => Quiet(1)
      BY <1>3, <1>5 DEF OnTheWay
    <3> QED
      BY <1>5, <3>1, <3>2
  <2>5. ASSUME NEW m \in Nodes PROVE /\ journal[m].op = k /\ journal[m].rev = R /\ journal[m].state = "complete"
                                     /\ bundle[m] = R
    <3>1. OnTheWay(m, k, R, P)
      BY <1>3
    <3>2. journal[m].op = k /\ journal[m].rev = R /\ journal[m].state = "complete"
      BY <2>1, <2>4, <3>1 DEF OnTheWay, Quiet
    <3> QED
      BY <3>2 DEF LInv, NodeInv, JournalOK, AtNew
  <2>6. ASSUME NEW c \in Nodes, Active(task[c]) PROVE task[c].op # k
    BY <1>3, <1>5, <2>1, <2>4, <2>6
  <2>7. ASSUME NEW m \in Nodes, NEW x \in Out(m)', x.op = k PROVE x.act # "prepare" /\ (m # 1 => x.act # "quiesce")
    <3>1. x # NoCommand
      BY <1>5, <2>7 DEF NoCommand
    <3>2. PICK y \in Out(m) : y.op = k /\ y.act = x.act
      BY <1>1, <2>7, <3>1 DEF Flows, Fewer, Trace
    <3>3. OnTheWay(m, k, R, P) /\ (m # 1 => 1 < m)
      BY <1>3, <1>5
    <3>4. y.act # "prepare"
      BY <3>2, <3>3 DEF OnTheWay
    <3>5. m # 1 => y.act # "quiesce"
      BY <1>5, <2>4, <3>2, <3>3 DEF OnTheWay
    <3> QED
      BY <3>2, <3>4, <3>5
  <2>8. /\ journal'[n].op = r.op /\ journal'[n].prev = R /\ journal'[n].state = "prepared"
        /\ bundle'[n] = bundle[n] /\ worker'[n] = worker[n] /\ core'[n] = core[n]
    BY <1>1, <1>4, <1>6, <2>1, <2>5 DEF Effect
  <2>9. Runs(R)'
    BY <1>3, <1>4, <2>8 DEF Runs, Alike
  <2>10. Harmless(n, R)'
    BY <2>8 DEF Harmless, AtOld
  <2>11. ASSUME NEW m \in Nodes, m # n PROVE Closed(m, R)'
    <3>1. journal'[m].op = k /\ journal'[m].state = "complete" /\ bundle'[m] = R
      BY <1>4, <2>5, <2>11 DEF Alike
    <3>2. \A p \in Nodes : journal'[p].op = k => journal'[p].state = "complete"
      BY <1>4, <2>1, <2>5, <2>8 DEF Alike
    <3>3. \A x \in Out(m)' : x.act = "quiesce" => x.op # k
      BY <2>2, <2>7, <2>11
    <3>4. \A c \in Nodes : Active(task'[c]) => task'[c].op # k
      BY <1>2, <2>6
    <3>5. \A p \in Nodes : \A x \in Out(p)' : x.act = "prepare" => x.op # k
      BY <2>7
    <3> QED
      BY <3>1, <3>2, <3>3, <3>4, <3>5 DEF Closed
  <2>12. ASSUME NEW c \in Nodes, Waking(task'[c]) PROVE FALSE
    <3>1. Active(task[c]) /\ task[c].way = "apply"
      BY <1>2, <2>12 DEF Waking, Active
    <3>2. task[c].op = runs /\ task[c].got = Nodes /\ ForwardOK(task[c], c)
      BY <3>1 DEF MInv, CourseInv, CourseOK
    <3>3. journal[1].op = runs
      BY <1>5, <3>2 DEF ForwardOK
    <3> QED
      BY <1>5, <2>1, <2>5, <3>3
  <2>13. Calm(R)'
    BY <2>9, <2>10, <2>11, <2>12 DEF Calm, Waking
  <2> QED
    BY <2>13 DEF Mode
<1>7. CASE r.act # "prepare"
  <2>1. /\ r.op = k /\ r.act \in {"quiesce", "worker", "core", "finish"} /\ j.state \in Phases(r.act)
        /\ journal'[n].op = k /\ journal'[n].rev = R /\ journal'[n].prev = P
        /\ journal'[n].state \in {j.state, Reached(r.act)}
        /\ (Len(r.left) = 1 => journal'[n].state = Reached(r.act)) /\ bundle'[n] = bundle[n]
        /\ r.act = "quiesce" => worker'[n] \in {worker[n], Stopped} /\ core'[n] \in {core[n], Stopped}
        /\ r.act = "quiesce" /\ Len(r.left) = 1 => Down(n)'
    BY <1>1, <1>4, <1>7 DEF Effect, OnTheWay, Down
  <2>2. r.act \in {"worker", "core"} => j.state \in {"installed", "worker_started"} /\ bundle[n] = R
    BY <1>1, <1>4, <2>1 DEF Phases, JournalOK, AtNew
  <2>3. Runs(R)'
    <3>1. worker[n] \in {Stopped, R} /\ core[n] \in {Stopped, R}
      BY <1>3 DEF Runs
    <3>2. worker'[n] \in {Stopped, R} /\ core'[n] \in {Stopped, R}
      BY <1>1, <2>1, <2>2, <3>1 DEF Effect
    <3> QED
      BY <1>3, <1>4, <3>2 DEF Runs, Alike
  <2>4. ASSUME NEW m \in Nodes, Quiet(m) PROVE Quiet(m)' /\ (Down(m) => Down(m)')
    <3>1. CASE m # n
      BY <1>4, <2>4, <3>1 DEF Quiet, Down, Alike
    <3>2. CASE m = n
      <4>1. r.act = "quiesce"
        BY <2>1, <2>4, <3>2 DEF Quiet, Phases
      <4> QED
        BY <2>1, <2>4, <3>2, <4>1 DEF Quiet, Down, Reached
    <3> QED
      BY <3>1, <3>2
  <2>5. /\ journal'[n].state \in AtNew \cup {"quiesced"}
        /\ runs > k => journal'[n].state \in {"complete", "quiesced"}
        /\ Quiet(n)' => Quiet(n) \/ r.act = "quiesce"
    <3>1. runs > k => j.state \in {"complete", "quiesced"}
      BY <1>4 DEF OnTheWay
    <3>2. CASE r.act = "quiesce"
      BY <1>4, <2>1, <3>1, <3>2 DEF Reached
    <3>3. CASE r.act = "finish"
      BY <1>4, <2>1, <3>1, <3>3 DEF Reached, AtNew, Quiet
    <3>4. CASE r.act \in {"worker", "core"}
      BY <1>4, <2>1, <2>2, <3>1, <3>4 DEF Reached, AtNew, Quiet
    <3> QED
      BY <2>1, <3>2, <3>3, <3>4
  <2>6. ASSUME NEW m \in Nodes PROVE OnTheWay(m, k, R, P)'
    <3>1. OnTheWay(m, k, R, P)
      BY <1>3
    <3>2. /\ journal'[m].op = k /\ journal'[m].rev = R /\ journal'[m].prev = P
          /\ journal'[m].state \in AtNew \cup {"quiesced"}
          /\ runs' > k => journal'[m].state \in {"complete", "quiesced"}
          /\ Quiet(m)' => Quiet(m) \/ (m = n /\ r.act = "quiesce")
      <4>1. CASE m = n
        BY <1>1, <2>1, <2>5, <4>1
      <4>2. CASE m # n
        BY <1>1, <1>4, <3>1, <4>2 DEF OnTheWay, Alike, Quiet
      <4> QED
        BY <4>1, <4>2
    <3>3. ASSUME NEW x \in Out(m)', x.op = k PROVE \E y \in Out(m) : y.op = k /\ y.act = x.act
      <4>1. x # NoCommand
        BY <1>5, <3>3 DEF NoCommand
      <4> QED
        BY <1>1, <3>3, <4>1 DEF Flows, Fewer, Trace
    <3>4. \A x \in Out(m)' : x.op = k => x.act \in {"quiesce", "worker", "core", "finish"}
      BY <3>1, <3>3 DEF OnTheWay
    <3>5. Quiet(m)' \/ (\E x \in Out(m)' : x.op = k /\ x.act = "quiesce") => \A p \in Nodes : p < m => Quiet(p)'
      <4>1. SUFFICES ASSUME Quiet(m)' \/ (\E x \in Out(m)' : x.op = k /\ x.act = "quiesce"), NEW p \in Nodes, p < m
                     PROVE  Quiet(p)'
        OBVIOUS
      <4>2. Quiet(m) \/ (\E y \in Out(m) : y.op = k /\ y.act = "quiesce")
        BY <1>1, <2>1, <3>2, <3>3, <4>1
      <4>3. Quiet(p)
        BY <3>1, <4>1, <4>2 DEF OnTheWay
      <4> QED
        BY <2>4, <4>3
    <3> QED
      BY <3>2, <3>4, <3>5 DEF OnTheWay
  <2>7. ASSUME NEW c \in Nodes, Active(task'[c]), task'[c].op = k
        PROVE  /\ Conducts(task[c]) /\ (runs > k => Quiet(1)')
    BY <1>2, <1>3, <1>5, <2>4, <2>7
  <2>8. CASE \A c \in Nodes : Active(task'[c]) /\ task'[c].op = k => Conducts(task[c])'
    <3>1. Going(k, R, P)'
      BY <1>1, <2>3, <2>6, <2>7, <2>8 DEF Going, Active
    <3>2. k \in 1 .. runs'
      BY <1>1
    <3> QED
      BY <3>1, <3>2 DEF Mode
  <2>9. CASE \E c \in Nodes : Active(task'[c]) /\ task'[c].op = k /\ ~ Conducts(task[c])'
    <3>1. PICK c \in Nodes : Active(task'[c]) /\ task'[c].op = k /\ ~ Conducts(task[c])'
      BY <2>9
    <3> DEFINE t == task[c]
               u == task'[c]
    <3>2. Conducts(t) /\ u.pc = t.pc /\ u.way = t.way /\ Goes(c, n, r)
      BY <1>2, <2>7, <3>1
    <3>3. u # t
      <4>1. SUFFICES ASSUME u = t PROVE Conducts(task[c])'
        BY <3>1
      <4>2. u.pc = "working" /\ u.way \in {"back", "recover"} => \A m \in Nodes \ u.left : Quiet(m)' /\ Down(m)'
        BY <2>4, <3>2, <4>1 DEF Conducts
      <4> QED
        BY <3>2, <4>1, <4>2 DEF Conducts
    <3>4. /\ Len(r.left) = 1 /\ r.from = c /\ t.act = r.act /\ t.pc = "working" /\ n \in t.left
          /\ u.nodes = t.nodes /\ u.left = (IF t.left = {n} THEN t.nodes ELSE t.left \ {n})
          /\ u.act = (IF t.left = {n} THEN Then(t.way, r.act) ELSE r.act)
      BY <1>2, <3>2, <3>3 DEF Goes
    <3>5. t.way \in {"back", "recover"}
      <4>1. t.way \in {"prepare", "apply", "back", "recover"}
        <5>1. t \in Tasks /\ TaskOK(t, job[c], runs) /\ Active(t)
          BY <1>2, <3>1 DEF LInv, Types, TaskInv
        <5> QED
          BY <5>1 DEF TaskOK, Tasks
      <4>2. t.way # "prepare"
        BY <3>2 DEF Conducts
      <4>3. t.way # "apply"
        <5>1. SUFFICES ASSUME t.way = "apply" PROVE Conducts(task[c])'
          BY <3>1
        <5>2. r.act \in {"worker", "core", "finish", "end"}
          BY <3>2, <3>4, <5>1 DEF Conducts
        <5>3. u.act \in {"worker", "core", "finish", "end"}
          BY <3>4, <5>1, <5>2 DEF Then
        <5> QED
          BY <3>2, <5>1, <5>3 DEF Conducts
      <4> QED
        BY <4>1, <4>2, <4>3
    <3>6. t.act = "quiesce" /\ t.nodes = Nodes /\ \A m \in Nodes \ t.left : Quiet(m) /\ Down(m)
      BY <3>2, <3>4, <3>5 DEF Conducts
    <3>7. Quiet(n)' /\ Down(n)'
      BY <2>1, <3>4, <3>6 DEF Quiet, Reached
    <3>8. \A m \in Nodes \ (t.left \ {n}) : Quiet(m)' /\ Down(m)'
      BY <2>4, <3>6, <3>7
    <3>9. t.left = {n}
      <4>1. SUFFICES ASSUME t.left # {n} PROVE Conducts(task[c])'
        BY <3>1
      <4>2. u.left = t.left \ {n} /\ u.act = "quiesce" /\ u.nodes = Nodes
        BY <3>4, <3>6, <4>1
      <4> QED
        BY <3>2, <3>5, <3>8, <4>2 DEF Conducts
    <3>10. ASSUME NEW m \in Nodes PROVE Quiet(m)' /\ Down(m)' /\ journal'[m].prev = P
      <4>1. Quiet(m)' /\ Down(m)'
        BY <3>8, <3>9
      <4>2. journal'[m].prev = P
        BY <2>6 DEF OnTheWay
      <4> QED
        BY <4>1, <4>2
    <3>11. \A d \in Nodes : ~ Waking(task'[d])
      <4>1. \A d \in Nodes : task'[d].pc = "working" => d = c
        BY <1>2, <3>1 DEF MInv, SingleInv, Active
      <4> QED
        BY <3>2, <3>5, <4>1 DEF Waking
    <3>12. \A m \in Nodes : Harmless(m, P)'
      BY <3>10 DEF Harmless, Quiet
    <3>13. Runs(P)'
      BY <3>10 DEF Runs, Down
    <3>14. Calm(P)'
      BY <3>11, <3>12, <3>13 DEF Calm, Waking
    <3> QED
      BY <3>14 DEF Mode
  <2> QED
    BY <2>8, <2>9
<1> QED
  BY <1>6, <1>7

LEMMA PerformsHold ==
  ASSUME LInv, LInv', MInv, NEW n \in Nodes, Performs(n)
  PROVE  MInv'
<1>1. SingleInv' /\ QueueInv' /\ OrderInv' /\ UniqueInv'
  BY PerformsOrder
<1>2. CourseInv'
  BY PerformsCourse
<1>3. Mode'
  BY CalmGoes, GoingGoes DEF MInv, Mode
<1> QED
  BY <1>1, <1>2, <1>3 DEF MInv

LEMMA StartsCalm == Init => MInv
<1> SUFFICES ASSUME Init PROVE MInv
  OBVIOUS
<1>1. \A n \in Nodes : /\ accepted[n] = <<>> /\ queue[n] = <<>> /\ busy[n] = NoCommand /\ task[n] = Idle
                       /\ journal[n].state = "idle" /\ bundle[n] = 1 /\ worker[n] = 1 /\ core[n] = 1
  BY DEF Init
<1>2. \A n \in Nodes : Out(n) = {NoCommand}
  BY <1>1, NoElements DEF Out, Waiting
<1>3. NoCommand.act = "none"
  BY DEF NoCommand
<1>4. \A c \in Nodes : task[c].pc = "idle" /\ ~ Active(task[c]) /\ ~ Waking(task[c])
  BY <1>1, IdleIs DEF Active, Waking
<1>5. QueueInv
  <2>1. DOMAIN (<<>>) = {}
    OBVIOUS
  <2> QED
    BY <1>1, <2>1 DEF QueueInv, LineAt, Line
<1>6. SingleInv /\ CourseInv
  BY <1>4 DEF SingleInv, CourseInv
<1>7. OrderInv /\ UniqueInv
  BY <1>2, <1>3 DEF OrderInv, UniqueInv, Onward
<1>8. Calm(1)
  <2>1. Runs(1)
    BY <1>1 DEF Runs
  <2>2. \A n \in Nodes : Closed(n, 1)
    BY <1>1, <1>2, <1>3, <1>4 DEF Closed
  <2> QED
    BY <1>4, <2>1, <2>2 DEF Calm
<1>9. 1 \in Revisions
  BY Constants DEF Revisions
<1> QED
  BY <1>5, <1>6, <1>7, <1>8, <1>9 DEF MInv, Mode

LEMMA StaysInMode ==
  ASSUME LInv, LInv', MInv, [Next]_vars, ~ together'
  PROVE  MInv'
<1>1. ASSUME NEW c \in Nodes, Looks(c) \/ Coordinator(c) PROVE MInv'
  BY <1>1, TurnsHold, SendsHold DEF Coordinator
<1>2. ASSUME NEW n \in Nodes, Node(n) PROVE MInv'
  <2>1. CASE Performs(n)
    BY <2>1, PerformsHold
  <2>2. CASE NotReady(n)
    BY <2>2, FailuresHold DEF NotReady
  <2> QED
    BY <1>2, <2>1, <2>2, FailuresHold DEF Node, Performs
<1>3. ASSUME NEW n \in Nodes, Fails(n) PROVE MInv'
  <2>1. CASE StepFails(n)
    BY <2>1, FailuresHold DEF StepFails
  <2> QED
    BY <1>3, <2>1, FailuresHold, TurnsHold DEF Fails
<1>4. CASE Saves \/ UNCHANGED vars
  <2>1. UNCHANGED <<journal, bundle, worker, core, accepted, queue, busy, task, job, stale, runs>>
    BY <1>4 DEF Saves, vars, agent, wire
  <2>2. (\A c \in Nodes : Fade(c) /\ Boots(c)) /\ StaysStale
    BY <2>1 DEF Fade, Boots, StaysStale
  <2>3. Flows
    BY <2>1, TaskFlows, Constants DEF LInv
  <2> QED
    BY <2>1, <2>2, <2>3, FailsHold
<1> QED
  BY <1>1, <1>2, <1>3, <1>4 DEF Next

\* Who is told of success has its revision running on every node.
LEMMA TellsOfSuccess ==
  ASSUME LInv, MInv, [Next]_vars, ~ together'
  PROVE  CompleteMeansServing
<1>1. SUFFICES ASSUME NEW c \in Nodes, job[c] # "complete", job'[c] = "complete", NEW n \in Nodes
               PROVE  Serves(n, task[c].rev)
  BY DEF CompleteMeansServing
<1>2. job \in [Nodes -> Jobs]
  BY DEF LInv, Types
<1>3. PICK d \in Nodes : AlreadyServes(d) \/ (Completes(d) /\ task[d].sound /\ Ends(d, "complete"))
  <2>1. job' # job
    BY <1>1
  <2>2. ASSUME NEW d \in Nodes, NEW s \in Jobs, job' = [job EXCEPT ![d] = s] PROVE s = "complete"
    BY <1>1, <1>2, <2>2
  <2>3. {"running", "idle", "failed", "rolled_back", "recovery_required"} \subseteq Jobs
    BY DEF Jobs
  <2>4. ASSUME NEW d \in Nodes, Looks(d) \/ Coordinator(d)
        PROVE  AlreadyServes(d) \/ (Completes(d) /\ task[d].sound /\ Ends(d, "complete"))
    <3>1. CASE \/ Looks(d) \/ Refuses(d) \/ Sends(d) \/ Drifts(d) \/ Agrees(d) \/ GoesBack(d)
      BY <2>1, <3>1 DEF Looks, Refuses, Sends, Drifts, Agrees, GoesBack
    <3>2. CASE Applies(d) \/ Recovers(d)
      BY <2>2, <2>3, <3>2 DEF Applies, Recovers, GoesAhead
    <3>3. CASE IsBack(d) \/ NeedsRecovery(d)
      <4>1. \E s \in {"rolled_back", "failed", "recovery_required"} : job' = [job EXCEPT ![d] = s]
        BY <3>3 DEF IsBack, NeedsRecovery, Ends
      <4> QED
        BY <2>2, <2>3, <4>1
    <3>4. CASE Completes(d)
      BY <2>1, <3>4 DEF Completes
    <3>5. CASE AlreadyServes(d)
      BY <3>5
    <3> QED
      BY <2>4, <3>1, <3>2, <3>3, <3>4, <3>5 DEF Coordinator
  <2>5. ASSUME NEW d \in Nodes, Node(d) PROVE FALSE
    BY <2>1, <2>5 DEF Node, Guards, Begins, Rejects, Prepares, Journals, StopsCore, StopsWorker, Breaks, Writes,
                      StartsWorker, StartsCore, NotReady, Abandons, Step
  <2>6. ASSUME NEW d \in Nodes, Fails(d) PROVE FALSE
    <3>1. CASE VoicesDiffer(d) \/ GivesUp(d) \/ CommandLost(d) \/ StepFails(d)
      BY <2>1, <3>1 DEF VoicesDiffer, GivesUp, CommandLost, StepFails, Abandons
    <3>2. CASE ControlPlaneDies(d) \/ PowerFails(d)
      BY <2>2, <2>3, <3>2 DEF ControlPlaneDies, PowerFails
    <3> QED
      BY <2>6, <3>1, <3>2 DEF Fails
  <2>7. ~ Saves /\ ~ UNCHANGED vars
    BY <2>1 DEF Saves, vars
  <2> QED
    BY <2>4, <2>5, <2>6, <2>7 DEF Next
<1>4. d = c
  BY <1>1, <1>2, <1>3 DEF AlreadyServes, Ends
<1>5. CASE AlreadyServes(d)
  BY <1>4, <1>5 DEF AlreadyServes, Decides
<1>6. CASE Completes(d) /\ task[d].sound
  <2>1. /\ task[c].pc = "working" /\ task[c].way = "apply" /\ task[c].act = "end" /\ task[c].sound
    BY <1>4, <1>6 DEF Completes
  <2>2. PhaseOK(task[c])
    BY <2>1 DEF MInv, CourseInv, CourseOK, Active
  <2> QED
    BY <2>1, <2>2 DEF PhaseOK
<1> QED
  BY <1>3, <1>5, <1>6

\* Once a start has gone ahead beside another control plane at work, that is
\* not forgotten.
LEMMA NotForgotten == ASSUME [Next]_vars, Marks, together PROVE together'
<1>1. ASSUME NEW c \in Nodes, Looks(c) \/ Applies(c) \/ Recovers(c) \/ Refuses(c) \/ AlreadyServes(c) PROVE together'
  BY <1>1 DEF Looks, Applies, Recovers, Refuses, AlreadyServes, GoesAhead, Decides
<1>2. ASSUME NEW c \in Nodes, \/ Sends(c) \/ Drifts(c) \/ Agrees(c) \/ Completes(c) \/ IsBack(c)
                               \/ GoesBack(c) \/ NeedsRecovery(c)
      PROVE  together'
  BY <1>2 DEF Sends, Drifts, Agrees, Completes, IsBack, GoesBack, NeedsRecovery
<1>3. ASSUME NEW n \in Nodes, Node(n) PROVE together'
  BY <1>3 DEF Node, Guards, Begins, Rejects, Prepares, Journals, StopsCore, StopsWorker, Breaks, Writes,
              StartsWorker, StartsCore, NotReady, Abandons, Step
<1>4. ASSUME NEW n \in Nodes, Fails(n) PROVE together'
  BY <1>4 DEF Fails, VoicesDiffer, GivesUp, CommandLost, StepFails, Abandons, ControlPlaneDies, PowerFails
<1>5. CASE Saves \/ UNCHANGED vars
  BY <1>5 DEF Saves, vars
<1> QED
  BY <1>1, <1>2, <1>3, <1>4, <1>5 DEF Next, Coordinator

ModeInv == ~ together => MInv

LEMMA InMode == Spec => []ModeInv
<1>1. Init => ModeInv
  BY StartsCalm DEF ModeInv
<1>2. LInv /\ LInv' /\ Marks /\ ModeInv /\ [Next]_vars => ModeInv'
  BY StaysInMode, NotForgotten DEF ModeInv
<1> QED
  BY <1>1, <1>2, InLine, MarksAre, PTL DEF Spec

\* Until a start has gone ahead beside another control plane at work, no two
\* cores, and no core and worker, ever run on different revisions, on any nodes,
\* whatever fails. (start() goes ahead so when the other's job answers late, or
\* when it has read the journals while the other was at work.)
THEOREM OneRevision == Spec => [](together \/ OneRuntime)
<1>1. ModeInv => together \/ OneRuntime
  BY DEF ModeInv, MInv, Mode, Calm, Going, Runs, OneRuntime
<1> QED
  BY <1>1, InMode, PTL

\* AppliesWhole: what runs or would boot is whole, wherever a step leads, and
\* until a start has gone ahead beside another control plane at work it is of
\* one revision, and a job that tells of success leaves every node serving it.
THEOREM AppliedWhole == Spec => AppliesWhole
<1>1. LInv /\ Marks /\ ModeInv /\ [Next]_vars => (~ together' => CompleteMeansServing)
  BY TellsOfSuccess, NotForgotten DEF ModeInv
<1>2. Spec => []OneBundle
  <2>1. WholeBundle /\ (together \/ OneRuntime) => OneBundle
    BY DEF OneBundle
  <2> QED
    BY <2>1, OneRevision, WholeBundles, PTL
<1>3. Spec => [][OneBundle']_vars
  BY <1>2, PTL
<1>4. OneBundle' /\ (~ together' => CompleteMeansServing) => [OneBundle' /\ (~ together' => CompleteMeansServing)]_vars
  OBVIOUS
<1> QED
  BY <1>1, <1>3, <1>4, InMode, MarksAre, InLine, PTL DEF Spec, AppliesWhole
=============================================================================
