------------------------------ MODULE PageProofs ------------------------------
(***************************************************************************)
(* Theorems about SimPage, for every set of workspaces and any number of    *)
(* events.  The safety invariants of the page follow from Core: what is     *)
(* pending (a request at a worker, or a task left to run) is pending once,   *)
(* somebody waits for it, and if the page has not moved on since it was      *)
(* asked for, what it says is true of the sources on the page.              *)
(***************************************************************************)
EXTENDS SimPage, SequenceTheorems, TLAPS

-----------------------------------------------------------------------------
(* Sequences of requests and of tasks *)

JobsOf(s)  == {x.job : x \in Range(s)}
OneEach(s) == \A i, j \in DOMAIN s : s[i].job = s[j].job => i = j

LEMMA InRange ==
  ASSUME NEW S, NEW s \in Seq(S)
  PROVE  /\ DOMAIN s = 1..Len(s) /\ Len(s) \in Nat
         /\ \A i \in DOMAIN s : s[i] \in S /\ s[i] \in Range(s) /\ s[i].job \in JobsOf(s)
         /\ \A x \in Range(s) : x \in S /\ \E i \in DOMAIN s : s[i] = x
         /\ \A j \in JobsOf(s) : \E i \in DOMAIN s : s[i].job = j
  <1>1. DOMAIN s = 1..Len(s) /\ Len(s) \in Nat
    BY LenProperties
  <1>2. \A i \in DOMAIN s : s[i] \in S
    BY <1>1, ElementOfSeq
  <1> QED BY <1>1, <1>2 DEF Range, JobsOf

LEMMA Single ==
  ASSUME NEW S, NEW x \in S
  PROVE  /\ <<x>> \in Seq(S) /\ Range(<<x>>) = {x}
         /\ JobsOf(<<x>>) = {x.job} /\ OneEach(<<x>>)
  <1>1. <<x>> \in Seq(S) /\ DOMAIN <<x>> = {1} /\ <<x>>[1] = x
    OBVIOUS
  <1> QED BY <1>1 DEF Range, JobsOf, OneEach

LEMMA Empty ==
  ASSUME NEW S
  PROVE  /\ <<>> \in Seq(S) /\ Range(<<>>) = {}
         /\ JobsOf(<<>>) = {} /\ OneEach(<<>>)
  <1>1. <<>> \in Seq(S) /\ DOMAIN <<>> = {}
    OBVIOUS
  <1> QED BY <1>1 DEF Range, JobsOf, OneEach

LEMMA Joined ==
  ASSUME NEW S, NEW s \in Seq(S), NEW t \in Seq(S)
  PROVE  /\ s \o t \in Seq(S) /\ Range(s \o t) = Range(s) \cup Range(t)
         /\ JobsOf(s \o t) = JobsOf(s) \cup JobsOf(t)
         /\ OneEach(s) /\ OneEach(t) /\ JobsOf(s) \cap JobsOf(t) = {} => OneEach(s \o t)
  <1> DEFINE c == s \o t
  <1>1. /\ c \in Seq(S) /\ Len(c) = Len(s) + Len(t)
        /\ \A i \in 1..Len(s) + Len(t) : c[i] = IF i <= Len(s) THEN s[i] ELSE t[i - Len(s)]
    BY ConcatProperties
  <1>2. Range(c) = Range(s) \cup Range(t)
    BY RangeConcatenation
  <1>3. JobsOf(c) = JobsOf(s) \cup JobsOf(t)
    BY <1>2 DEF JobsOf
  <1>4. /\ DOMAIN s = 1..Len(s) /\ Len(s) \in Nat /\ DOMAIN t = 1..Len(t) /\ Len(t) \in Nat
        /\ DOMAIN c = 1..Len(s) + Len(t)
    BY <1>1, InRange
  <1> HIDE DEF c
  <1>5. ASSUME OneEach(s), OneEach(t), JobsOf(s) \cap JobsOf(t) = {} PROVE OneEach(c)
    <2> SUFFICES ASSUME NEW i \in DOMAIN c, NEW j \in DOMAIN c, c[i].job = c[j].job PROVE i = j
      BY DEF OneEach
    <2>1. ASSUME NEW a \in DOMAIN s, NEW b \in DOMAIN t PROVE s[a].job # t[b].job
      BY <1>5, InRange
    <2>2. \/ i \in DOMAIN s /\ c[i] = s[i]
          \/ i > Len(s) /\ i - Len(s) \in DOMAIN t /\ c[i] = t[i - Len(s)]
      BY <1>1, <1>4
    <2>3. \/ j \in DOMAIN s /\ c[j] = s[j]
          \/ j > Len(s) /\ j - Len(s) \in DOMAIN t /\ c[j] = t[j - Len(s)]
      BY <1>1, <1>4
    <2>4. i \in Nat /\ j \in Nat
      BY <1>4
    <2>5. CASE i \in DOMAIN s /\ c[i] = s[i] /\ j \in DOMAIN s /\ c[j] = s[j]
      BY <1>5, <2>5 DEF OneEach
    <2>6. CASE /\ i > Len(s) /\ i - Len(s) \in DOMAIN t /\ c[i] = t[i - Len(s)]
               /\ j > Len(s) /\ j - Len(s) \in DOMAIN t /\ c[j] = t[j - Len(s)]
      <3>1. i - Len(s) = j - Len(s)
        BY <1>5, <2>6 DEF OneEach
      <3> QED BY <3>1, <2>4, <1>4
    <2> QED BY <2>1, <2>2, <2>3, <2>5, <2>6
  <1> QED BY <1>1, <1>2, <1>3, <1>5 DEF c

LEMMA Longer ==
  ASSUME NEW S, NEW s \in Seq(S), NEW x \in S
  PROVE  /\ Append(s, x) \in Seq(S) /\ Range(Append(s, x)) = Range(s) \cup {x}
         /\ JobsOf(Append(s, x)) = JobsOf(s) \cup {x.job}
         /\ OneEach(s) /\ x.job \notin JobsOf(s) => OneEach(Append(s, x))
         /\ Len(Append(s, x)) = Len(s) + 1 /\ Append(s, x)[Len(s) + 1] = x
         /\ \A i \in DOMAIN s : Append(s, x)[i] = s[i]
  <1>1. Append(s, x) = s \o <<x>>
    BY AppendIsConcat
  <1>2. /\ Append(s, x) \in Seq(S) /\ Range(Append(s, x)) = Range(s) \cup {x}
        /\ JobsOf(Append(s, x)) = JobsOf(s) \cup {x.job}
        /\ OneEach(s) /\ x.job \notin JobsOf(s) => OneEach(Append(s, x))
    <2>1. /\ <<x>> \in Seq(S) /\ Range(<<x>>) = {x}
          /\ JobsOf(<<x>>) = {x.job} /\ OneEach(<<x>>)
      BY Single
    <2>2. /\ s \o <<x>> \in Seq(S) /\ Range(s \o <<x>>) = Range(s) \cup Range(<<x>>)
          /\ JobsOf(s \o <<x>>) = JobsOf(s) \cup JobsOf(<<x>>)
          /\ OneEach(s) /\ OneEach(<<x>>) /\ JobsOf(s) \cap JobsOf(<<x>>) = {}
               => OneEach(s \o <<x>>)
      BY <2>1, Joined, Zenon
    <2> QED BY <1>1, <2>1, <2>2, Zenon
  <1>3. /\ Len(Append(s, x)) = Len(s) + 1 /\ Append(s, x)[Len(s) + 1] = x
        /\ \A i \in DOMAIN s : Append(s, x)[i] = s[i]
    BY AppendProperties, InRange
  <1> QED BY <1>2, <1>3

Without(s, i) == SubSeq(s, 1, i - 1) \o SubSeq(s, i + 1, Len(s))

LEMMA TakenOut ==
  ASSUME NEW S, NEW s \in Seq(S), NEW i \in DOMAIN s
  PROVE  /\ Without(s, i) \in Seq(S) /\ Len(Without(s, i)) = Len(s) - 1
         /\ \A j \in DOMAIN Without(s, i) :
              /\ j \in 1..Len(s) - 1
              /\ Without(s, i)[j] = IF j < i THEN s[j] ELSE s[j + 1]
         /\ Range(Without(s, i)) \subseteq Range(s)
         /\ OneEach(s) => OneEach(Without(s, i)) /\ s[i].job \notin JobsOf(Without(s, i))
  <1> DEFINE a == SubSeq(s, 1, i - 1)
             b == SubSeq(s, i + 1, Len(s))
             w == a \o b
  <1>1. DOMAIN s = 1..Len(s) /\ Len(s) \in Nat /\ \A j \in DOMAIN s : s[j] \in S
    BY InRange
  <1>2. /\ a \in Seq(S) /\ Len(a) = i - 1
        /\ \A j \in 1..i - 1 : a[j] = s[j]
    <2>1. \A j \in 1..i - 1 : s[j] \in S
      BY <1>1
    <2>2. /\ a \in Seq(S) /\ Len(a) = IF 1 <= i - 1 THEN i - 1 - 1 + 1 ELSE 0
          /\ \A j \in 1..i - 1 - 1 + 1 : a[j] = s[1 + j - 1]
      <3> HIDE DEF a
      <3>1. 1 \in Int /\ i - 1 \in Int
        BY <1>1
      <3>2. /\ SubSeq(s, 1, i - 1) \in Seq(S)
            /\ Len(SubSeq(s, 1, i - 1)) = IF 1 <= i - 1 THEN i - 1 - 1 + 1 ELSE 0
            /\ \A j \in 1..i - 1 - 1 + 1 : SubSeq(s, 1, i - 1)[j] = s[1 + j - 1]
        BY <2>1, <3>1, SubSeqProperties
      <3> QED BY <3>2 DEF a
    <2>3. \A j \in 1..i - 1 : j \in 1..i - 1 - 1 + 1 /\ 1 + j - 1 = j
      BY <1>1
    <2> QED BY <2>2, <2>3, <1>1
  <1>3. /\ b \in Seq(S) /\ Len(b) = Len(s) - i
        /\ \A j \in 1..Len(s) - i : b[j] = s[i + j]
    <2>1. \A j \in i + 1..Len(s) : s[j] \in S
      BY <1>1
    <2>2. i + 1 \in Int /\ Len(s) \in Int
      BY <1>1
    <2>3. /\ b \in Seq(S) /\ Len(b) = IF i + 1 <= Len(s) THEN Len(s) - (i + 1) + 1 ELSE 0
          /\ \A j \in 1..Len(s) - (i + 1) + 1 : b[j] = s[i + 1 + j - 1]
      <3> HIDE DEF b
      <3>1. /\ SubSeq(s, i + 1, Len(s)) \in Seq(S)
            /\ Len(SubSeq(s, i + 1, Len(s))) = IF i + 1 <= Len(s) THEN Len(s) - (i + 1) + 1 ELSE 0
            /\ \A j \in 1..Len(s) - (i + 1) + 1 :
                 SubSeq(s, i + 1, Len(s))[j] = s[i + 1 + j - 1]
        BY <2>1, <2>2, SubSeqProperties
      <3> QED BY <3>1 DEF b
    <2>4. \A j \in 1..Len(s) - i : j \in 1..Len(s) - (i + 1) + 1 /\ i + 1 + j - 1 = i + j
      BY <1>1
    <2> QED BY <2>3, <2>4, <1>1
  <1> HIDE DEF a, b
  <1>4. /\ w \in Seq(S) /\ Len(w) = Len(a) + Len(b)
        /\ \A j \in 1..Len(a) + Len(b) : w[j] = IF j <= Len(a) THEN a[j] ELSE b[j - Len(a)]
    BY <1>2, <1>3, ConcatProperties
  <1> HIDE DEF w
  <1>5. Len(w) = Len(s) - 1 /\ DOMAIN w = 1..Len(s) - 1
    BY <1>1, <1>2, <1>3, <1>4, InRange
  <1>6. ASSUME NEW j \in DOMAIN w
        PROVE  j \in 1..Len(s) - 1 /\ w[j] = IF j < i THEN s[j] ELSE s[j + 1]
    <2>1. j \in 1..Len(s) - 1 /\ j \in Nat /\ i \in Nat
      BY <1>1, <1>5
    <2>2. CASE j < i
      <3>1. j \in 1..i - 1 /\ j \in 1..Len(a) + Len(b) /\ j <= Len(a)
        BY <1>1, <1>2, <1>3, <2>1, <2>2
      <3> QED BY <3>1, <1>2, <1>4, <2>1, <2>2
    <2>3. CASE ~(j < i)
      <3>1. /\ j - (i - 1) \in 1..Len(s) - i /\ i + (j - (i - 1)) = j + 1
            /\ j \in 1..Len(a) + Len(b) /\ ~(j <= Len(a))
        BY <1>1, <1>2, <1>3, <2>1, <2>3
      <3>2. w[j] = b[j - (i - 1)]
        BY <3>1, <1>2, <1>4
      <3>3. b[j - (i - 1)] = s[j + 1]
        BY <3>1, <1>3
      <3> QED BY <3>2, <3>3, <2>1, <2>3
    <2> QED BY <2>2, <2>3
  <1>7. ASSUME NEW j \in DOMAIN w
        PROVE  \E k \in DOMAIN s : w[j] = s[k] /\ k # i /\ k = IF j < i THEN j ELSE j + 1
    <2>1. j \in 1..Len(s) - 1 /\ w[j] = s[IF j < i THEN j ELSE j + 1]
      BY <1>6
    <2>2. (IF j < i THEN j ELSE j + 1) \in DOMAIN s /\ (IF j < i THEN j ELSE j + 1) # i
      BY <2>1, <1>1
    <2> QED BY <2>1, <2>2
  <1>8. Range(w) \subseteq Range(s)
    BY <1>7 DEF Range
  <1>9. ASSUME OneEach(s) PROVE OneEach(w) /\ s[i].job \notin JobsOf(w)
    <2>1. ASSUME NEW j \in DOMAIN w PROVE w[j].job # s[i].job
      BY <1>7, <1>9 DEF OneEach
    <2>2. ASSUME NEW j \in DOMAIN w, NEW k \in DOMAIN w, w[j].job = w[k].job PROVE j = k
      <3>1. PICK x \in DOMAIN s : w[j] = s[x] /\ x = IF j < i THEN j ELSE j + 1
        BY <1>7
      <3>2. PICK y \in DOMAIN s : w[k] = s[y] /\ y = IF k < i THEN k ELSE k + 1
        BY <1>7
      <3>3. x = y
        BY <3>1, <3>2, <2>2, <1>9 DEF OneEach
      <3>4. j \in Nat /\ k \in Nat /\ i \in Nat
        BY <1>1, <1>6
      <3> QED BY <3>1, <3>2, <3>3, <3>4
    <2>3. s[i].job \notin JobsOf(w)
      BY <2>1, <1>4, InRange
    <2> QED BY <2>2, <2>3 DEF OneEach
  <1>10. w = Without(s, i)
    BY DEF w, a, b, Without
  <1> QED BY <1>4, <1>5, <1>6, <1>8, <1>9, <1>10

-----------------------------------------------------------------------------
(* The inductive invariant *)

Pending(p) == JobsOf(p.asked["yosys"]) \cup JobsOf(p.asked["tb"]) \cup JobsOf(p.tasks)

NoWarm(jobs) == \A j \in jobs : j[1] # "warm"

\* What is pending is pending once, and yosys is asked for once.
Apart(p) ==
  /\ OneEach(p.asked["yosys"]) /\ OneEach(p.asked["tb"]) /\ OneEach(p.tasks)
  /\ JobsOf(p.asked["yosys"]) \cap JobsOf(p.asked["tb"]) = {}
  /\ JobsOf(p.asked["yosys"]) \cap JobsOf(p.tasks) = {}
  /\ JobsOf(p.asked["tb"]) \cap JobsOf(p.tasks) = {}
  /\ \A a, b \in Pending(p) : a[1] = "warm" /\ b[1] = "warm" => a = b

\* Runs are queued in their order: what is cancelled is not the newest.
InOrder(p) ==
  \A i, j \in DOMAIN p.asked["yosys"] :
     /\ i < j
     /\ p.asked["yosys"][i].job[1] = "run" /\ p.asked["yosys"][j].job[1] = "run"
     => p.asked["yosys"][i].job[2] < p.asked["yosys"][j].job[2]

\* Somebody waits for what is pending.
Alive(p, type, job) ==
  /\ job[1] = "warm" => type = "answer" /\ ~p.warm
  /\ job[1] = "run"  => type \in {"answer", "finally"} /\ \E r \in p.runs : r.n = job[2]
  /\ job[1] = "lint" => \/ type = "answer" /\ p.checks[job[2]].stage = "asked"
                        \/ /\ type = "warmed" /\ job[2] = "board"
                           /\ p.checks[job[2]].stage = "waits" /\ p.warm

AllAlive(p) ==
  /\ \A e \in Engines : \A x \in Range(p.asked[e]) : Alive(p, "answer", x.job) /\ ~x.lost
  /\ \A t \in Range(p.tasks) : Alive(p, t.type, t.job)

Numbered(p) ==
  /\ \A r \in p.runs : r.n <= p.runGen
  /\ \A v \in Views : p.checks[v].gen <= p.gen

\* The page has not moved on since the job began.
Current(p, job) ==
  \/ job[1] = "lint" /\ p.checks[job[2]].gen = p.gen
  \/ job[1] = "run" /\ job[2] = p.runGen

TrueRequest(p, x) ==
  Current(p, x.job) => /\ x.truth = "ok" <=> Compiles(p)
                       /\ x.job[1] = "run" => x.version = p.version

TrueTask(p, t) ==
  t.type = "answer" /\ Current(p, t.job) =>
     /\ t.result = "clean" => Compiles(p)
     /\ t.result = "errors" => ~Compiles(p)
     /\ t.result # "cancelled"
     /\ t.job[1] = "run" => t.version = p.version

AllTrue(p) ==
  /\ \A e \in Engines : \A x \in Range(p.asked[e]) : TrueRequest(p, x)
  /\ \A t \in Range(p.tasks) : TrueTask(p, t)

\* A job of the board view (or the warm-up): yosys compiles for no other.
OfBoard(p, job) ==
  /\ job[1] = "lint" => job[2] = "board"
  /\ job[1] = "run" => \A r \in p.runs : r.n = job[2] => r.view = "board"

\* Only yosys fails in a way that counts as an error.
FromYosys(p) ==
  /\ \A x \in Range(p.asked["yosys"]) : OfBoard(p, x.job)
  /\ \A t \in Range(p.tasks) : t.result = "failed" => OfBoard(p, t.job)

Right(p, verdict) ==
  /\ verdict = "errors" => ~Compiles(p)
  /\ verdict = "clean" => Compiles(p)
  /\ verdict = "failed" => p.view = "board"

Shown(p) == Right(p, p.verdict) /\ p.circuit \in {0, p.version}

Core(p) ==
  /\ p \in Page /\ Apart(p) /\ InOrder(p) /\ AllAlive(p) /\ Numbered(p)
  /\ AllTrue(p) /\ FromYosys(p) /\ Shown(p)

Button(p) == p.runs = {} => (p.disabled <=> HasErrors(p))

PageInv == Core(page) /\ Button(page)

-----------------------------------------------------------------------------
(* What the parts of Core depend on.  In every lemma q is p after one small  *)
(* step; the timer and the button are not part of it.                      *)

SameWork(p, q)    == q.asked = p.asked /\ q.tasks = p.tasks
SameWaiters(p, q) == q.checks = p.checks /\ q.runs = p.runs /\ q.warm = p.warm
SameNumbers(p, q) == q.gen = p.gen /\ q.runGen = p.runGen
SameFiles(p, q)   == q.view = p.view /\ q.content = p.content /\ q.version = p.version

LEMMA JobShape ==
  ASSUME NEW j \in Job
  PROVE  \/ j[1] = "lint" /\ j[2] \in Views /\ j = <<"lint", j[2]>>
         \/ j[1] \in {"run", "warm"} /\ j[2] \in Nat /\ j = <<j[1], j[2]>>
  BY DEF Job

LEMMA PageFields ==
  ASSUME NEW p \in Page
  PROVE  /\ p.view \in Views /\ p.content \in Contents /\ p.version \in Nat /\ p.circuit \in Nat
         /\ p.timer \in BOOLEAN /\ p.gen \in Nat /\ p.verdict \in Verdicts /\ p.disabled \in BOOLEAN
         /\ p.checks \in [Views -> [stage : {"no", "waits", "asked"}, gen : Nat]]
         /\ p.runs \in SUBSET [n : Nat, gen : Nat, view : Views] /\ p.runGen \in Nat
         /\ p.warm \in BOOLEAN /\ p.asked \in [Engines -> Seq(Request)] /\ p.tasks \in Seq(PageTask)
  BY DEF Page

\* The elements of a page's queues.
LEMMA Queues ==
  ASSUME NEW p \in Page
  PROVE  /\ \A e \in Engines : p.asked[e] \in Seq(Request) /\ Range(p.asked[e]) \subseteq Request
         /\ p.asked["yosys"] \in Seq(Request) /\ p.asked["tb"] \in Seq(Request)
         /\ p.tasks \in Seq(PageTask) /\ Range(p.tasks) \subseteq PageTask
         /\ Pending(p) \subseteq Job
         /\ \A e \in Engines : \A x \in Range(p.asked[e]) : x.job \in Pending(p)
         /\ \A t \in Range(p.tasks) : t.job \in Pending(p)
  <1>1. /\ \A e \in Engines : p.asked[e] \in Seq(Request)
        /\ p.asked["yosys"] \in Seq(Request) /\ p.asked["tb"] \in Seq(Request)
        /\ p.tasks \in Seq(PageTask)
    BY PageFields DEF Engines
  <1>2. /\ \A e \in Engines : Range(p.asked[e]) \subseteq Request
        /\ Range(p.tasks) \subseteq PageTask
    BY <1>1, InRange
  <1>3. /\ \A x \in Request : x.job \in Job
        /\ \A t \in PageTask : t.job \in Job
    BY DEF Request, PageTask
  <1>4. /\ \A e \in Engines : JobsOf(p.asked[e]) \subseteq Pending(p)
        /\ JobsOf(p.tasks) \subseteq Pending(p)
    BY DEF Pending, Engines
  <1>5. /\ \A e \in Engines : JobsOf(p.asked[e]) \subseteq Job
        /\ JobsOf(p.tasks) \subseteq Job
    BY <1>2, <1>3 DEF JobsOf
  <1>6. Pending(p) \subseteq Job
    BY <1>5 DEF Pending, Engines
  <1> QED BY <1>1, <1>2, <1>4, <1>6 DEF JobsOf

\* Nothing moved but what is shown, and that is right.
LEMMA Redrawn ==
  ASSUME NEW p, NEW q \in Page, Core(p), SameWork(p, q), SameWaiters(p, q),
         SameNumbers(p, q), SameFiles(p, q), Right(p, q.verdict), q.circuit \in {0, p.version}
  PROVE  Core(q) /\ Pending(q) = Pending(p)
  <1> USE DEF Core, SameWork, SameWaiters, SameNumbers, SameFiles
  <1>1. Pending(q) = Pending(p) /\ Apart(q)
    BY DEF Pending, Apart
  <1>2. InOrder(q) /\ Numbered(q)
    BY DEF InOrder, Numbered
  <1>3. AllAlive(q)
    BY DEF AllAlive, Alive
  <1>4. AllTrue(q)
    BY DEF AllTrue, TrueRequest, TrueTask, Current, Compiles
  <1>5. Shown(q)
    BY DEF Shown, Right, Compiles
  <1>6. FromYosys(q)
    BY DEF FromYosys, OfBoard
  <1> QED BY <1>1, <1>2, <1>3, <1>4, <1>5, <1>6

\* A request is queued.
LEMMA Posted ==
  ASSUME NEW p, NEW q \in Page, Core(p), NEW e \in Engines, NEW x \in Request,
         q.asked = [p.asked EXCEPT ![e] = Append(p.asked[e], x)], q.tasks = p.tasks,
         SameWaiters(p, q), SameNumbers(p, q), SameFiles(p, q),
         q.verdict = p.verdict, q.circuit = p.circuit,
         x.job \notin Pending(p), Alive(p, "answer", x.job), ~x.lost, TrueRequest(p, x),
         e = "yosys" => OfBoard(p, x.job),
         x.job[1] = "run" => x.job[2] = p.runGen,
         x.job[1] = "warm" => NoWarm(Pending(p))
  PROVE  Core(q) /\ Pending(q) = Pending(p) \cup {x.job}
  <1> DEFINE s == p.asked[e]
             n == Append(s, x)
  <1>1. /\ p \in Page /\ Apart(p) /\ InOrder(p) /\ AllAlive(p) /\ Numbered(p)
        /\ AllTrue(p) /\ FromYosys(p) /\ Shown(p)
    BY DEF Core
  <1>2. /\ s \in Seq(Request) /\ p.asked \in [Engines -> Seq(Request)]
        /\ p.tasks \in Seq(PageTask)
    BY <1>1, Queues, PageFields
  <1>3. /\ n \in Seq(Request) /\ Range(n) = Range(s) \cup {x}
        /\ JobsOf(n) = JobsOf(s) \cup {x.job}
        /\ OneEach(s) /\ x.job \notin JobsOf(s) => OneEach(n)
        /\ Len(n) = Len(s) + 1 /\ n[Len(s) + 1] = x
        /\ \A i \in DOMAIN s : n[i] = s[i]
    BY <1>2, Longer
  <1>4. /\ DOMAIN s = 1..Len(s) /\ DOMAIN n = 1..Len(s) + 1 /\ Len(s) \in Nat
    BY <1>2, <1>3, InRange
  <1> HIDE DEF n
  <1>5. q.asked[e] = n /\ \A f \in Engines : f # e => q.asked[f] = p.asked[f]
    BY <1>2 DEF n
  <1>6. Engines = {"yosys", "tb"}
    BY DEF Engines
  <1>7. Pending(q) = Pending(p) \cup {x.job}
    <2>1. CASE e = "yosys"
      BY <2>1, <1>3, <1>5, <1>6 DEF Pending
    <2>2. CASE e = "tb"
      BY <2>2, <1>3, <1>5, <1>6 DEF Pending
    <2> QED BY <2>1, <2>2, <1>6
  <1>8. Apart(q)
    <2>1. \A a, b \in Pending(q) : a[1] = "warm" /\ b[1] = "warm" => a = b
      BY <1>1, <1>7 DEF Apart, NoWarm
    <2>2. x.job \notin JobsOf(p.asked["yosys"]) /\ x.job \notin JobsOf(p.asked["tb"])
          /\ x.job \notin JobsOf(p.tasks)
      BY DEF Pending
    <2>3. CASE e = "yosys"
      <3>1. q.asked["yosys"] = n /\ q.asked["tb"] = p.asked["tb"] /\ s = p.asked["yosys"]
        BY <2>3, <1>5, <1>6
      <3> QED BY <3>1, <2>1, <2>2, <1>1, <1>3 DEF Apart
    <2>4. CASE e = "tb"
      <3>1. q.asked["tb"] = n /\ q.asked["yosys"] = p.asked["yosys"] /\ s = p.asked["tb"]
        BY <2>4, <1>5, <1>6
      <3> QED BY <3>1, <2>1, <2>2, <1>1, <1>3 DEF Apart
    <2> QED BY <2>3, <2>4, <1>6
  <1>9. InOrder(q)
    <2>1. CASE e # "yosys"
      BY <2>1, <1>1, <1>5, <1>6 DEF InOrder
    <2>2. CASE e = "yosys"
      <3> SUFFICES ASSUME NEW i \in DOMAIN n, NEW j \in DOMAIN n, i < j,
                          n[i].job[1] = "run", n[j].job[1] = "run"
                   PROVE  n[i].job[2] < n[j].job[2]
        BY <2>2, <1>5 DEF InOrder
      <3>1. i \in DOMAIN s /\ n[i] = s[i]
        BY <1>3, <1>4
      <3>2. CASE j \in DOMAIN s
        <4>1. n[j] = s[j]
          BY <3>2, <1>3
        <4> QED BY <4>1, <3>1, <3>2, <2>2, <1>1 DEF InOrder
      <3>3. CASE j \notin DOMAIN s
        <4>1. n[j] = x
          <5>1. j = Len(s) + 1
            BY <3>3, <1>4
          <5> QED BY <5>1, <1>3
        <4>2. s[i] \in Range(s) /\ s[i] \in Request
          BY <3>1, <1>2, InRange
        <4>3. Alive(p, "answer", s[i].job)
          BY <4>2, <1>1 DEF AllAlive
        <4>4. PICK r \in p.runs : r.n = s[i].job[2]
          BY <4>3, <3>1 DEF Alive
        <4>5. r.n <= p.runGen /\ r.n \in Nat /\ p.runGen \in Nat
          BY <1>1, PageFields DEF Numbered
        <4>6. s[i].job # x.job /\ s[i].job \in Job /\ x.job \in Job
          BY <4>2, <1>1, Queues DEF Request
        <4>7. s[i].job[2] # x.job[2]
          BY <4>6, <4>1, <3>1, JobShape
        <4> QED BY <4>1, <4>4, <4>5, <4>7, <3>1
      <3> QED BY <3>2, <3>3
    <2> QED BY <2>1, <2>2
  <1>10. Numbered(q)
    BY <1>1 DEF Numbered, SameWaiters, SameNumbers
  <1>11. \A type, job : Alive(p, type, job) => Alive(q, type, job)
    BY DEF Alive, SameWaiters
  <1>12. AllAlive(q)
    <2>1. ASSUME NEW f \in Engines, NEW y \in Range(q.asked[f])
          PROVE  Alive(q, "answer", y.job) /\ ~y.lost
      <3>1. y = x \/ y \in Range(p.asked[f])
        BY <1>3, <1>5
      <3> QED BY <3>1, <1>1, <1>11 DEF AllAlive
    <2> QED BY <2>1, <1>1, <1>11 DEF AllAlive
  <1>13. /\ \A y : TrueRequest(p, y) => TrueRequest(q, y)
         /\ \A t : TrueTask(p, t) => TrueTask(q, t)
    BY DEF TrueRequest, TrueTask, Current, Compiles, SameWaiters, SameNumbers, SameFiles
  <1>14. AllTrue(q)
    <2>1. ASSUME NEW f \in Engines, NEW y \in Range(q.asked[f])
          PROVE  TrueRequest(q, y)
      <3>1. y = x \/ y \in Range(p.asked[f])
        BY <1>3, <1>5
      <3> QED BY <3>1, <1>1, <1>13 DEF AllTrue
    <2> QED BY <2>1, <1>1, <1>13 DEF AllTrue
  <1>15. Shown(q)
    BY <1>1 DEF Shown, Right, Compiles, SameFiles
  <1>16. FromYosys(q)
    <2>1. ASSUME NEW y \in Range(q.asked["yosys"]) PROVE OfBoard(q, y.job)
      <3>1. y \in Range(p.asked["yosys"]) \/ (e = "yosys" /\ y = x)
        BY <1>3, <1>5, <1>6
      <3>2. OfBoard(p, y.job)
        BY <3>1, <1>1 DEF FromYosys
      <3> QED BY <3>2 DEF OfBoard, SameWaiters
    <2> QED BY <2>1, <1>1 DEF FromYosys, OfBoard, SameWaiters
  <1> QED BY <1>7, <1>8, <1>9, <1>10, <1>12, <1>14, <1>15, <1>16 DEF Core

\* A task is left to run.
LEMMA Tasked ==
  ASSUME NEW p, NEW q \in Page, Core(p), NEW t \in PageTask,
         q.tasks = p.tasks \o <<t>>, q.asked = p.asked,
         SameWaiters(p, q), SameNumbers(p, q), SameFiles(p, q),
         q.verdict = p.verdict, q.circuit = p.circuit,
         t.job \notin Pending(p), Alive(p, t.type, t.job), TrueTask(p, t),
         t.result = "failed" => OfBoard(p, t.job),
         t.job[1] = "warm" => NoWarm(Pending(p))
  PROVE  Core(q) /\ Pending(q) = Pending(p) \cup {t.job}
  <1> DEFINE s == p.tasks
             n == s \o <<t>>
  <1>1. /\ p \in Page /\ Apart(p) /\ InOrder(p) /\ AllAlive(p) /\ Numbered(p)
        /\ AllTrue(p) /\ FromYosys(p) /\ Shown(p)
    BY DEF Core
  <1>2. s \in Seq(PageTask)
    BY <1>1, Queues
  <1>3. /\ <<t>> \in Seq(PageTask) /\ Range(<<t>>) = {t}
        /\ JobsOf(<<t>>) = {t.job} /\ OneEach(<<t>>)
    BY Single
  <1>4. /\ n \in Seq(PageTask) /\ Range(n) = Range(s) \cup Range(<<t>>)
        /\ JobsOf(n) = JobsOf(s) \cup JobsOf(<<t>>)
        /\ OneEach(s) /\ OneEach(<<t>>) /\ JobsOf(s) \cap JobsOf(<<t>>) = {} => OneEach(n)
    BY <1>2, <1>3, Joined, Zenon
  <1> HIDE DEF n
  <1>5. q.tasks = n
    BY DEF n
  <1>6. Pending(q) = Pending(p) \cup {t.job}
    BY <1>3, <1>4, <1>5 DEF Pending
  <1>7. Apart(q)
    <2>1. \A a, b \in Pending(q) : a[1] = "warm" /\ b[1] = "warm" => a = b
      BY <1>1, <1>6 DEF Apart, NoWarm
    <2>2. /\ t.job \notin JobsOf(p.asked["yosys"]) /\ t.job \notin JobsOf(p.asked["tb"])
          /\ t.job \notin JobsOf(p.tasks)
      BY DEF Pending
    <2> QED BY <2>1, <2>2, <1>1, <1>3, <1>4, <1>5 DEF Apart
  <1>8. InOrder(q) /\ Numbered(q)
    BY <1>1 DEF InOrder, Numbered, SameWaiters, SameNumbers
  <1>9. \A type, job : Alive(p, type, job) => Alive(q, type, job)
    BY DEF Alive, SameWaiters
  <1>10. AllAlive(q)
    BY <1>1, <1>3, <1>4, <1>5, <1>9 DEF AllAlive
  <1>11. /\ \A y : TrueRequest(p, y) => TrueRequest(q, y)
         /\ \A u : TrueTask(p, u) => TrueTask(q, u)
    BY DEF TrueRequest, TrueTask, Current, Compiles, SameWaiters, SameNumbers, SameFiles
  <1>12. AllTrue(q)
    BY <1>1, <1>3, <1>4, <1>5, <1>11 DEF AllTrue
  <1>13. Shown(q)
    BY <1>1 DEF Shown, Right, Compiles, SameFiles
  <1>14. FromYosys(q)
    BY <1>1, <1>3, <1>4, <1>5 DEF FromYosys, OfBoard, SameWaiters
  <1> QED BY <1>6, <1>7, <1>8, <1>10, <1>12, <1>13, <1>14 DEF Core

\* The first task is taken.
LEMMA Taken ==
  ASSUME NEW p, Core(p), p.tasks # <<>>
  PROVE  LET q == [p EXCEPT !.tasks = Tail(@)]
             t == Head(p.tasks)
         IN /\ Core(q) /\ t \in PageTask /\ t.job \notin Pending(q)
            /\ Alive(q, t.type, t.job) /\ TrueTask(q, t)
            /\ t.result = "failed" => OfBoard(q, t.job)
            /\ t.job[1] = "warm" => NoWarm(Pending(q))
  <1> DEFINE q == [p EXCEPT !.tasks = Tail(@)]
             t == Head(p.tasks)
             s == p.tasks
             n == Tail(s)
  <1>1. /\ p \in Page /\ Apart(p) /\ InOrder(p) /\ AllAlive(p) /\ Numbered(p)
        /\ AllTrue(p) /\ FromYosys(p) /\ Shown(p)
    BY DEF Core
  <1>2. s \in Seq(PageTask) /\ s # <<>>
    BY <1>1, Queues
  <1>3. /\ t \in PageTask /\ n \in Seq(PageTask) /\ Len(n) = Len(s) - 1
        /\ \A i \in 1..Len(n) : n[i] = s[i + 1]
    BY <1>2, HeadTailProperties
  <1>4. /\ DOMAIN s = 1..Len(s) /\ Len(s) \in Nat /\ DOMAIN n = 1..Len(s) - 1 /\ 1 \in DOMAIN s
        /\ t = s[1]
    <2>1. DOMAIN s = 1..Len(s) /\ Len(s) \in Nat /\ DOMAIN n = 1..Len(n)
      BY <1>2, <1>3, InRange
    <2> QED BY <2>1, <1>2, <1>3
  <1>5. q \in Page /\ q.tasks = n /\ q.asked = p.asked /\ SameWaiters(p, q) /\ SameNumbers(p, q)
        /\ SameFiles(p, q) /\ q.verdict = p.verdict /\ q.circuit = p.circuit
    BY <1>1, <1>3 DEF Page, SameWaiters, SameNumbers, SameFiles
  <1> HIDE DEF q, n, t
  <1>6. ASSUME NEW i \in DOMAIN n PROVE i + 1 \in DOMAIN s /\ n[i] = s[i + 1] /\ i + 1 # 1 /\ i \in Nat
    BY <1>3, <1>4
  <1>7. Range(n) \subseteq Range(s) /\ t \in Range(s) /\ t.job \in JobsOf(s)
    <2>1. Range(n) \subseteq Range(s)
      BY <1>6 DEF Range
    <2> QED BY <2>1, <1>2, <1>4, InRange
  <1>8. JobsOf(n) \subseteq JobsOf(s)
    BY <1>7 DEF JobsOf
  <1>9. OneEach(n) /\ t.job \notin JobsOf(n)
    <2>1. OneEach(s)
      BY <1>1 DEF Apart
    <2>2. ASSUME NEW i \in DOMAIN n, NEW j \in DOMAIN n, n[i].job = n[j].job PROVE i = j
      <3>1. i + 1 = j + 1
        BY <2>1, <2>2, <1>6 DEF OneEach
      <3> QED BY <3>1, <1>6
    <2>3. \A i \in DOMAIN n : n[i].job # t.job
      BY <2>1, <1>4, <1>6 DEF OneEach
    <2>4. t.job \notin JobsOf(n)
      BY <2>3, <1>3, InRange
    <2> QED BY <2>2, <2>4 DEF OneEach
  <1>10. Pending(q) \subseteq Pending(p) /\ t.job \in Pending(p) /\ t.job \notin Pending(q)
    BY <1>1, <1>5, <1>7, <1>8, <1>9 DEF Pending, Apart
  <1>11. Apart(q)
    <2>1. \A a, b \in Pending(q) : a[1] = "warm" /\ b[1] = "warm" => a = b
      BY <1>1, <1>10 DEF Apart
    <2> QED BY <2>1, <1>1, <1>5, <1>8, <1>9 DEF Apart
  <1>12. InOrder(q) /\ Numbered(q)
    BY <1>1, <1>5 DEF InOrder, Numbered, SameWaiters, SameNumbers
  <1>13. \A type, job : Alive(p, type, job) => Alive(q, type, job)
    BY <1>5 DEF Alive, SameWaiters
  <1>14. AllAlive(q) /\ Alive(q, t.type, t.job)
    BY <1>1, <1>5, <1>7, <1>13 DEF AllAlive
  <1>15. /\ \A y : TrueRequest(p, y) => TrueRequest(q, y)
         /\ \A u : TrueTask(p, u) => TrueTask(q, u)
    BY <1>5 DEF TrueRequest, TrueTask, Current, Compiles, SameWaiters, SameNumbers, SameFiles
  <1>16. AllTrue(q) /\ TrueTask(q, t)
    BY <1>1, <1>5, <1>7, <1>15 DEF AllTrue
  <1>17. Shown(q)
    BY <1>1, <1>5 DEF Shown, Right, Compiles, SameFiles
  <1>18. t.job[1] = "warm" => NoWarm(Pending(q))
    BY <1>1, <1>10 DEF Apart, NoWarm
  <1>19. FromYosys(q) /\ (t.result = "failed" => OfBoard(q, t.job))
    BY <1>1, <1>5, <1>7 DEF FromYosys, OfBoard, SameWaiters
  <1>20. Core(q)
    BY <1>5, <1>11, <1>12, <1>14, <1>16, <1>17, <1>19 DEF Core
  <1> QED BY <1>3, <1>10, <1>14, <1>16, <1>18, <1>19, <1>20 DEF q, t

\* A check moves, and nothing of it is pending.
LEMMA Checked ==
  ASSUME NEW p, NEW q \in Page, Core(p), NEW v \in Views,
         NEW c \in [stage : {"no", "waits", "asked"}, gen : Nat],
         q.checks = [p.checks EXCEPT ![v] = c], c.gen <= p.gen,
         SameWork(p, q), q.runs = p.runs, q.warm = p.warm, SameNumbers(p, q), SameFiles(p, q),
         q.verdict = p.verdict, q.circuit = p.circuit,
         <<"lint", v>> \notin Pending(p)
  PROVE  Core(q) /\ Pending(q) = Pending(p)
  <1>1. /\ p \in Page /\ Apart(p) /\ InOrder(p) /\ AllAlive(p) /\ Numbered(p)
        /\ AllTrue(p) /\ FromYosys(p) /\ Shown(p)
    BY DEF Core
  <1>2. Pending(q) = Pending(p) /\ Apart(q)
    BY <1>1 DEF Pending, Apart, SameWork
  <1>3. q.checks[v] = c /\ \A w \in Views : w # v => q.checks[w] = p.checks[w]
    BY <1>1, PageFields
  <1>4. InOrder(q) /\ Numbered(q)
    BY <1>1, <1>3 DEF InOrder, Numbered, SameWork, SameNumbers
  <1>5. ASSUME NEW j \in Pending(p)
        PROVE  /\ \A type : Alive(p, type, j) => Alive(q, type, j)
               /\ Current(q, j) <=> Current(p, j)
    <2>1. j \in Job
      BY <1>1, Queues
    <2>2. j[1] = "lint" => j[2] \in Views /\ j[2] # v
      BY <2>1, JobShape
    <2>3. j[1] = "lint" => q.checks[j[2]] = p.checks[j[2]]
      BY <2>2, <1>3
    <2> QED BY <2>3 DEF Alive, Current, SameNumbers
  <1>6. /\ \A e \in Engines : \A x \in Range(q.asked[e]) : x \in Range(p.asked[e]) /\ x.job \in Pending(p)
        /\ \A t \in Range(q.tasks) : t \in Range(p.tasks) /\ t.job \in Pending(p)
    BY <1>1, Queues DEF SameWork
  <1>7. AllAlive(q)
    BY <1>1, <1>5, <1>6 DEF AllAlive
  <1>8. AllTrue(q)
    BY <1>1, <1>5, <1>6 DEF AllTrue, TrueRequest, TrueTask, Compiles, SameFiles
  <1>9. Shown(q)
    BY <1>1 DEF Shown, Right, Compiles, SameFiles
  <1>10. FromYosys(q)
    BY <1>1 DEF FromYosys, OfBoard, SameWork
  <1> QED BY <1>2, <1>4, <1>7, <1>8, <1>9, <1>10 DEF Core

\* The page moves on: whatever runs is of an older generation.
LEMMA TurnedOver ==
  ASSUME NEW p, NEW q \in Page, Core(p), SameWork(p, q), q.checks = p.checks, q.warm = p.warm,
         q.runGen = p.runGen + 1,
         p.runs \subseteq q.runs, \A r \in q.runs : r \in p.runs \/ r.n = q.runGen,
         \/ q.gen = p.gen + 1 /\ q.verdict = "none"
         \/ q.gen = p.gen /\ SameFiles(p, q) /\ q.verdict = p.verdict,
         q.circuit \in {0, q.version}
  PROVE  Core(q) /\ Pending(q) = Pending(p)
  <1>1. /\ p \in Page /\ Apart(p) /\ InOrder(p) /\ AllAlive(p) /\ Numbered(p)
        /\ AllTrue(p) /\ FromYosys(p) /\ Shown(p)
    BY DEF Core
  <1>2. Pending(q) = Pending(p) /\ Apart(q)
    BY <1>1 DEF Pending, Apart, SameWork
  <1>3. /\ p.runGen \in Nat /\ p.gen \in Nat /\ \A v \in Views : p.checks[v].gen \in Nat
        /\ \A r \in p.runs : r.n \in Nat
    BY <1>1, PageFields
  <1>4. InOrder(q) /\ Numbered(q)
    <2>1. \A r \in q.runs : r.n <= q.runGen
      BY <1>1, <1>3 DEF Numbered
    <2>2. \A v \in Views : q.checks[v].gen <= q.gen
      BY <1>1, <1>3 DEF Numbered
    <2> QED BY <2>1, <2>2, <1>1 DEF InOrder, Numbered, SameWork
  <1>5. \A type, job : Alive(p, type, job) => Alive(q, type, job)
    BY DEF Alive
  <1>6. AllAlive(q)
    BY <1>1, <1>5 DEF AllAlive, SameWork
  <1>7. ASSUME NEW j \in Pending(p), NEW type, Alive(p, type, j), Current(q, j)
        PROVE  j[1] = "lint" /\ Current(p, j) /\ SameFiles(p, q)
    <2>1. j \in Job
      BY <1>1, Queues
    <2>2. CASE j[1] = "lint"
      <3>1. j[2] \in Views /\ j[1] # "run"
        BY <2>1, <2>2, JobShape
      <3>2. p.checks[j[2]].gen <= p.gen /\ p.checks[j[2]].gen \in Nat
        BY <3>1, <1>1, <1>3 DEF Numbered
      <3>3. p.checks[j[2]].gen = q.gen
        BY <1>7, <3>1 DEF Current
      <3>4. q.gen = p.gen /\ SameFiles(p, q)
        BY <3>2, <3>3, <1>3
      <3> QED BY <2>2, <3>3, <3>4 DEF Current
    <2>3. CASE j[1] # "lint"
      <3>1. j[1] = "run" /\ j[2] = q.runGen
        BY <1>7, <2>3 DEF Current
      <3>2. PICK r \in p.runs : r.n = j[2]
        BY <1>7, <3>1 DEF Alive
      <3>3. r.n <= p.runGen
        BY <1>1 DEF Numbered
      <3> QED BY <3>1, <3>2, <3>3, <1>3
    <2> QED BY <2>2, <2>3
  <1>8. AllTrue(q)
    <2>1. ASSUME NEW e \in Engines, NEW x \in Range(q.asked[e]) PROVE TrueRequest(q, x)
      <3>1. /\ x \in Range(p.asked[e]) /\ x.job \in Pending(p)
            /\ Alive(p, "answer", x.job) /\ TrueRequest(p, x)
        BY <1>1, Queues DEF SameWork, AllAlive, AllTrue
      <3> SUFFICES ASSUME Current(q, x.job)
                   PROVE  (x.truth = "ok" <=> Compiles(q)) /\ x.job[1] # "run"
        BY DEF TrueRequest
      <3>2. x.job[1] = "lint" /\ Current(p, x.job) /\ SameFiles(p, q)
        BY <3>1, <1>7
      <3>3. x.truth = "ok" <=> Compiles(p)
        BY <3>1, <3>2 DEF TrueRequest
      <3> QED BY <3>2, <3>3 DEF Compiles, SameFiles
    <2>2. ASSUME NEW t \in Range(q.tasks) PROVE TrueTask(q, t)
      <3>1. t \in Range(p.tasks) /\ t.job \in Pending(p) /\ Alive(p, t.type, t.job) /\ TrueTask(p, t)
        BY <1>1, Queues DEF SameWork, AllAlive, AllTrue
      <3> SUFFICES ASSUME t.type = "answer", Current(q, t.job)
                   PROVE  /\ t.result = "clean" => Compiles(q)
                          /\ t.result = "errors" => ~Compiles(q)
                          /\ t.result # "cancelled" /\ t.job[1] # "run"
        BY DEF TrueTask
      <3>2. t.job[1] = "lint" /\ Current(p, t.job) /\ SameFiles(p, q)
        BY <3>1, <1>7
      <3>3. /\ t.result = "clean" => Compiles(p)
            /\ t.result = "errors" => ~Compiles(p)
            /\ t.result # "cancelled"
        BY <3>1, <3>2 DEF TrueTask
      <3> QED BY <3>2, <3>3 DEF Compiles, SameFiles
    <2> QED BY <2>1, <2>2 DEF AllTrue
  <1>9. Shown(q)
    BY <1>1 DEF Shown, Right, Compiles, SameFiles
  <1>10. ASSUME NEW j, NEW type, Alive(p, type, j), OfBoard(p, j) PROVE OfBoard(q, j)
    <2> SUFFICES ASSUME j[1] = "run", NEW o \in q.runs, o.n = j[2] PROVE o.view = "board"
      BY <1>10 DEF OfBoard
    <2>1. PICK r \in p.runs : r.n = j[2]
      BY <1>10 DEF Alive
    <2>2. o.n <= p.runGen
      BY <2>1, <1>1 DEF Numbered
    <2>3. o \in p.runs
      BY <2>2, <1>3
    <2> QED BY <2>3, <1>10 DEF OfBoard
  <1>11. FromYosys(q)
    <2>1. "yosys" \in Engines
      BY DEF Engines
    <2> QED BY <2>1, <1>1, <1>10 DEF FromYosys, AllAlive, SameWork
  <1> QED BY <1>2, <1>4, <1>6, <1>8, <1>9, <1>11 DEF Core

\* A run is over, and nothing of it is pending; or yosys is warm.
LEMMA Ended ==
  ASSUME NEW p, NEW q \in Page, Core(p), SameWork(p, q), q.checks = p.checks,
         SameNumbers(p, q), SameFiles(p, q), q.verdict = p.verdict, q.circuit = p.circuit,
         \/ /\ q.warm = p.warm
            /\ \E r \in p.runs : q.runs = p.runs \ {r} /\ <<"run", r.n>> \notin Pending(p)
         \/ q.runs = p.runs /\ q.warm = TRUE /\ NoWarm(Pending(p))
  PROVE  Core(q) /\ Pending(q) = Pending(p)
  <1>1. /\ p \in Page /\ Apart(p) /\ InOrder(p) /\ AllAlive(p) /\ Numbered(p)
        /\ AllTrue(p) /\ FromYosys(p) /\ Shown(p)
    BY DEF Core
  <1>2. Pending(q) = Pending(p) /\ Apart(q)
    BY <1>1 DEF Pending, Apart, SameWork
  <1>3. InOrder(q) /\ Numbered(q)
    BY <1>1 DEF InOrder, Numbered, SameWork, SameNumbers
  <1>4. ASSUME NEW j \in Pending(p), NEW type, Alive(p, type, j)
        PROVE  Alive(q, type, j)
    <2>1. j \in Job
      BY <1>1, Queues
    <2>2. CASE /\ q.warm = p.warm
               /\ \E r \in p.runs : q.runs = p.runs \ {r} /\ <<"run", r.n>> \notin Pending(p)
      <3>1. PICK r \in p.runs : q.runs = p.runs \ {r} /\ <<"run", r.n>> \notin Pending(p)
        BY <2>2
      <3>2. ASSUME j[1] = "run" PROVE \E o \in q.runs : o.n = j[2]
        <4>1. j[2] # r.n
          BY <2>1, <3>1, <3>2, JobShape
        <4>2. PICK o \in p.runs : o.n = j[2]
          BY <1>4, <3>2 DEF Alive
        <4> QED BY <4>1, <4>2, <3>1
      <3> QED BY <1>4, <2>2, <3>2 DEF Alive
    <2>3. CASE q.runs = p.runs /\ q.warm = TRUE /\ NoWarm(Pending(p))
      <3>1. j[1] # "warm"
        BY <2>3 DEF NoWarm
      <3> QED BY <1>4, <2>3, <3>1 DEF Alive
    <2> QED BY <2>2, <2>3
  <1>5. AllAlive(q)
    BY <1>1, <1>4, Queues DEF AllAlive, SameWork
  <1>6. /\ \A y : TrueRequest(p, y) => TrueRequest(q, y)
        /\ \A u : TrueTask(p, u) => TrueTask(q, u)
    BY DEF TrueRequest, TrueTask, Current, Compiles, SameNumbers, SameFiles
  <1>7. AllTrue(q)
    BY <1>1, <1>6 DEF AllTrue, SameWork
  <1>8. Shown(q)
    BY <1>1 DEF Shown, Right, Compiles, SameFiles
  <1>9. FromYosys(q)
    <2>1. q.runs \subseteq p.runs
      OBVIOUS
    <2> QED BY <2>1, <1>1 DEF FromYosys, OfBoard, SameWork
  <1> QED BY <1>2, <1>3, <1>5, <1>7, <1>8, <1>9 DEF Core

\* A request leaves its queue.
LEMMA Unqueued ==
  ASSUME NEW p, NEW q \in Page, Core(p), NEW e \in Engines, NEW i \in DOMAIN p.asked[e],
         q.asked = [p.asked EXCEPT ![e] = Without(p.asked[e], i)], q.tasks = p.tasks,
         SameWaiters(p, q), SameNumbers(p, q), SameFiles(p, q),
         q.verdict = p.verdict, q.circuit = p.circuit
  PROVE  LET x == p.asked[e][i]
         IN /\ Core(q) /\ x \in Request /\ x.job \notin Pending(q)
            /\ Alive(q, "answer", x.job) /\ TrueRequest(q, x)
            /\ e = "yosys" => OfBoard(q, x.job)
            /\ x.job[1] = "warm" => NoWarm(Pending(q))
  <1> DEFINE s == p.asked[e]
             n == Without(s, i)
             x == s[i]
  <1>1. /\ p \in Page /\ Apart(p) /\ InOrder(p) /\ AllAlive(p) /\ Numbered(p)
        /\ AllTrue(p) /\ FromYosys(p) /\ Shown(p)
    BY DEF Core
  <1>2. s \in Seq(Request) /\ p.asked \in [Engines -> Seq(Request)] /\ i \in DOMAIN s
    BY <1>1, Queues, PageFields
  <1> HIDE DEF s
  <1>3. /\ n \in Seq(Request) /\ Len(n) = Len(s) - 1
        /\ \A j \in DOMAIN n : j \in 1..Len(s) - 1 /\ n[j] = IF j < i THEN s[j] ELSE s[j + 1]
        /\ Range(n) \subseteq Range(s)
        /\ OneEach(s) => OneEach(n) /\ x.job \notin JobsOf(n)
    BY <1>2, TakenOut
  <1>4. DOMAIN s = 1..Len(s) /\ Len(s) \in Nat
    BY <1>2, InRange
  <1>5. x \in Request /\ x \in Range(s) /\ x.job \in JobsOf(s)
    BY <1>2, InRange
  <1> HIDE DEF n, x
  <1>6. JobsOf(n) \subseteq JobsOf(s)
    BY <1>3 DEF JobsOf
  <1>7. s = p.asked[e] /\ q.asked[e] = n /\ \A f \in Engines : f # e => q.asked[f] = p.asked[f]
    BY <1>2 DEF n, s
  <1>8. Engines = {"yosys", "tb"}
    BY DEF Engines
  <1>9. OneEach(s) /\ OneEach(n) /\ x.job \notin JobsOf(n)
    BY <1>1, <1>3, <1>7, <1>8 DEF Apart
  <1>10. ASSUME e = "yosys"
         PROVE  /\ Apart(q) /\ InOrder(q)
               /\ Pending(q) \subseteq Pending(p) /\ x.job \in Pending(p) /\ x.job \notin Pending(q)
    <2>1. q.asked["yosys"] = n /\ q.asked["tb"] = p.asked["tb"] /\ s = p.asked["yosys"]
      BY <1>7, <1>8, <1>10
    <2>2. Pending(q) \subseteq Pending(p) /\ x.job \in Pending(p) /\ x.job \notin Pending(q)
      BY <2>1, <1>1, <1>5, <1>6, <1>9 DEF Pending, Apart
    <2>3. \A a, b \in Pending(q) : a[1] = "warm" /\ b[1] = "warm" => a = b
      BY <2>2, <1>1 DEF Apart
    <2>4. Apart(q)
      BY <2>1, <2>3, <1>1, <1>6, <1>9 DEF Apart
    <2>5. InOrder(q)
      <3> SUFFICES ASSUME NEW j \in DOMAIN n, NEW k \in DOMAIN n, j < k,
                          n[j].job[1] = "run", n[k].job[1] = "run"
                   PROVE  n[j].job[2] < n[k].job[2]
        BY <2>1 DEF InOrder
      <3> DEFINE J == IF j < i THEN j ELSE j + 1
                 K == IF k < i THEN k ELSE k + 1
      <3>1. J \in DOMAIN s /\ K \in DOMAIN s /\ J < K
        BY <1>2, <1>3, <1>4
      <3>2. n[j] = s[J] /\ n[k] = s[K]
        BY <1>3
      <3> HIDE DEF J, K
      <3> QED BY <3>1, <3>2, <2>1, <1>1 DEF InOrder
    <2> QED BY <2>2, <2>4, <2>5
  <1>11. ASSUME e = "tb"
         PROVE  /\ Apart(q) /\ InOrder(q)
               /\ Pending(q) \subseteq Pending(p) /\ x.job \in Pending(p) /\ x.job \notin Pending(q)
    <2>1. q.asked["tb"] = n /\ q.asked["yosys"] = p.asked["yosys"] /\ s = p.asked["tb"]
      BY <1>7, <1>8, <1>11
    <2>2. Pending(q) \subseteq Pending(p) /\ x.job \in Pending(p) /\ x.job \notin Pending(q)
      BY <2>1, <1>1, <1>5, <1>6, <1>9 DEF Pending, Apart
    <2>3. \A a, b \in Pending(q) : a[1] = "warm" /\ b[1] = "warm" => a = b
      BY <2>2, <1>1 DEF Apart
    <2>4. Apart(q)
      BY <2>1, <2>3, <1>1, <1>6, <1>9 DEF Apart
    <2>5. InOrder(q)
      BY <2>1, <1>1 DEF InOrder
    <2> QED BY <2>2, <2>4, <2>5
  <1>12. /\ Apart(q) /\ InOrder(q)
         /\ Pending(q) \subseteq Pending(p) /\ x.job \in Pending(p) /\ x.job \notin Pending(q)
    BY <1>8, <1>10, <1>11
  <1>13. Numbered(q)
    BY <1>1 DEF Numbered, SameWaiters, SameNumbers
  <1>14. \A f \in Engines : Range(q.asked[f]) \subseteq Range(p.asked[f])
    BY <1>3, <1>7
  <1>15. \A type, job : Alive(p, type, job) => Alive(q, type, job)
    BY DEF Alive, SameWaiters
  <1>16. AllAlive(q)
    BY <1>1, <1>14, <1>15 DEF AllAlive
  <1>17. /\ \A y : TrueRequest(p, y) => TrueRequest(q, y)
         /\ \A u : TrueTask(p, u) => TrueTask(q, u)
    BY DEF TrueRequest, TrueTask, Current, Compiles, SameWaiters, SameNumbers, SameFiles
  <1>18. AllTrue(q)
    BY <1>1, <1>14, <1>17 DEF AllTrue
  <1>19. Shown(q)
    BY <1>1 DEF Shown, Right, Compiles, SameFiles
  <1>20. FromYosys(q) /\ (e = "yosys" => OfBoard(q, x.job))
    BY <1>1, <1>5, <1>7, <1>8, <1>14 DEF FromYosys, OfBoard, SameWaiters
  <1>23. Core(q)
    BY <1>12, <1>13, <1>16, <1>18, <1>19, <1>20 DEF Core
  <1>21. Alive(q, "answer", x.job) /\ TrueRequest(q, x)
    BY <1>1, <1>5, <1>7, <1>15, <1>17 DEF AllAlive, AllTrue
  <1>22. x.job[1] = "warm" => NoWarm(Pending(q))
    BY <1>1, <1>12 DEF Apart, NoWarm
  <1> QED BY <1>5, <1>12, <1>20, <1>21, <1>22, <1>23 DEF x, s

-----------------------------------------------------------------------------
(* ask, settle and the time-out *)

\* The result of a task says whether the sources of its request compile.
Fits(x, result) ==
  /\ result \in Results
  /\ result = "clean" => x.truth = "ok"
  /\ result = "errors" => x.truth # "ok"

LEMMA TaskShape ==
  ASSUME NEW x \in Request, NEW result \in Results
  PROVE  LET t == Task("answer", x, result)
         IN /\ t \in PageTask /\ t.type = "answer" /\ t.job = x.job
            /\ t.result = result /\ t.version = x.version
  BY DEF Task, PageTask, Request

LEMMA AnswerIsTrue ==
  ASSUME NEW p, NEW x \in Request, NEW result \in Results, TrueRequest(p, x), Fits(x, result),
         result = "cancelled" => ~Current(p, x.job)
  PROVE  TrueTask(p, Task("answer", x, result))
  BY TaskShape DEF TrueTask, TrueRequest, Fits

LEMMA SettleKeeps ==
  ASSUME NEW p, Core(p), NEW e \in Engines, NEW i \in DOMAIN p.asked[e], NEW result,
         Fits(p.asked[e][i], result), result = "failed" => e = "yosys",
         result = "cancelled" => ~Current(p, p.asked[e][i].job)
  PROVE  Core(Settle(p, e, i, result))
  <1> DEFINE x == p.asked[e][i]
             t == Task("answer", x, result)
             w == Without(p.asked[e], i)
             q == [p EXCEPT !.asked[e] = w]
             z == [q EXCEPT !.tasks = @ \o <<t>>]
  <1>1. p \in Page /\ result \in Results
    BY DEF Core, Fits
  <1>2. p.asked[e] \in Seq(Request) /\ w \in Seq(Request)
    BY <1>1, Queues, TakenOut
  <1> HIDE DEF w
  <1>3. /\ q \in Page /\ q.asked = [p.asked EXCEPT ![e] = w] /\ q.tasks = p.tasks
        /\ SameWaiters(p, q) /\ SameNumbers(p, q) /\ SameFiles(p, q)
        /\ q.verdict = p.verdict /\ q.circuit = p.circuit
    BY <1>1, <1>2 DEF Page, SameWaiters, SameNumbers, SameFiles
  <1> HIDE DEF q
  <1>4. /\ Core(q) /\ x \in Request /\ x.job \notin Pending(q)
        /\ Alive(q, "answer", x.job) /\ TrueRequest(q, x)
        /\ e = "yosys" => OfBoard(q, x.job)
        /\ x.job[1] = "warm" => NoWarm(Pending(q))
    BY <1>3, Unqueued DEF w
  <1> HIDE DEF x
  <1>5. /\ t \in PageTask /\ t.type = "answer" /\ t.job = x.job
        /\ t.result = "failed" => OfBoard(q, t.job)
    BY <1>1, <1>4, TaskShape
  <1>6. TrueTask(q, t)
    <2>1. Current(q, x.job) <=> Current(p, x.job)
      BY <1>3 DEF Current, SameWaiters, SameNumbers
    <2> QED BY <2>1, <1>1, <1>4, AnswerIsTrue DEF x
  <1> HIDE DEF t
  <1>7. /\ z \in Page /\ z.tasks = q.tasks \o <<t>> /\ z.asked = q.asked
        /\ SameWaiters(q, z) /\ SameNumbers(q, z) /\ SameFiles(q, z)
        /\ z.verdict = q.verdict /\ z.circuit = q.circuit
    <2>1. q.tasks \o <<t>> \in Seq(PageTask)
      BY <1>3, <1>5, Queues
    <2> QED BY <2>1, <1>3 DEF Page, SameWaiters, SameNumbers, SameFiles
  <1> HIDE DEF z
  <1>8. Core(z)
    BY <1>4, <1>5, <1>6, <1>7, Tasked
  <1>9. Settle(p, e, i, result) = z
    BY <1>1 DEF Settle, AddTasks, z, q, w, t, x, Without, Page
  <1> QED BY <1>8, <1>9

LEMMA ExpireKeeps ==
  ASSUME NEW p, Core(p), p.tasks = <<>>, NEW e \in Engines, NEW i \in DOMAIN p.asked[e]
  PROVE  Core(Expire(p, e, i))
  <1> DEFINE s == p.asked[e]
             w == Without(s, i)
             a == [j \in DOMAIN w |-> Task("answer", w[j], "timeout")]
             t == Task("answer", s[i], "timeout")
             c == a \o <<t>>
             q == [p EXCEPT !.asked[e] = <<>>, !.tasks = c]
  <1>1. /\ p \in Page /\ Apart(p) /\ InOrder(p) /\ AllAlive(p) /\ Numbered(p)
        /\ AllTrue(p) /\ FromYosys(p) /\ Shown(p)
    BY DEF Core
  <1>2. s \in Seq(Request) /\ p.asked \in [Engines -> Seq(Request)] /\ i \in DOMAIN s
    BY <1>1, Queues, PageFields
  <1>3. Engines = {"yosys", "tb"}
    BY DEF Engines
  <1>4. OneEach(s)
    BY <1>1, <1>3 DEF Apart
  <1>5. /\ w \in Seq(Request) /\ Range(w) \subseteq Range(s)
        /\ OneEach(w) /\ s[i].job \notin JobsOf(w)
    BY <1>2, <1>4, TakenOut
  <1>6. s[i] \in Range(s) /\ s[i] \in Request
    BY <1>2, InRange
  <1> HIDE DEF s, w
  <1>7. /\ DOMAIN w = 1..Len(w) /\ Len(w) \in Nat
        /\ \A j \in DOMAIN w : w[j] \in Request /\ w[j] \in Range(w) /\ w[j].job \in JobsOf(w)
    BY <1>5, InRange
  <1>8. \A y \in Request : /\ Task("answer", y, "timeout") \in PageTask
                           /\ Task("answer", y, "timeout").job = y.job
    BY TaskShape DEF Results
  <1>9. /\ a \in Seq(PageTask) /\ DOMAIN a = DOMAIN w
        /\ \A j \in DOMAIN w : a[j] = Task("answer", w[j], "timeout") /\ a[j].job = w[j].job
    <2>1. a \in [1..Len(w) -> PageTask]
      BY <1>7, <1>8
    <2>2. a \in Seq(PageTask)
      BY <2>1, <1>7, SeqDef
    <2> QED BY <2>2, <1>7, <1>8
  <1> HIDE DEF a
  <1>10. /\ OneEach(a) /\ JobsOf(a) \subseteq JobsOf(w)
         /\ \A u \in Range(a) : \E y \in Range(s) : u = Task("answer", y, "timeout")
    <2>1. OneEach(a)
      BY <1>5, <1>9 DEF OneEach
    <2>2. ASSUME NEW u \in Range(a)
          PROVE  /\ u.job \in JobsOf(w)
                 /\ \E y \in Range(s) : u = Task("answer", y, "timeout")
      <3>1. PICK j \in DOMAIN w : u = a[j]
        BY <1>9 DEF Range
      <3> QED BY <3>1, <1>5, <1>7, <1>9
    <2> QED BY <2>1, <2>2 DEF JobsOf
  <1>11. t \in PageTask /\ t.job = s[i].job /\ t = Task("answer", s[i], "timeout")
    BY <1>6, <1>8
  <1> HIDE DEF t
  <1>12. /\ <<t>> \in Seq(PageTask) /\ Range(<<t>>) = {t}
         /\ JobsOf(<<t>>) = {t.job} /\ OneEach(<<t>>)
    BY <1>11, Single
  <1>13. /\ c \in Seq(PageTask) /\ Range(c) = Range(a) \cup Range(<<t>>)
         /\ JobsOf(c) = JobsOf(a) \cup JobsOf(<<t>>)
         /\ OneEach(a) /\ OneEach(<<t>>) /\ JobsOf(a) \cap JobsOf(<<t>>) = {} => OneEach(c)
    BY <1>9, <1>12, Joined, Zenon
  <1> HIDE DEF c
  <1>14. OneEach(c)
    BY <1>5, <1>10, <1>11, <1>12, <1>13
  <1>15. \A u \in Range(c) : \E y \in Range(s) : u = Task("answer", y, "timeout")
    BY <1>6, <1>10, <1>11, <1>12, <1>13
  <1>16. JobsOf(c) \subseteq JobsOf(s)
    <2> SUFFICES ASSUME NEW u \in Range(c) PROVE u.job \in JobsOf(s)
      BY DEF JobsOf
    <2>1. PICK y \in Range(s) : u = Task("answer", y, "timeout")
      BY <1>15
    <2>2. y \in Request
      BY <1>2, InRange
    <2> QED BY <2>1, <2>2, <1>8 DEF JobsOf
  <1>17. /\ q \in Page /\ q.asked = [p.asked EXCEPT ![e] = <<>>] /\ q.tasks = c
         /\ SameWaiters(p, q) /\ SameNumbers(p, q) /\ SameFiles(p, q)
         /\ q.verdict = p.verdict /\ q.circuit = p.circuit
    <2>1. [p.asked EXCEPT ![e] = <<>>] \in [Engines -> Seq(Request)]
      BY <1>2, Empty
    <2> QED BY <2>1, <1>1, <1>13 DEF Page, SameWaiters, SameNumbers, SameFiles
  <1> HIDE DEF q
  <1>18. s = p.asked[e] /\ q.asked[e] = <<>> /\ \A f \in Engines : f # e => q.asked[f] = p.asked[f]
    BY <1>2, <1>17 DEF s
  <1>19. Range(<<>>) = {} /\ JobsOf(<<>>) = {} /\ OneEach(<<>>) /\ DOMAIN <<>> = {}
    BY Empty
  <1>20. Apart(q) /\ InOrder(q) /\ Pending(q) \subseteq Pending(p)
    <2>1. ASSUME e = "yosys" PROVE Apart(q) /\ InOrder(q) /\ Pending(q) \subseteq Pending(p)
      <3>1. q.asked["yosys"] = <<>> /\ q.asked["tb"] = p.asked["tb"] /\ s = p.asked["yosys"]
        BY <2>1, <1>3, <1>18
      <3>2. Pending(q) \subseteq Pending(p)
        BY <3>1, <1>16, <1>17, <1>19 DEF Pending
      <3>3. \A x, y \in Pending(q) : x[1] = "warm" /\ y[1] = "warm" => x = y
        BY <3>2, <1>1 DEF Apart
      <3>4. Apart(q)
        BY <3>1, <3>3, <1>1, <1>14, <1>16, <1>17, <1>19 DEF Apart
      <3>5. InOrder(q)
        BY <3>1, <1>19 DEF InOrder
      <3> QED BY <3>2, <3>4, <3>5
    <2>2. ASSUME e = "tb" PROVE Apart(q) /\ InOrder(q) /\ Pending(q) \subseteq Pending(p)
      <3>1. q.asked["tb"] = <<>> /\ q.asked["yosys"] = p.asked["yosys"] /\ s = p.asked["tb"]
        BY <2>2, <1>3, <1>18
      <3>2. Pending(q) \subseteq Pending(p)
        BY <3>1, <1>16, <1>17, <1>19 DEF Pending
      <3>3. \A x, y \in Pending(q) : x[1] = "warm" /\ y[1] = "warm" => x = y
        BY <3>2, <1>1 DEF Apart
      <3>4. Apart(q)
        BY <3>1, <3>3, <1>1, <1>14, <1>16, <1>17, <1>19 DEF Apart
      <3>5. InOrder(q)
        BY <3>1, <1>1 DEF InOrder
      <3> QED BY <3>2, <3>4, <3>5
    <2> QED BY <2>1, <2>2, <1>3
  <1>21. Numbered(q)
    BY <1>1, <1>17 DEF Numbered, SameWaiters, SameNumbers
  <1>22. \A f \in Engines : Range(q.asked[f]) \subseteq Range(p.asked[f])
    BY <1>18, <1>19
  <1>23. \A type, job : Alive(p, type, job) => Alive(q, type, job)
    BY <1>17 DEF Alive, SameWaiters
  <1>24. ASSUME NEW u \in Range(c)
         PROVE  Alive(q, u.type, u.job) /\ TrueTask(q, u) /\ u.result = "timeout"
    <2>1. PICK y \in Range(s) : u = Task("answer", y, "timeout")
      BY <1>15
    <2>2. y \in Request /\ Alive(p, "answer", y.job)
      BY <1>1, <1>2, <1>18, InRange DEF AllAlive
    <2>3. u.type = "answer" /\ u.job = y.job /\ u.result = "timeout"
      BY <2>1, <2>2, TaskShape DEF Results
    <2>4. TrueTask(q, u)
      <3>1. TrueRequest(p, y) /\ Fits(y, "timeout")
        BY <1>1, <1>18 DEF AllTrue, Fits, Results
      <3>2. TrueRequest(q, y)
        BY <3>1, <1>17
           DEF TrueRequest, Current, Compiles, SameWaiters, SameNumbers, SameFiles
      <3> QED BY <3>1, <3>2, <2>1, <2>2, AnswerIsTrue DEF Results
    <2> QED BY <2>2, <2>3, <2>4, <1>23
  <1>25. AllAlive(q)
    BY <1>1, <1>17, <1>22, <1>23, <1>24 DEF AllAlive
  <1>26. \A y : TrueRequest(p, y) => TrueRequest(q, y)
    BY <1>17 DEF TrueRequest, Current, Compiles, SameWaiters, SameNumbers, SameFiles
  <1>27. AllTrue(q)
    BY <1>1, <1>17, <1>22, <1>24, <1>26 DEF AllTrue
  <1>28. Shown(q)
    BY <1>1, <1>17 DEF Shown, Right, Compiles, SameFiles
  <1>29. FromYosys(q)
    <2>1. "yosys" \in Engines
      BY DEF Engines
    <2> QED BY <2>1, <1>1, <1>17, <1>22, <1>24 DEF FromYosys, OfBoard, SameWaiters
  <1>30. Core(q)
    BY <1>17, <1>20, <1>21, <1>25, <1>27, <1>28, <1>29 DEF Core
  <1>31. Expire(p, e, i) = q
    <2>1. <<>> \o c = c
      BY <1>13, ConcatEmptySeq
    <2>2. Expire(p, e, i) = [p EXCEPT !.asked[e] = <<>>, !.tasks = <<>> \o c]
      BY <1>1 DEF Expire, AddTasks, c, a, t, w, s, Without, Page
    <2> QED BY <2>1, <2>2 DEF q
  <1> QED BY <1>30, <1>31

LEMMA PendingAlive ==
  ASSUME NEW p, Core(p), NEW j \in Pending(p)
  PROVE  j \in Job /\ \E type : Alive(p, type, j)
  <1>1. p \in Page /\ AllAlive(p)
    BY DEF Core
  <1>2. j \in Job
    BY <1>1, Queues
  <1>3. \/ \E e \in Engines : \E x \in Range(p.asked[e]) : x.job = j
        \/ \E t \in Range(p.tasks) : t.job = j
    BY DEF Pending, JobsOf, Engines
  <1>4. CASE \E e \in Engines : \E x \in Range(p.asked[e]) : x.job = j
    BY <1>1, <1>2, <1>4 DEF AllAlive
  <1>5. CASE \E t \in Range(p.tasks) : t.job = j
    BY <1>1, <1>2, <1>5 DEF AllAlive
  <1> QED BY <1>3, <1>4, <1>5

\* Nothing of a check is pending before it asks.
LEMMA NothingAsked ==
  ASSUME NEW p, Core(p), NEW v \in Views,
         p.checks[v].stage = "no" \/ (p.checks[v].stage = "waits" /\ ~p.warm)
  PROVE  <<"lint", v>> \notin Pending(p)
  <1> SUFFICES ASSUME <<"lint", v>> \in Pending(p) PROVE FALSE
    OBVIOUS
  <1>1. PICK type : Alive(p, type, <<"lint", v>>)
    BY PendingAlive
  <1> QED BY <1>1 DEF Alive

\* No run has the next number.
LEMMA NextRunIsNew ==
  ASSUME NEW p, Core(p)
  PROVE  <<"run", p.runGen + 1>> \notin Pending(p)
  <1> SUFFICES ASSUME <<"run", p.runGen + 1>> \in Pending(p) PROVE FALSE
    OBVIOUS
  <1>1. PICK type : Alive(p, type, <<"run", p.runGen + 1>>)
    BY PendingAlive
  <1>2. PICK r \in p.runs : r.n = p.runGen + 1
    BY <1>1 DEF Alive
  <1>3. r.n <= p.runGen /\ p.runGen \in Nat
    BY PageFields DEF Core, Numbered
  <1> QED BY <1>2, <1>3

LEMMA AskKeeps ==
  ASSUME NEW p, Core(p), NEW e \in Engines, NEW job \in Job,
         job \notin Pending(p), Alive(p, "answer", job),
         job[1] = "run" => job[2] = p.runGen,
         job[1] = "warm" => NoWarm(Pending(p)),
         e = "yosys" => OfBoard(p, job)
  PROVE  LET q == Ask(p, e, job)
         IN /\ Core(q) /\ Pending(q) = Pending(p) \cup {job}
            /\ SameWaiters(p, q) /\ SameNumbers(p, q) /\ SameFiles(p, q)
            /\ q.disabled = p.disabled /\ q.verdict = p.verdict
  <1> DEFINE truth == IF job[1] = "warm" \/ Compiles(p) THEN "ok" ELSE "bad"
             x == [job |-> job, truth |-> truth, version |-> p.version, lost |-> FALSE]
             q == [p EXCEPT !.asked[e] = Append(@, x)]
  <1>1. p \in Page /\ p.version \in Nat /\ truth \in {"ok", "bad"}
    BY PageFields DEF Core
  <1>2. x \in Request /\ x.job = job /\ x.version = p.version /\ ~x.lost /\ x.truth = truth
    BY <1>1 DEF Request
  <1>3. TrueRequest(p, x)
    BY <1>2 DEF TrueRequest, Current
  <1> HIDE DEF x
  <1>4. p.asked[e] \in Seq(Request) /\ Append(p.asked[e], x) \in Seq(Request)
    BY <1>1, <1>2, Queues, Longer
  <1>5. /\ q \in Page /\ q.asked = [p.asked EXCEPT ![e] = Append(p.asked[e], x)]
        /\ q.tasks = p.tasks
        /\ SameWaiters(p, q) /\ SameNumbers(p, q) /\ SameFiles(p, q)
        /\ q.verdict = p.verdict /\ q.circuit = p.circuit /\ q.disabled = p.disabled
    BY <1>1, <1>4 DEF Page, SameWaiters, SameNumbers, SameFiles
  <1> HIDE DEF q
  <1>6. Core(q) /\ Pending(q) = Pending(p) \cup {x.job}
    BY <1>2, <1>3, <1>5, Posted
  <1>7. Ask(p, e, job) = q
    BY DEF Ask, q, x
  <1> QED BY <1>2, <1>5, <1>6, <1>7

LEMMA TaskKeeps ==
  ASSUME NEW p, Core(p), NEW t \in PageTask,
         t.job \notin Pending(p), Alive(p, t.type, t.job), TrueTask(p, t), t.job[1] # "warm",
         t.result = "failed" => OfBoard(p, t.job)
  PROVE  LET q == AddTasks(p, <<t>>)
         IN /\ Core(q) /\ Pending(q) = Pending(p) \cup {t.job}
            /\ SameWaiters(p, q) /\ SameNumbers(p, q) /\ SameFiles(p, q)
            /\ q.disabled = p.disabled /\ q.verdict = p.verdict
  <1> DEFINE q == AddTasks(p, <<t>>)
  <1>1. p \in Page /\ p.tasks \in Seq(PageTask)
    BY PageFields DEF Core
  <1>2. p.tasks \o <<t>> \in Seq(PageTask)
    BY <1>1
  <1>3. /\ q \in Page /\ q.tasks = p.tasks \o <<t>> /\ q.asked = p.asked
        /\ SameWaiters(p, q) /\ SameNumbers(p, q) /\ SameFiles(p, q)
        /\ q.verdict = p.verdict /\ q.circuit = p.circuit /\ q.disabled = p.disabled
    BY <1>1, <1>2 DEF AddTasks, Page, SameWaiters, SameNumbers, SameFiles
  <1> HIDE DEF q
  <1>4. Core(q) /\ Pending(q) = Pending(p) \cup {t.job}
    BY <1>3, Tasked
  <1> QED BY <1>3, <1>4 DEF q

-----------------------------------------------------------------------------
(* The functions of the page keep the invariant *)

LEMMA GateKeeps ==
  ASSUME NEW p, Core(p)
  PROVE  LET q == GateRun(p)
         IN /\ Core(q) /\ Button(q) /\ Pending(q) = Pending(p)
            /\ SameWork(p, q) /\ SameWaiters(p, q) /\ SameNumbers(p, q) /\ SameFiles(p, q)
            /\ q.verdict = p.verdict
  <1> DEFINE q == GateRun(p)
  <1>1. p \in Page /\ Shown(p)
    BY DEF Core
  <1>2. /\ q \in Page /\ SameWork(p, q) /\ SameWaiters(p, q) /\ SameNumbers(p, q) /\ SameFiles(p, q)
        /\ q.verdict = p.verdict /\ q.circuit = p.circuit /\ q.runs = p.runs
        /\ q.disabled = (InFlight(p) \/ HasErrors(p))
    BY <1>1 DEF GateRun, HasErrors, Page, SameWork, SameWaiters, SameNumbers, SameFiles
  <1> HIDE DEF q
  <1>3. Core(q) /\ Pending(q) = Pending(p)
    BY <1>1, <1>2, Redrawn DEF Shown
  <1>4. Button(q)
    BY <1>2 DEF Button, InFlight, HasErrors
  <1> QED BY <1>2, <1>3, <1>4 DEF q

LEMMA ApplyKeeps ==
  ASSUME NEW p, Core(p), NEW gen, NEW v, NEW verdict \in Verdicts,
         gen = p.gen /\ v = p.view => Right(p, verdict)
  PROVE  LET q == ApplyLint(p, gen, v, verdict)
         IN /\ Core(q) /\ (Button(p) => Button(q)) /\ Pending(q) = Pending(p)
            /\ SameWork(p, q) /\ SameWaiters(p, q) /\ SameNumbers(p, q) /\ SameFiles(p, q)
  <1>1. CASE gen = p.gen /\ v = p.view
    <2> DEFINE q == [p EXCEPT !.verdict = verdict]
               z == GateRun(q)
    <2>1. p \in Page /\ Shown(p)
      BY DEF Core
    <2>2. /\ q \in Page /\ SameWork(p, q) /\ SameWaiters(p, q) /\ SameNumbers(p, q) /\ SameFiles(p, q)
          /\ q.verdict = verdict /\ q.circuit = p.circuit
      BY <2>1 DEF Page, SameWork, SameWaiters, SameNumbers, SameFiles
    <2>3. ApplyLint(p, gen, v, verdict) = z
      BY <1>1 DEF ApplyLint
    <2> HIDE DEF q
    <2>4. Core(q) /\ Pending(q) = Pending(p)
      BY <1>1, <2>1, <2>2, Redrawn DEF Shown
    <2>5. /\ Core(z) /\ Button(z) /\ Pending(z) = Pending(q)
          /\ SameWork(q, z) /\ SameWaiters(q, z) /\ SameNumbers(q, z) /\ SameFiles(q, z)
      BY <2>4, GateKeeps
    <2> HIDE DEF z
    <2> QED BY <2>2, <2>3, <2>4, <2>5 DEF SameWork, SameWaiters, SameNumbers, SameFiles
  <1>2. CASE ~(gen = p.gen /\ v = p.view)
    BY <1>2 DEF ApplyLint, SameWork, SameWaiters, SameNumbers, SameFiles
  <1> QED BY <1>1, <1>2

\* What StartLint begins with: the timer is over.
LEMMA TimerOver ==
  ASSUME NEW p, Core(p)
  PROVE  LET q == [p EXCEPT !.timer = FALSE]
         IN /\ Core(q) /\ (Button(p) => Button(q)) /\ Pending(q) = Pending(p)
            /\ SameWork(p, q) /\ SameWaiters(p, q) /\ SameNumbers(p, q) /\ SameFiles(p, q)
            /\ q.verdict = p.verdict /\ q.disabled = p.disabled
  <1> DEFINE q == [p EXCEPT !.timer = FALSE]
  <1>1. p \in Page /\ Shown(p)
    BY DEF Core
  <1>2. /\ q \in Page /\ SameWork(p, q) /\ SameWaiters(p, q) /\ SameNumbers(p, q) /\ SameFiles(p, q)
        /\ q.verdict = p.verdict /\ q.circuit = p.circuit /\ q.disabled = p.disabled
    BY <1>1 DEF Page, SameWork, SameWaiters, SameNumbers, SameFiles
  <1> HIDE DEF q
  <1>3. Core(q) /\ Pending(q) = Pending(p)
    BY <1>1, <1>2, Redrawn DEF Shown
  <1> QED BY <1>2, <1>3 DEF Button, HasErrors, SameWaiters, q

LEMMA CheckKeeps ==
  ASSUME NEW p, Core(p), NEW v \in Views,
         NEW c \in [stage : {"no", "waits", "asked"}, gen : Nat],
         c.gen <= p.gen, <<"lint", v>> \notin Pending(p)
  PROVE  LET q == [p EXCEPT !.checks[v] = c]
         IN /\ Core(q) /\ (Button(p) => Button(q)) /\ Pending(q) = Pending(p)
            /\ q.checks[v] = c /\ q.runs = p.runs /\ q.warm = p.warm
            /\ SameWork(p, q) /\ SameNumbers(p, q) /\ SameFiles(p, q)
            /\ q.verdict = p.verdict /\ q.disabled = p.disabled /\ q.timer = p.timer
  <1> DEFINE q == [p EXCEPT !.checks[v] = c]
  <1>1. p \in Page /\ p.checks \in [Views -> [stage : {"no", "waits", "asked"}, gen : Nat]]
    BY PageFields DEF Core
  <1>2. /\ q \in Page /\ q.checks = [p.checks EXCEPT ![v] = c] /\ q.checks[v] = c
        /\ q.runs = p.runs /\ q.warm = p.warm
        /\ SameWork(p, q) /\ SameNumbers(p, q) /\ SameFiles(p, q)
        /\ q.verdict = p.verdict /\ q.circuit = p.circuit /\ q.disabled = p.disabled
        /\ q.timer = p.timer
    BY <1>1 DEF Page, SameWork, SameNumbers, SameFiles
  <1> HIDE DEF q
  <1>3. Core(q) /\ Pending(q) = Pending(p)
    BY <1>2, Checked
  <1> QED BY <1>2, <1>3 DEF Button, HasErrors, q

LEMMA StartKeeps ==
  ASSUME NEW p, Core(p)
  PROVE  Core(StartLint(p)) /\ (Button(p) => Button(StartLint(p)))
  <1> DEFINE v == p.view
             q == [p EXCEPT !.timer = FALSE]
             k == [stage |-> IF v = "tb" THEN "asked" ELSE "waits", gen |-> p.gen]
             c == [q EXCEPT !.checks[v] = k]
             t == Task("warmed", [job |-> <<"lint", v>>, version |-> 0], "clean")
             z == StartLint(p)
  <1>1. p \in Page /\ v \in Views /\ p.gen \in Nat /\ v \in {"board", "tb"}
    BY PageFields DEF Core, Views
  <1>2. /\ Core(q) /\ (Button(p) => Button(q)) /\ Pending(q) = Pending(p)
        /\ SameWork(p, q) /\ SameWaiters(p, q) /\ SameNumbers(p, q) /\ SameFiles(p, q)
        /\ q.verdict = p.verdict /\ q.disabled = p.disabled
    BY TimerOver
  <1> HIDE DEF q
  <1>3. CASE InFlight(p) \/ (~NoRole(p) /\ v \in Busy(p))
    BY <1>2, <1>3 DEF StartLint, q
  <1>4. CASE ~InFlight(p) /\ NoRole(p)
    <2>1. Right(q, "errors")
      BY <1>2, <1>4 DEF Right, NoRole, Compiles, SameFiles
    <2>2. z = ApplyLint(q, p.gen, v, "errors")
      BY <1>4 DEF StartLint, q
    <2>3. "errors" \in Verdicts
      BY DEF Verdicts
    <2> HIDE DEF z
    <2>4. Core(z) /\ (Button(q) => Button(z))
      BY <2>1, <2>2, <2>3, <1>2, ApplyKeeps
    <2> QED BY <2>4, <1>2 DEF z
  <1>5. CASE ~InFlight(p) /\ ~NoRole(p) /\ v \notin Busy(p)
    <2>1. q.checks[v].stage = "no" /\ <<"lint", v>> \notin Pending(q)
      <3>1. p.checks[v].stage = "no"
        BY <1>1, <1>5 DEF Busy
      <3>2. <<"lint", v>> \notin Pending(p)
        BY <1>1, <3>1, NothingAsked
      <3> QED BY <1>2, <3>1, <3>2 DEF SameWaiters
    <2>2. /\ k \in [stage : {"no", "waits", "asked"}, gen : Nat] /\ k.gen = p.gen
          /\ k.stage = IF v = "tb" THEN "asked" ELSE "waits"
      BY <1>1
    <2>3. k.gen <= q.gen
      BY <1>1, <1>2, <2>2 DEF SameNumbers
    <2> HIDE DEF k
    <2>4. /\ Core(c) /\ (Button(q) => Button(c)) /\ Pending(c) = Pending(q)
          /\ c.checks[v] = k /\ c.runs = q.runs /\ c.warm = q.warm
          /\ SameWork(q, c) /\ SameNumbers(q, c) /\ SameFiles(q, c)
          /\ c.verdict = q.verdict /\ c.disabled = q.disabled
      BY <1>1, <1>2, <2>1, <2>2, <2>3, CheckKeeps
    <2> HIDE DEF c
    <2>5. <<"lint", v>> \in Job /\ <<"lint", v>>[1] = "lint" /\ <<"lint", v>>[2] = v
      BY <1>1 DEF Job
    <2>6. CASE v = "tb"
      <3>1. z = Ask(c, "tb", <<"lint", v>>)
        BY <1>5, <2>6 DEF StartLint, c, k, q
      <3>2. Alive(c, "answer", <<"lint", v>>)
        BY <2>2, <2>4, <2>5, <2>6 DEF Alive
      <3>3. "tb" \in Engines
        BY DEF Engines
      <3> HIDE DEF z
      <3>4. /\ Core(z) /\ SameWaiters(c, z)
            /\ z.disabled = c.disabled /\ z.verdict = c.verdict
        BY <3>1, <3>2, <3>3, <2>1, <2>4, <2>5, AskKeeps
      <3> QED BY <3>4, <2>4, <1>2 DEF Button, HasErrors, SameWaiters, z
    <2>7. CASE v # "tb" /\ p.warm
      <3>1. z = AddTasks(c, <<t>>)
        BY <1>5, <2>7 DEF StartLint, c, k, q
      <3>2. /\ t \in PageTask /\ t.job = <<"lint", v>> /\ t.type = "warmed" /\ t.result = "clean"
        BY <2>5 DEF Task, PageTask, Results
      <3> HIDE DEF t
      <3>3. Alive(c, t.type, t.job) /\ TrueTask(c, t)
        BY <2>2, <2>4, <2>5, <2>7, <3>2, <1>1, <1>2 DEF Alive, TrueTask, SameWaiters
      <3> HIDE DEF z
      <3>4. /\ Core(z) /\ SameWaiters(c, z)
            /\ z.disabled = c.disabled /\ z.verdict = c.verdict
        BY <3>1, <3>2, <3>3, <2>1, <2>4, <2>5, TaskKeeps
      <3> QED BY <3>4, <2>4, <1>2 DEF Button, HasErrors, SameWaiters, z
    <2>8. CASE v # "tb" /\ ~p.warm
      <3>1. z = c
        BY <1>5, <2>8 DEF StartLint, c, k, q
      <3> QED BY <3>1, <2>4, <1>2
    <2> QED BY <2>6, <2>7, <2>8
  <1> QED BY <1>3, <1>4, <1>5

LEMMA EndKeeps ==
  ASSUME NEW p, Core(p), NEW v \in Views, NEW verdict \in Verdicts,
         <<"lint", v>> \notin Pending(p),
         p.checks[v].gen = p.gen /\ v = p.view => Right(p, verdict)
  PROVE  Core(EndLint(p, v, verdict)) /\ (Button(p) => Button(EndLint(p, v, verdict)))
  <1> DEFINE gen == p.checks[v].gen
             k == [stage |-> "no", gen |-> 0]
             q == [p EXCEPT !.checks[v] = k]
             z == EndLint(p, v, verdict)
  <1>1. k \in [stage : {"no", "waits", "asked"}, gen : Nat] /\ k.gen = 0 /\ 0 <= p.gen
    BY PageFields DEF Core
  <1> HIDE DEF k
  <1>2. /\ Core(q) /\ (Button(p) => Button(q)) /\ SameNumbers(p, q) /\ SameFiles(p, q)
    BY <1>1, CheckKeeps
  <1> HIDE DEF q
  <1>3. CASE gen = p.gen /\ v = p.view /\ verdict # "none"
    <2>1. z = ApplyLint(q, gen, v, verdict)
      BY <1>3 DEF EndLint, q, k
    <2>2. Right(q, verdict)
      BY <1>2, <1>3 DEF Right, Compiles, SameFiles
    <2> HIDE DEF z
    <2>3. Core(z) /\ (Button(q) => Button(z))
      BY <2>1, <2>2, <1>2, ApplyKeeps
    <2> QED BY <2>3, <1>2 DEF z
  <1>4. CASE v = p.view /\ gen # p.gen /\ p.verdict = "none" /\ ~p.timer
    <2>1. z = StartLint(q)
      BY <1>4 DEF EndLint, q, k
    <2> HIDE DEF z
    <2>2. Core(z) /\ (Button(q) => Button(z))
      BY <2>1, <1>2, StartKeeps
    <2> QED BY <2>2, <1>2 DEF z
  <1>5. CASE /\ ~(gen = p.gen /\ v = p.view /\ verdict # "none")
             /\ ~(v = p.view /\ gen # p.gen /\ p.verdict = "none" /\ ~p.timer)
    <2>1. z = q
      BY <1>5 DEF EndLint, q, k
    <2> QED BY <2>1, <1>2
  <1> QED BY <1>3, <1>4, <1>5

LEMMA WarmedKeeps ==
  ASSUME NEW p, Core(p), NEW v \in Views, <<"lint", v>> \notin Pending(p), v = "board"
  PROVE  Core(LintWarmed(p, v)) /\ (Button(p) => Button(LintWarmed(p, v)))
  <1> DEFINE k == [p.checks[v] EXCEPT !.stage = "asked"]
             c == [p EXCEPT !.checks[v] = k]
             z == LintWarmed(p, v)
  <1>1. /\ p \in Page /\ p.checks[v] \in [stage : {"no", "waits", "asked"}, gen : Nat]
        /\ p.checks[v].gen <= p.gen
        /\ p.checks \in [Views -> [stage : {"no", "waits", "asked"}, gen : Nat]]
    BY PageFields DEF Core, Numbered
  <1>2. CASE p.checks[v].gen = p.gen /\ v = p.view /\ ~InFlight(p)
    <2>1. /\ k \in [stage : {"no", "waits", "asked"}, gen : Nat] /\ k.gen <= p.gen
          /\ k.stage = "asked"
      BY <1>1
    <2>2. z = Ask([p EXCEPT !.checks[v].stage = "asked"], "yosys", <<"lint", v>>)
      BY <1>2 DEF LintWarmed
    <2>3. [p EXCEPT !.checks[v].stage = "asked"] = c
      BY <1>1 DEF Page
    <2> HIDE DEF k
    <2>4. /\ Core(c) /\ (Button(p) => Button(c)) /\ Pending(c) = Pending(p)
          /\ c.checks[v] = k
      BY <2>1, CheckKeeps
    <2> HIDE DEF c
    <2>5. <<"lint", v>> \in Job /\ <<"lint", v>>[1] = "lint" /\ <<"lint", v>>[2] = v
      BY DEF Job
    <2>6. Alive(c, "answer", <<"lint", v>>)
      BY <2>1, <2>4, <2>5 DEF Alive
    <2>7. "yosys" \in Engines /\ OfBoard(c, <<"lint", v>>)
      BY <2>5 DEF Engines, OfBoard
    <2> HIDE DEF z
    <2>8. /\ Core(z) /\ SameWaiters(c, z)
          /\ z.disabled = c.disabled /\ z.verdict = c.verdict
      BY <2>2, <2>3, <2>4, <2>5, <2>6, <2>7, AskKeeps
    <2> QED BY <2>4, <2>8 DEF Button, HasErrors, SameWaiters, z
  <1>3. CASE ~(p.checks[v].gen = p.gen /\ v = p.view /\ ~InFlight(p))
    <2>1. z = EndLint(p, v, "none")
      BY <1>3 DEF LintWarmed
    <2>2. "none" \in Verdicts /\ Right(p, "none")
      BY DEF Verdicts, Right
    <2> QED BY <2>1, <2>2, EndKeeps
  <1> QED BY <1>2, <1>3

-----------------------------------------------------------------------------
(* Runs *)

LEMMA RunStartedKeeps ==
  ASSUME NEW p, Core(p)
  PROVE  LET z == RunStarted(p)
         IN /\ Core(z) /\ Button(z) /\ z.checks = p.checks /\ z.warm = p.warm
            /\ \A j \in Pending(z) : j \in Pending(p) \/ j[1] = "run"
  <1> DEFINE r == RunRecord(p)
             q == [p EXCEPT !.runGen = @ + 1, !.timer = FALSE, !.runs = @ \cup {r},
                            !.disabled = ~NoRole(p)]
             b == IF p.view = "board" THEN ResetBoard(q) ELSE q
             t == Task("finally", [job |-> <<"run", r.n>>, version |-> 0], "clean")
             z == RunStarted(p)
  <1>1. /\ p \in Page /\ p.runGen \in Nat /\ p.gen \in Nat /\ p.view \in Views /\ Shown(p)
        /\ p.runs \in SUBSET [n : Nat, gen : Nat, view : Views]
    BY PageFields DEF Core
  <1>2. r.n = p.runGen + 1 /\ r \in [n : Nat, gen : Nat, view : Views]
    BY <1>1 DEF RunRecord
  <1> HIDE DEF r
  <1>3. /\ q \in Page /\ SameWork(p, q) /\ q.checks = p.checks /\ q.warm = p.warm
        /\ q.runGen = p.runGen + 1 /\ q.runs = p.runs \cup {r} /\ q.gen = p.gen
        /\ SameFiles(p, q) /\ q.verdict = p.verdict /\ q.circuit = p.circuit
    BY <1>1, <1>2 DEF Page, SameWork, SameFiles
  <1> HIDE DEF q
  <1>4. /\ b \in Page /\ SameWork(p, b) /\ b.checks = p.checks /\ b.warm = p.warm
        /\ b.runGen = p.runGen + 1 /\ b.runs = p.runs \cup {r} /\ b.gen = p.gen
        /\ SameFiles(p, b) /\ b.verdict = p.verdict /\ b.circuit \in {0, p.circuit}
    BY <1>3 DEF ResetBoard, Page, SameWork, SameFiles
  <1> HIDE DEF b
  <1>5. Core(b) /\ Pending(b) = Pending(p)
    <2>1. b.circuit \in {0, b.version}
      BY <1>1, <1>4 DEF Shown, SameFiles
    <2>2. p.runs \subseteq b.runs /\ \A o \in b.runs : o \in p.runs \/ o.n = b.runGen
      BY <1>2, <1>4
    <2> QED BY <1>4, <2>1, <2>2, TurnedOver
  <1>6. <<"run", r.n>> \notin Pending(b)
    BY <1>2, <1>5, NextRunIsNew
  <1>7. /\ <<"run", r.n>> \in Job /\ <<"run", r.n>>[1] = "run" /\ <<"run", r.n>>[2] = r.n
        /\ r \in b.runs /\ r.n = b.runGen
    BY <1>2, <1>4 DEF Job
  <1>8. CASE NoRole(p)
    <2>1. z = AddTasks(b, <<t>>)
      BY <1>8 DEF RunStarted, b, q, r
    <2>2. t \in PageTask /\ t.job = <<"run", r.n>> /\ t.type = "finally" /\ t.result = "clean"
      BY <1>7 DEF Task, PageTask, Results
    <2> HIDE DEF t
    <2>3. Alive(b, t.type, t.job) /\ TrueTask(b, t)
      BY <1>7, <2>2 DEF Alive, TrueTask
    <2> HIDE DEF z
    <2>4. Core(z) /\ Pending(z) = Pending(b) \cup {t.job} /\ SameWaiters(b, z)
      BY <2>1, <2>2, <2>3, <1>5, <1>6, <1>7, TaskKeeps
    <2> QED BY <2>2, <2>4, <1>4, <1>5, <1>7 DEF Button, HasErrors, SameWaiters, z
  <1>9. CASE ~NoRole(p)
    <2>1. z = Ask(b, EngineOf(p.view), <<"run", r.n>>)
      BY <1>9 DEF RunStarted, b, q, r
    <2>2. /\ EngineOf(p.view) \in Engines
          /\ EngineOf(p.view) = "yosys" => OfBoard(b, <<"run", r.n>>)
      <3>1. EngineOf(p.view) \in Engines /\ (EngineOf(p.view) = "yosys" => p.view = "board")
        BY DEF EngineOf, Engines
      <3>2. r.view = p.view
        BY DEF r, RunRecord
      <3>3. ASSUME NEW o \in b.runs, o.n = r.n PROVE o = r
        BY <3>3, <1>1, <1>2, <1>4 DEF Core, Numbered
      <3> QED BY <3>1, <3>2, <3>3, <1>7 DEF OfBoard
    <2>3. Alive(b, "answer", <<"run", r.n>>)
      BY <1>7 DEF Alive
    <2> HIDE DEF z
    <2>4. Core(z) /\ Pending(z) = Pending(b) \cup {<<"run", r.n>>} /\ SameWaiters(b, z)
      BY <2>1, <2>2, <2>3, <1>5, <1>6, <1>7, AskKeeps
    <2> QED BY <2>4, <1>4, <1>5, <1>7 DEF Button, HasErrors, SameWaiters, z
  <1> QED BY <1>8, <1>9

LEMMA RunKeeps ==
  ASSUME NEW p, Core(p)
  PROVE  LET z == Run(p)
         IN /\ Core(z) /\ Button(z) /\ z.checks = p.checks /\ z.warm = p.warm
            /\ \A j \in Pending(z) : j \in Pending(p) \/ j[1] = "run"
  <1>1. CASE HasErrors(p)
    <2>1. Run(p) = GateRun(p)
      BY <1>1 DEF Run
    <2> QED BY <2>1, GateKeeps DEF SameWaiters
  <1>2. CASE ~HasErrors(p)
    <2>1. Run(p) = RunStarted(p)
      BY <1>2 DEF Run
    <2> QED BY <2>1, RunStartedKeeps
  <1> QED BY <1>1, <1>2

\* Task has the job and version of what it is made from.
LEMMA FinallyShape ==
  ASSUME NEW task \in PageTask
  PROVE  LET t == Task("finally", task, task.result)
         IN t \in PageTask /\ t.job = task.job /\ t.type = "finally" /\ t.result = task.result
  BY DEF Task, PageTask

LEMMA RunAnsweredKeeps ==
  ASSUME NEW p, Core(p), NEW r \in p.runs, NEW task \in PageTask,
         task.job = <<"run", r.n>>, task.type = "answer",
         task.job \notin Pending(p), TrueTask(p, task),
         task.result = "failed" => OfBoard(p, task.job)
  PROVE  Core(RunAnswered(p, r, task)) /\ Button(RunAnswered(p, r, task))
  <1> DEFINE o == [p EXCEPT !.disabled = FALSE]
             verdict == VerdictOf(task.result)
             found == LintFromRun(o, r.gen, r.view, verdict)
             shown == [found EXCEPT !.circuit = task.version]
             next == IF MovedOn(p, r) THEN p
                     ELSE IF r.view = "board"
                     THEN IF task.result = "clean" /\ p.content["board"] = "ok" THEN shown ELSE found
                     ELSE IF task.result \in {"clean", "errors"} THEN found ELSE o
             t == Task("finally", task, task.result)
             z == AddTasks(next, <<t>>)
             Good(x) == Core(x) /\ Pending(x) = Pending(p) /\ x.runs = p.runs
  <1>1. p \in Page /\ Shown(p) /\ task.result \in Results /\ task.version \in Nat
    BY DEF Core, PageTask
  <1>2. task.job[1] = "run" /\ task.job[2] = r.n
    OBVIOUS
  <1>3. RunAnswered(p, r, task) = z
    BY DEF RunAnswered
  <1>4. /\ o \in Page /\ SameWork(p, o) /\ SameWaiters(p, o) /\ SameNumbers(p, o) /\ SameFiles(p, o)
        /\ o.verdict = p.verdict /\ o.circuit = p.circuit /\ o.runs = p.runs
    BY <1>1 DEF Page, SameWork, SameWaiters, SameNumbers, SameFiles
  <1> HIDE DEF o
  <1>5. Good(o)
    BY <1>1, <1>4, Redrawn DEF Shown
  <1>6. ASSUME ~MovedOn(p, r)
        PROVE  /\ Good(found) /\ found.version = p.version
               /\ task.version = p.version
    <2>1. Current(p, task.job)
      BY <1>2, <1>6 DEF MovedOn, Current
    <2>2. /\ task.result = "clean" => Compiles(p)
          /\ task.result = "errors" => ~Compiles(p)
          /\ task.result # "cancelled" /\ task.version = p.version
      BY <2>1, <1>2 DEF TrueTask
    <2>3. verdict \in Verdicts /\ Right(o, verdict)
      <3>1. /\ task.result = "clean" => verdict = "clean"
            /\ task.result \in {"errors", "failed"} => verdict = task.result
            /\ task.result \in {"crash", "timeout"} => verdict = "unchecked"
        BY DEF VerdictOf
      <3>2. task.result \in {"clean", "errors", "failed", "crash", "timeout"}
        BY <1>1, <2>2 DEF Results
      <3>3. task.result = "failed" => p.view = "board"
        BY <1>2, <1>6 DEF OfBoard, MovedOn
      <3> HIDE DEF verdict
      <3> QED BY <2>2, <3>1, <3>2, <3>3, <1>4 DEF Verdicts, Right, Compiles, SameFiles
    <2> HIDE DEF verdict
    <2>4. found = o \/ found = ApplyLint(o, r.gen, r.view, verdict)
      BY DEF LintFromRun
    <2> HIDE DEF found
    <2>5. CASE found = o
      BY <2>2, <2>5, <1>4, <1>5 DEF SameFiles
    <2>6. CASE found = ApplyLint(o, r.gen, r.view, verdict)
      <3>1. /\ Core(found) /\ Pending(found) = Pending(o)
            /\ SameWaiters(o, found) /\ SameFiles(o, found)
        BY <2>3, <2>6, <1>5, ApplyKeeps
      <3> QED BY <3>1, <2>2, <1>4, <1>5 DEF SameWaiters, SameFiles
    <2> QED BY <2>4, <2>5, <2>6
  <1>7. ASSUME ~MovedOn(p, r) PROVE Good(shown)
    <2>1. Good(found) /\ found \in Page /\ task.version = found.version /\ Shown(found)
      BY <1>6, <1>7 DEF Core
    <2> HIDE DEF found
    <2>2. /\ shown \in Page /\ SameWork(found, shown) /\ SameWaiters(found, shown)
          /\ SameNumbers(found, shown) /\ SameFiles(found, shown)
          /\ shown.verdict = found.verdict /\ shown.circuit = task.version
          /\ shown.runs = found.runs
      BY <2>1, <1>1 DEF Page, SameWork, SameWaiters, SameNumbers, SameFiles
    <2> HIDE DEF shown
    <2>3. Core(shown) /\ Pending(shown) = Pending(found)
      BY <2>1, <2>2, Redrawn DEF Shown
    <2> QED BY <2>1, <2>2, <2>3
  <1>8. Good(next)
    <2>1. Good(p)
      OBVIOUS
    <2> HIDE DEF Good, shown, found, o
    <2> QED BY <2>1, <1>5, <1>6, <1>7
  <1> HIDE DEF next
  <1>9. t \in PageTask /\ t.job = task.job /\ t.type = "finally" /\ t.result = task.result
    BY FinallyShape
  <1> HIDE DEF t
  <1>10. /\ Alive(next, t.type, t.job) /\ TrueTask(next, t)
         /\ t.result = "failed" => OfBoard(next, t.job)
    BY <1>2, <1>8, <1>9 DEF Alive, TrueTask, OfBoard
  <1> HIDE DEF z
  <1>11. Core(z) /\ SameWaiters(next, z)
    BY <1>2, <1>8, <1>9, <1>10, TaskKeeps DEF z
  <1>12. z.runs # {}
    BY <1>8, <1>11 DEF SameWaiters
  <1> QED BY <1>3, <1>11, <1>12 DEF Button

LEMMA RunFinallyKeeps ==
  ASSUME NEW p, Core(p), NEW r \in p.runs, <<"run", r.n>> \notin Pending(p)
  PROVE  Core(RunFinally(p, r)) /\ Button(RunFinally(p, r))
  <1> DEFINE q == [p EXCEPT !.runs = @ \ {r}]
             z == IF q.verdict = "none" /\ ~q.timer /\ Busy(q) = {} THEN StartLint(q) ELSE q
  <1>1. /\ q \in Page /\ SameWork(p, q) /\ q.checks = p.checks /\ q.warm = p.warm
        /\ q.runs = p.runs \ {r} /\ SameNumbers(p, q) /\ SameFiles(p, q)
        /\ q.verdict = p.verdict /\ q.circuit = p.circuit
    BY DEF Core, Page, SameWork, SameNumbers, SameFiles
  <1>2. RunFinally(p, r) = GateRun(z)
    BY DEF RunFinally
  <1> HIDE DEF q
  <1>3. Core(q)
    BY <1>1, Ended
  <1>4. Core(z)
    BY <1>3, StartKeeps
  <1> HIDE DEF z
  <1> QED BY <1>2, <1>4, GateKeeps

LEMMA WarmKeeps ==
  ASSUME NEW p, Core(p), Button(p), ~p.warm, NoWarm(Pending(p)), NEW began
  PROVE  Core(Warmed(p, began)) /\ Button(Warmed(p, began))
  <1> DEFINE w == [p EXCEPT !.warm = TRUE]
             q == IF began = 1 THEN Run(w) ELSE w
             z == Warmed(p, began)
  <1>1. /\ w \in Page /\ SameWork(p, w) /\ w.checks = p.checks /\ w.warm = TRUE
        /\ w.runs = p.runs /\ SameNumbers(p, w) /\ SameFiles(p, w)
        /\ w.verdict = p.verdict /\ w.circuit = p.circuit /\ w.disabled = p.disabled
    BY DEF Core, Page, SameWork, SameNumbers, SameFiles
  <1>2. z = IF q.checks["board"].stage = "waits" THEN LintWarmed(q, "board") ELSE q
    BY DEF Warmed
  <1> HIDE DEF w, z
  <1>3. Core(w) /\ Pending(w) = Pending(p) /\ Button(w)
    BY <1>1, Ended DEF Button, HasErrors
  <1>4. /\ Core(q) /\ Button(q) /\ q.checks = w.checks
        /\ \A j \in Pending(q) : j \in Pending(w) \/ j[1] = "run"
    BY <1>3, RunKeeps
  <1> HIDE DEF q
  <1>5. CASE q.checks["board"].stage = "waits"
    <2>1. "board" \in Views
      BY DEF Views
    <2>2. <<"lint", "board">> \notin Pending(p)
      BY <2>1, <1>1, <1>4, <1>5, NothingAsked
    <2>3. <<"lint", "board">> \notin Pending(q)
      BY <2>2, <1>3, <1>4
    <2> QED BY <2>1, <2>3, <1>2, <1>4, <1>5, WarmedKeeps DEF z
  <1>6. CASE q.checks["board"].stage # "waits"
    BY <1>2, <1>4, <1>6 DEF z
  <1> QED BY <1>5, <1>6

LEMMA TheRunIs ==
  ASSUME NEW p, NEW n, \E r \in p.runs : r.n = n
  PROVE  TheRun(p, n) \in p.runs /\ TheRun(p, n).n = n
  BY DEF TheRun

\* One task, taken from the page it was left on.
LEMMA PerformKeeps ==
  ASSUME NEW p, Core(p), Button(p), NEW t \in PageTask, t.job \notin Pending(p),
         Alive(p, t.type, t.job), TrueTask(p, t), t.job[1] = "warm" => NoWarm(Pending(p)),
         t.result = "failed" => OfBoard(p, t.job)
  PROVE  Core(Perform(p, t)) /\ Button(Perform(p, t))
  <1>1. t.job \in Job /\ t.type \in {"answer", "warmed", "finally"} /\ t.result \in Results
    BY DEF PageTask
  <1>2. \/ t.job[1] = "lint" /\ t.job[2] \in Views /\ t.job = <<"lint", t.job[2]>>
        \/ t.job[1] \in {"run", "warm"} /\ t.job[2] \in Nat /\ t.job = <<t.job[1], t.job[2]>>
    BY <1>1, JobShape
  <1>3. CASE t.job[1] = "warm"
    <2>1. t.type = "answer" /\ ~p.warm
      BY <1>3 DEF Alive
    <2>2. Perform(p, t) = Warmed(p, t.job[2])
      BY <1>3, <2>1 DEF Perform
    <2> QED BY <1>3, <2>1, <2>2, WarmKeeps
  <1>4. CASE t.job[1] = "run"
    <2> DEFINE r == TheRun(p, t.job[2])
    <2>1. t.type \in {"answer", "finally"} /\ \E o \in p.runs : o.n = t.job[2]
      BY <1>4 DEF Alive
    <2>2. r \in p.runs /\ r.n = t.job[2]
      BY <2>1, TheRunIs
    <2>3. t.job = <<"run", r.n>>
      BY <1>2, <1>4, <2>2
    <2>4. CASE t.type = "answer"
      <3>1. Perform(p, t) = RunAnswered(p, r, t)
        BY <1>4, <2>4 DEF Perform
      <3> HIDE DEF r
      <3> QED BY <2>2, <2>3, <2>4, <3>1, RunAnsweredKeeps
    <2>5. CASE t.type = "finally"
      <3>1. Perform(p, t) = RunFinally(p, r)
        BY <2>5 DEF Perform
      <3> HIDE DEF r
      <3> QED BY <2>2, <2>3, <3>1, RunFinallyKeeps
    <2> QED BY <2>1, <2>4, <2>5
  <1>5. CASE t.job[1] = "lint"
    <2>1. t.type \in {"answer", "warmed"}
      BY <1>5 DEF Alive
    <2>2. t.job[2] \in Views /\ <<"lint", t.job[2]>> \notin Pending(p)
      BY <1>2, <1>5
    <2>3. CASE t.type = "answer"
      <3> DEFINE verdict == VerdictOf(t.result)
      <3>1. Perform(p, t) = EndLint(p, t.job[2], verdict)
        BY <1>5, <2>3 DEF Perform
      <3>2. /\ t.result \in {"clean", "cancelled"} => verdict = "clean"
            /\ t.result \in {"errors", "failed"} => verdict = t.result
            /\ t.result \in {"crash", "timeout"} => verdict = "unchecked"
        BY DEF VerdictOf
      <3> HIDE DEF verdict
      <3>3. verdict \in Verdicts
        BY <1>1, <3>2 DEF Results, Verdicts
      <3>4. ASSUME p.checks[t.job[2]].gen = p.gen, t.job[2] = p.view PROVE Right(p, verdict)
        <4>1. Current(p, t.job)
          BY <1>5, <3>4 DEF Current
        <4>2. /\ t.result = "clean" => Compiles(p)
              /\ t.result = "errors" => ~Compiles(p)
              /\ t.result # "cancelled"
              /\ t.result = "failed" => p.view = "board"
          BY <4>1, <2>3, <1>5, <3>4 DEF TrueTask, OfBoard
        <4> QED BY <4>2, <3>2, <1>1 DEF Right, Results
      <3> QED BY <2>2, <3>1, <3>3, <3>4, EndKeeps
    <2>4. CASE t.type = "warmed"
      <3>1. Perform(p, t) = LintWarmed(p, t.job[2])
        BY <2>4 DEF Perform
      <3>2. t.job[2] = "board"
        BY <1>5, <2>4 DEF Alive
      <3> QED BY <2>2, <3>1, <3>2, WarmedKeeps
    <2> QED BY <2>1, <2>3, <2>4
  <1> QED BY <1>2, <1>3, <1>4, <1>5

-----------------------------------------------------------------------------
(* The steps of the page *)

LEMMA InitKeeps == Init => PageInv
  <1> SUFFICES ASSUME Init PROVE PageInv
    OBVIOUS
  <1>1. PICK c \in Contents : \E v \in Views :
          LET shown == ScheduleLint(
                [view |-> v, content |-> c, version |-> 1, circuit |-> 0,
                 timer |-> FALSE, gen |-> 0, verdict |-> "none", disabled |-> FALSE,
                 checks |-> [w \in Views |-> [stage |-> "no", gen |-> 0]],
                 runs |-> {}, runGen |-> 1, warm |-> FALSE,
                 asked |-> [e \in Engines |-> <<>>], tasks |-> <<>>])
          IN page = IF v = "board" THEN Ask(shown, "yosys", <<"warm", 1>>)
                    ELSE Ask(Run(shown), "yosys", <<"warm", 0>>)
    BY DEF Init
  <1>2. PICK v \in Views :
          LET shown == ScheduleLint(
                [view |-> v, content |-> c, version |-> 1, circuit |-> 0,
                 timer |-> FALSE, gen |-> 0, verdict |-> "none", disabled |-> FALSE,
                 checks |-> [w \in Views |-> [stage |-> "no", gen |-> 0]],
                 runs |-> {}, runGen |-> 1, warm |-> FALSE,
                 asked |-> [e \in Engines |-> <<>>], tasks |-> <<>>])
          IN page = IF v = "board" THEN Ask(shown, "yosys", <<"warm", 1>>)
                    ELSE Ask(Run(shown), "yosys", <<"warm", 0>>)
    BY <1>1
  <1> DEFINE p0 == [view |-> v, content |-> c, version |-> 1, circuit |-> 0,
                    timer |-> FALSE, gen |-> 0, verdict |-> "none", disabled |-> FALSE,
                    checks |-> [w \in Views |-> [stage |-> "no", gen |-> 0]],
                    runs |-> {}, runGen |-> 1, warm |-> FALSE,
                    asked |-> [e \in Engines |-> <<>>], tasks |-> <<>>]
             shown == ScheduleLint(p0)
  <1>3. page = IF v = "board" THEN Ask(shown, "yosys", <<"warm", 1>>)
               ELSE Ask(Run(shown), "yosys", <<"warm", 0>>)
    BY <1>2
  <1>4. /\ shown \in Page /\ shown.runs = {} /\ shown.verdict = "none" /\ shown.disabled = FALSE
        /\ shown.checks = [w \in Views |-> [stage |-> "no", gen |-> 0]] /\ shown.gen = 1
        /\ shown.circuit = 0 /\ shown.warm = FALSE
        /\ shown.asked["yosys"] = <<>> /\ shown.asked["tb"] = <<>> /\ shown.tasks = <<>>
    <2> DEFINE p1 == [p0 EXCEPT !.gen = @ + 1, !.verdict = "none", !.timer = TRUE]
    <2>1. p0 \in Page
      BY DEF Page, Verdicts
    <2>2. /\ p0.runs = {} /\ p0.gen = 0 /\ p0.circuit = 0 /\ p0.warm = FALSE
          /\ p0.checks = [w \in Views |-> [stage |-> "no", gen |-> 0]]
          /\ p0.asked["yosys"] = <<>> /\ p0.asked["tb"] = <<>> /\ p0.tasks = <<>>
      BY DEF Engines
    <2> HIDE DEF p0
    <2>3. /\ p1 \in Page /\ p1.runs = p0.runs /\ p1.verdict = "none" /\ p1.gen = p0.gen + 1
          /\ p1.checks = p0.checks /\ p1.circuit = p0.circuit /\ p1.warm = p0.warm
          /\ p1.asked = p0.asked /\ p1.tasks = p0.tasks
      <3>1. p0.gen + 1 \in Nat /\ "none" \in Verdicts
        BY <2>2 DEF Verdicts
      <3>2. p1 \in Page
        BY <2>1, <3>1 DEF Page
      <3> QED BY <2>1, <3>2 DEF Page
    <2>4. shown = GateRun(p1)
      BY DEF ScheduleLint
    <2> HIDE DEF p1, shown
    <2>5. /\ shown \in Page /\ shown.runs = p1.runs /\ shown.verdict = p1.verdict
          /\ shown.gen = p1.gen /\ shown.checks = p1.checks /\ shown.circuit = p1.circuit
          /\ shown.warm = p1.warm /\ shown.asked = p1.asked /\ shown.tasks = p1.tasks
          /\ shown.disabled = (InFlight(p1) \/ HasErrors(p1))
      BY <2>3, <2>4 DEF GateRun, HasErrors, Page
    <2>6. shown.disabled = FALSE
      BY <2>2, <2>3, <2>5 DEF InFlight, HasErrors
    <2> QED BY <2>2, <2>3, <2>5, <2>6
  <1> HIDE DEF shown
  <1>5. Range(<<>>) = {} /\ JobsOf(<<>>) = {} /\ OneEach(<<>>) /\ DOMAIN <<>> = {}
    BY Empty
  <1>6. \A e \in Engines : Range(shown.asked[e]) = {}
    BY <1>4, <1>5 DEF Engines
  <1>7. Pending(shown) = {} /\ Apart(shown)
    BY <1>4, <1>5 DEF Pending, Apart
  <1>8. InOrder(shown)
    BY <1>4, <1>5 DEF InOrder
  <1>9. AllAlive(shown) /\ AllTrue(shown) /\ FromYosys(shown)
    BY <1>4, <1>5, <1>6 DEF AllAlive, AllTrue, FromYosys
  <1>10. Numbered(shown) /\ Shown(shown)
    BY <1>4 DEF Numbered, Shown, Right
  <1>11. Core(shown) /\ Button(shown)
    BY <1>4, <1>7, <1>8, <1>9, <1>10 DEF Core, Button, HasErrors
  <1>12. ASSUME NEW p, Core(p), Button(p), ~p.warm, NoWarm(Pending(p)), NEW b \in {0, 1}
         PROVE  Core(Ask(p, "yosys", <<"warm", b>>)) /\ Button(Ask(p, "yosys", <<"warm", b>>))
    <2>1. /\ <<"warm", b>> \in Job /\ <<"warm", b>>[1] = "warm" /\ <<"warm", b>> \notin Pending(p)
          /\ Alive(p, "answer", <<"warm", b>>) /\ "yosys" \in Engines
          /\ OfBoard(p, <<"warm", b>>)
      BY <1>12 DEF Job, NoWarm, Alive, Engines, OfBoard
    <2> DEFINE z == Ask(p, "yosys", <<"warm", b>>)
    <2> HIDE DEF z
    <2>2. /\ Core(z) /\ SameWaiters(p, z)
          /\ z.disabled = p.disabled /\ z.verdict = p.verdict
      BY <1>12, <2>1, AskKeeps DEF z
    <2> QED BY <2>2, <1>12 DEF Button, HasErrors, SameWaiters, z
  <1>13. CASE v = "board"
    BY <1>3, <1>4, <1>7, <1>11, <1>12, <1>13 DEF PageInv, NoWarm
  <1>14. CASE v # "board"
    <2> DEFINE q == Run(shown)
    <2>1. page = Ask(q, "yosys", <<"warm", 0>>)
      BY <1>3, <1>14
    <2> HIDE DEF q
    <2>2. /\ Core(q) /\ Button(q) /\ q.warm = FALSE
          /\ \A j \in Pending(q) : j[1] = "run"
      BY <1>4, <1>7, <1>11, RunKeeps DEF q
    <2>3. NoWarm(Pending(q))
      BY <2>2 DEF NoWarm
    <2> QED BY <2>1, <2>2, <2>3, <1>12 DEF PageInv
  <1> QED BY <1>13, <1>14

LEMMA MicrotaskKeeps ==
  ASSUME PageInv, Microtask
  PROVE  PageInv'
  <1> DEFINE q == [page EXCEPT !.tasks = Tail(@)]
             t == Head(page.tasks)
  <1>1. page' = Perform(q, t) /\ page.tasks # <<>> /\ Core(page) /\ Button(page)
    BY DEF Microtask, PageInv
  <1>2. /\ Core(q) /\ t \in PageTask /\ t.job \notin Pending(q)
        /\ Alive(q, t.type, t.job) /\ TrueTask(q, t)
        /\ t.result = "failed" => OfBoard(q, t.job)
        /\ t.job[1] = "warm" => NoWarm(Pending(q))
    BY <1>1, Taken
  <1>3. q.runs = page.runs /\ q.disabled = page.disabled /\ q.verdict = page.verdict
    BY <1>1 DEF Core, Page
  <1> HIDE DEF q, t
  <1>4. Button(q)
    BY <1>1, <1>3 DEF Button, HasErrors
  <1>5. Core(Perform(q, t)) /\ Button(Perform(q, t))
    BY <1>2, <1>4, PerformKeeps
  <1> QED BY <1>1, <1>5 DEF PageInv

LEMMA TimerKeeps ==
  ASSUME PageInv, Timer
  PROVE  PageInv'
  <1>1. Core(StartLint(page)) /\ Button(StartLint(page))
    BY StartKeeps DEF PageInv
  <1> QED BY <1>1 DEF Timer, PageInv

\* What a worker may say of a request is what the request's sources said, and
\* a run is cancelled only when a newer one is queued behind it.
LEMMA ReplyKeeps ==
  ASSUME PageInv, NEW engine \in Engines, Reply(engine)
  PROVE  PageInv'
  <1>1. Core(page) /\ Button(page) /\ page \in Page
    BY DEF PageInv, Core
  <1>2. PICK i \in Served(engine) : \E result \in Answers(engine, i) :
               page' = Settle(page, engine, i, result)
    BY DEF Reply
  <1>3. PICK result \in Answers(engine, i) : page' = Settle(page, engine, i, result)
    BY <1>2
  <1> DEFINE s == page.asked[engine]
             x == s[i]
  <1>4. i \in DOMAIN s /\ (engine = "yosys" => i = 1)
    BY DEF Served
  <1>5. s \in Seq(Request) /\ x \in Request /\ x \in Range(s)
    BY <1>1, <1>4, Queues, InRange
  <1>6. \/ result = IF x.truth = "ok" THEN "clean" ELSE "errors"
        \/ result = "crash"
        \/ result = "failed" /\ engine = "yosys"
        \/ result = "cancelled" /\ engine = "yosys" /\ Overtaken(s)
    BY DEF Answers
  <1>7. Fits(x, result)
    BY <1>6 DEF Fits, Results
  <1>8. ASSUME result = "cancelled" PROVE ~Current(page, x.job)
    <2>1. engine = "yosys" /\ Overtaken(s) /\ i = 1
      BY <1>4, <1>6, <1>8
    <2>2. x.job[1] = "run" /\ \E j \in 2..Len(s) : s[j].job[1] = "run"
      BY <2>1 DEF Overtaken
    <2>3. PICK j \in 2..Len(s) : s[j].job[1] = "run"
      BY <2>2
    <2>4. /\ DOMAIN s = 1..Len(s) /\ Len(s) \in Nat /\ j \in DOMAIN s /\ 1 < j
          /\ s[j] \in Range(s) /\ s[j] \in Request
      <3>1. DOMAIN s = 1..Len(s) /\ Len(s) \in Nat
        BY <1>5, InRange
      <3>2. j \in DOMAIN s /\ 1 < j
        BY <3>1
      <3> QED BY <3>1, <3>2, <1>5, InRange
    <2>5. x.job[2] < s[j].job[2]
      BY <2>1, <2>2, <2>3, <2>4, <1>1, <1>4 DEF InOrder, Core
    <2>6. Alive(page, "answer", s[j].job)
      BY <2>4, <1>1 DEF AllAlive, Core
    <2>7. PICK r \in page.runs : r.n = s[j].job[2]
      BY <2>3, <2>6 DEF Alive
    <2>8. r.n <= page.runGen /\ r.n \in Nat /\ page.runGen \in Nat
      BY <1>1, PageFields DEF Core, Numbered
    <2>9. x.job \in Job /\ x.job[2] \in Nat
      <3>1. x.job \in Job
        BY <1>5 DEF Request
      <3> QED BY <3>1, <2>2, JobShape
    <2>10. x.job[2] # page.runGen
      BY <2>5, <2>7, <2>8, <2>9
    <2> QED BY <2>2, <2>10 DEF Current
  <1>9. Core(page')
    BY <1>1, <1>3, <1>4, <1>6, <1>7, <1>8, SettleKeeps
  <1>10. /\ page'.runs = page.runs /\ page'.disabled = page.disabled
         /\ page'.verdict = page.verdict
    BY <1>1, <1>3 DEF Settle, AddTasks, Page
  <1>11. Button(page')
    BY <1>1, <1>10 DEF Button, HasErrors
  <1> QED BY <1>9, <1>11 DEF PageInv

LEMMA TimeOutKeeps ==
  ASSUME PageInv, NEW engine \in Engines, TimeOut(engine)
  PROVE  PageInv'
  <1>1. Core(page) /\ Button(page) /\ page \in Page /\ page.tasks = <<>>
    BY DEF PageInv, Core, TimeOut, AtRest
  <1>2. PICK i \in DOMAIN page.asked[engine] : page' = Expire(page, engine, i)
    BY DEF TimeOut
  <1>3. Core(page')
    BY <1>1, <1>2, ExpireKeeps
  <1>4. /\ page'.runs = page.runs /\ page'.disabled = page.disabled
        /\ page'.verdict = page.verdict
    BY <1>1, <1>2 DEF Expire, AddTasks, Page
  <1>5. Button(page')
    BY <1>1, <1>4 DEF Button, HasErrors
  <1> QED BY <1>3, <1>5 DEF PageInv

\* Other sources, or another view: the page moves on, and nothing is known yet.
LEMMA ChangeKeeps ==
  ASSUME Core(page), NEW q \in Page, SameWork(page, q), q.checks = page.checks,
         q.warm = page.warm, q.runs = page.runs, q.gen = page.gen,
         q.runGen = page.runGen + 1, q.circuit \in {0, q.version}
  PROVE  Core(ScheduleLint(q)) /\ Button(ScheduleLint(q))
  <1> DEFINE z == [q EXCEPT !.gen = @ + 1, !.verdict = "none", !.timer = TRUE]
  <1>1. /\ z \in Page /\ SameWork(q, z) /\ z.checks = q.checks /\ z.warm = q.warm
        /\ z.runs = q.runs /\ z.runGen = q.runGen
        /\ z.gen = q.gen + 1 /\ z.verdict = "none" /\ z.circuit = q.circuit /\ z.version = q.version
    <2>1. q.gen + 1 \in Nat /\ "none" \in Verdicts
      BY PageFields DEF Verdicts
    <2>2. z \in Page
      BY <2>1 DEF Page
    <2>3. /\ z.asked = q.asked /\ z.tasks = q.tasks /\ z.checks = q.checks /\ z.warm = q.warm
          /\ z.runs = q.runs /\ z.runGen = q.runGen
          /\ z.gen = q.gen + 1 /\ z.verdict = "none" /\ z.circuit = q.circuit /\ z.version = q.version
      BY DEF Page
    <2> QED BY <2>2, <2>3 DEF SameWork
  <1>2. ScheduleLint(q) = GateRun(z)
    BY DEF ScheduleLint
  <1> HIDE DEF z
  <1>3. Core(z)
    BY <1>1, TurnedOver DEF SameWork
  <1> QED BY <1>2, <1>3, GateKeeps

LEMMA EditKeeps ==
  ASSUME PageInv, NEW c \in Contents, Edit(c) \/ Open(c)
  PROVE  PageInv'
  <1> DEFINE q == [InvalidateRun(page) EXCEPT !.content = c, !.version = @ + 1]
  <1>1. Core(page) /\ page \in Page
    BY DEF PageInv, Core
  <1>2. /\ q \in Page /\ SameWork(page, q) /\ q.checks = page.checks
        /\ q.warm = page.warm /\ q.runs = page.runs /\ q.gen = page.gen
        /\ q.runGen = page.runGen + 1 /\ q.circuit \in {0, q.version}
    <2> DEFINE i == [[page EXCEPT !.circuit = 0] EXCEPT !.runGen = @ + 1, !.disabled = FALSE]
    <2>1. page.runGen + 1 \in Nat /\ page.version + 1 \in Nat
      BY <1>1, PageFields
    <2>2. /\ i \in Page /\ i.asked = page.asked /\ i.tasks = page.tasks /\ i.checks = page.checks
          /\ i.warm = page.warm /\ i.runs = page.runs /\ i.gen = page.gen
          /\ i.runGen = page.runGen + 1 /\ i.circuit = 0 /\ i.version = page.version
      BY <1>1, <2>1 DEF Page
    <2>3. q = [i EXCEPT !.content = c, !.version = @ + 1]
      BY DEF InvalidateRun, ResetBoard
    <2> HIDE DEF i, q
    <2>4. /\ q \in Page /\ q.asked = i.asked /\ q.tasks = i.tasks /\ q.checks = i.checks
          /\ q.warm = i.warm /\ q.runs = i.runs /\ q.gen = i.gen
          /\ q.runGen = i.runGen /\ q.circuit = i.circuit
      BY <2>1, <2>2, <2>3 DEF Page
    <2> QED BY <2>2, <2>4 DEF SameWork
  <1>3. page' = ScheduleLint(q) \/ page' = Run(ScheduleLint(q))
    BY DEF Edit, Open, Does
  <1> HIDE DEF q
  <1>4. Core(ScheduleLint(q)) /\ Button(ScheduleLint(q))
    BY <1>1, <1>2, ChangeKeeps
  <1>5. Core(Run(ScheduleLint(q))) /\ Button(Run(ScheduleLint(q)))
    BY <1>4, RunKeeps
  <1> QED BY <1>3, <1>4, <1>5 DEF PageInv

LEMMA SetViewKeeps ==
  ASSUME PageInv, NEW v \in Views, SetView(v)
  PROVE  PageInv'
  <1> DEFINE q == [page EXCEPT !.runGen = @ + 1, !.disabled = FALSE, !.view = v]
  <1>1. Core(page) /\ page \in Page /\ page.circuit \in {0, page.version}
    BY DEF PageInv, Core, Shown
  <1>2. /\ q \in Page /\ SameWork(page, q) /\ q.checks = page.checks
        /\ q.warm = page.warm /\ q.runs = page.runs /\ q.gen = page.gen
        /\ q.runGen = page.runGen + 1 /\ q.circuit \in {0, q.version}
    <2>1. page.runGen + 1 \in Nat
      BY <1>1, PageFields
    <2>2. q \in Page
      BY <1>1, <2>1 DEF Page
    <2>3. /\ q.asked = page.asked /\ q.tasks = page.tasks /\ q.checks = page.checks
          /\ q.warm = page.warm /\ q.runs = page.runs /\ q.gen = page.gen
          /\ q.runGen = page.runGen + 1 /\ q.circuit = page.circuit /\ q.version = page.version
      BY <1>1 DEF Page
    <2> QED BY <1>1, <2>2, <2>3 DEF SameWork
  <1>3. page' = Run(ScheduleLint(q))
    BY DEF SetView, Does
  <1> HIDE DEF q
  <1>4. Core(ScheduleLint(q))
    BY <1>1, <1>2, ChangeKeeps
  <1>5. Core(Run(ScheduleLint(q))) /\ Button(Run(ScheduleLint(q)))
    BY <1>4, RunKeeps
  <1> QED BY <1>3, <1>5 DEF PageInv

LEMMA PressRunKeeps ==
  ASSUME PageInv, PressRun
  PROVE  PageInv'
  <1>1. Core(Run(page)) /\ Button(Run(page))
    BY RunKeeps DEF PageInv
  <1> QED BY <1>1 DEF PressRun, Does, PageInv

LEMMA PageInvHolds == Spec => []PageInv
  <1>1. Init => PageInv
    BY InitKeeps
  <1>2. PageInv /\ [Next]_vars => PageInv'
    <2> SUFFICES ASSUME PageInv, [Next]_vars PROVE PageInv'
      OBVIOUS
    <2>1. CASE Microtask
      BY <2>1, MicrotaskKeeps
    <2>2. CASE Timer
      BY <2>2, TimerKeeps
    <2>3. CASE \E e \in Engines : Reply(e) \/ TimeOut(e)
      BY <2>3, ReplyKeeps, TimeOutKeeps
    <2>4. CASE \E c \in Contents : Edit(c) \/ Open(c)
      BY <2>4, EditKeeps
    <2>5. CASE \E v \in Views : SetView(v)
      BY <2>5, SetViewKeeps
    <2>6. CASE PressRun
      BY <2>6, PressRunKeeps
    <2>7. CASE UNCHANGED vars
      BY <2>7 DEF vars, PageInv
    <2> QED BY <2>1, <2>2, <2>3, <2>4, <2>5, <2>6, <2>7 DEF Next, Loop
  <1> QED BY <1>1, <1>2, PTL DEF Spec

-----------------------------------------------------------------------------
(* Theorems *)

(* The page record is well typed: every request and every task is one that  *)
(* main.js can have made.                                                  *)
THEOREM PageTypeCorrect == Spec => []PageTypeOK
  <1>1. PageInv => PageTypeOK
    BY DEF PageInv, Core, PageTypeOK
  <1> QED BY <1>1, PageInvHolds, PTL

(* However late an answer comes, the verdict in the panel and the circuit on *)
(* the board are about the sources and the view on the page.               *)
THEOREM VerdictIsTrueHolds == Spec => []VerdictIsTrue
  <1>1. PageInv => VerdictIsTrue
    BY DEF PageInv, Core, Shown, Right, VerdictIsTrue, CircuitIsCurrent
  <1> QED BY <1>1, PageInvHolds, PTL

(* The run button is closed exactly by errors when no run is in flight: no   *)
(* abandoned run leaves it closed.                                         *)
THEOREM ButtonTellsTheTruthHolds == Spec => []ButtonTellsTheTruth
  <1>1. PageInv => ButtonTellsTheTruth
    BY DEF PageInv, Button, ButtonTellsTheTruth
  <1> QED BY <1>1, PageInvHolds, PTL

(* No request waits for a worker that was replaced.                        *)
THEOREM NobodyWaitsInVainHolds == Spec => []NobodyWaitsInVain
  <1>1. PageInv => NobodyWaitsInVain
    BY Queues, InRange DEF PageInv, Core, AllAlive, NobodyWaitsInVain
  <1> QED BY <1>1, PageInvHolds, PTL
=============================================================================
