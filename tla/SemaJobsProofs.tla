---------------------------- MODULE SemaJobsProofs ----------------------------
(***************************************************************************)
(* The job system never analyses a unit twice, never tells two answers     *)
(* about a declaration, and compile() returns after all the work is done,  *)
(* with an object only if the object is complete: for any program, any     *)
(* number of workers and any order of their steps.                         *)
(***************************************************************************)
EXTENDS SemaJobs, SequenceTheorems, TLAPS

TypeOK ==
  /\ prog \in Programs
  /\ stack \in [Workers -> Seq(Units)]
  /\ pos \in [Units -> Nat]
  /\ queue \in [Workers -> Seq(Jobs)]
  /\ jobs \in [Decls \cup Funcs -> {"absent", "queued", "done"}]
  /\ clones \subseteq Jobs
  /\ dstate \in [Decls -> {"unanalysed"} \cup Terminal]
  /\ mstate \in [Modules -> {"pending", "in_progress", "done"}]
  /\ errors \in BOOLEAN
  /\ tasks \in Seq(Funcs)
  /\ lowered \subseteq Funcs

(* Where units are: F is the stacks or the queues of all workers. *)
In(F, u) == \E w \in Workers : \E i \in 1 .. Len(F[w]) : F[w][i] = u
Alone(F) ==
  \A v, w \in Workers : \A i \in 1 .. Len(F[v]), j \in 1 .. Len(F[w]) :
    F[v][i] = F[w][j] => v = w /\ i = j

(* compile() is below everything on Main's stack, and a closure is below   *)
(* everything that another worker runs.                                    *)
Bottoms(S) ==
  /\ S[Main] # <<>> /\ S[Main][1] = Compile
  /\ \A w \in Workers \ {Main} : S[w] # <<>> => S[w][1] \in Jobs

(* A closure with a clone of the Arc is in one place, a module that is     *)
(* being analysed on one stack.                                            *)
Placed(S, Q, C, M) ==
  /\ Alone(S) /\ Alone(Q)
  /\ \A u \in Jobs : ~(In(S, u) /\ In(Q, u))
  /\ \A u \in Jobs : u \in C <=> In(S, u) \/ In(Q, u)
  /\ \A m \in Modules : M[m] = "in_progress" <=> In(S, m)
  /\ Bottoms(S)

(* sema_jobs tells which closures are alive. *)
Counted == \A u \in Decls \cup Funcs : jobs[u] = "queued" <=> u \in clones

(* The i-th request of u is behind u. *)
Passed(u, i) == pos[u] = Over \/ i < pos[u]

(* A starting closure was spawned by a request that is not made again. *)
SpawnPassed ==
  \A t \in Tasks \cap clones : \A u \in Units : \A i \in 1 .. Len(prog.body[u]) :
    prog.body[u][i] = Starting(t) => Passed(u, i)

(* Nothing is known of a declaration whose job has not started, and the    *)
(* outcome comes with the end of its analysis.                             *)
OutcomeOnce ==
  \A d \in Decls :
    /\ jobs[d] = "absent" \/ In(queue, d) => dstate[d] = "unanalysed"
    /\ dstate[d] \in Terminal => pos[d] = Over

(* Once compile() has seen a strong count of 1, no work is left. *)
Quiet == {"empty", "finish", "returned"}
LoopOK ==
  /\ mainpc \in Quiet => clones = {} /\ stack[Main] = <<Compile>> /\ pos[Compile] = Over
  /\ mainpc \in {"finish", "returned"} => tasks = <<>>
  /\ result # "none" => mainpc = "returned"

IInv ==
  /\ TypeOK
  /\ Placed(stack, queue, clones, mstate)
  /\ Counted
  /\ SpawnPassed
  /\ OutcomeOnce
  /\ LoopOK

(* A program without errors: nothing was reported, and nothing fails       *)
(* without a report.                                                       *)
NoSilentFailure == \A u \in Units : prog.verdict[u] # "silent"
Clean == ~errors /\ prog.parsed = Modules /\ NoSilentFailure

(* What a unit may rely on once a request is behind it. *)
Answered(r) ==
  CASE r.kind = "decl"   -> dstate[r.unit] = "analysed"
    [] r.kind = "module" -> mstate[r.unit] = "done"
    [] r.kind = "fn"     -> jobs[r.unit] # "absent"
    [] OTHER             -> r.unit \in clones \/ pos[r.unit] = Over

(* The code generator has f, or will. *)
HandedOver(f) == f \in lowered \/ \E k \in 1 .. Len(tasks) : tasks[k] = f

NoneFailed == Clean => \A d \in Decls : dstate[d] # "failed"
PassedAnswered ==
  Clean => \A u \in Units : \A i \in 1 .. Len(prog.body[u]) :
             Passed(u, i) => Answered(prog.body[u][i])
EndedHandedOver == Clean => \A f \in Funcs : pos[f] = Over => HandedOver(f)
Ended ==
  /\ \A f \in Funcs : HandedOver(f) => pos[f] = Over
  /\ \A u \in Decls \cup Funcs : jobs[u] = "done" => pos[u] = Over
  /\ \A m \in Modules : mstate[m] = "done" => pos[m] = Over
ObjectClean == result = "object" /\ NoSilentFailure => Clean

CleanInv ==
  /\ NoneFailed
  /\ PassedAnswered
  /\ EndedHandedOver
  /\ Ended
  /\ ObjectClean
-------------------------------------------------------------------------------
(* The kinds of units do not overlap. *)
LEMMA Apart ==
  /\ Decls \cap Funcs = {} /\ Decls \cap Tasks = {} /\ Funcs \cap Tasks = {}
  /\ Jobs \cap Modules = {} /\ Compile \notin Jobs /\ Compile \notin Modules
  /\ RtTask # MainTask /\ Jobs \subseteq Units /\ Modules \subseteq Units /\ Compile \in Units
<1>1. RtTask # MainTask /\ RtTask # Compile /\ MainTask # Compile
  BY DEF RtTask, MainTask, Compile
<1>. QED
  BY JobsAssumption, <1>1 DEF Jobs, Units, Tasks

(* N is M with v for module m. *)
Becomes(M, m, v, N) == N[m] = v /\ \A n \in Modules : n # m => N[n] = M[n]

(* What Alone says of two places. *)
LEMMA OnePlace ==
  ASSUME NEW F, Alone(F), NEW v \in Workers, NEW y \in Workers,
         NEW i \in 1 .. Len(F[v]), NEW j \in 1 .. Len(F[y]), F[v][i] = F[y][j]
  PROVE  v = y /\ i = j
BY DEF Alone

(* G is F with s for worker w. *)
Put(F, w, s, G) == G = [F EXCEPT ![w] = s]

(* A unit put at the end of one worker's sequence. *)
LEMMA Pushed ==
  ASSUME NEW U, NEW F \in [Workers -> Seq(U)], NEW w \in Workers, NEW u \in U,
         NEW G, Put(F, w, Append(F[w], u), G)
  PROVE  /\ G \in [Workers -> Seq(U)]
         /\ Len(F[w]) \in Nat /\ Len(G[w]) = Len(F[w]) + 1 /\ G[w][Len(F[w]) + 1] = u
         /\ \A i \in 1 .. Len(F[w]) : G[w][i] = F[w][i]
         /\ \A v \in Workers : v # w => G[v] = F[v]
         /\ In(G, u)
         /\ \A x : x # u => (In(G, x) <=> In(F, x))
         /\ Alone(F) /\ ~In(F, u) => Alone(G)
<1>1. F[w] \in Seq(U) /\ G[w] = Append(F[w], u) /\ \A v \in Workers : v # w => G[v] = F[v]
  BY DEF Put
<1>2. /\ Len(F[w]) \in Nat /\ Append(F[w], u) \in Seq(U)
      /\ Len(G[w]) = Len(F[w]) + 1 /\ G[w][Len(F[w]) + 1] = u
      /\ \A i \in 1 .. Len(F[w]) : G[w][i] = F[w][i]
  BY <1>1, AppendProperties, LenProperties
<1>3. G \in [Workers -> Seq(U)]
  BY <1>2 DEF Put
<1>4. In(G, u)
  BY <1>2 DEF In
<1>5. ASSUME NEW x, x # u PROVE In(G, x) <=> In(F, x)
  <2>1. ASSUME NEW v \in Workers, NEW i \in 1 .. Len(F[v]), F[v][i] = x
        PROVE  In(G, x)
    <3>1. CASE v = w
      BY <1>2, <2>1, <3>1 DEF In
    <3>2. CASE v # w
      BY <1>1, <2>1, <3>2 DEF In
    <3>. QED  BY <3>1, <3>2
  <2>2. ASSUME NEW v \in Workers, NEW i \in 1 .. Len(G[v]), G[v][i] = x
        PROVE  In(F, x)
    <3>1. CASE v = w
      <4>1. i \in 1 .. Len(F[w])
        BY <1>2, <1>5, <2>2, <3>1
      <4>. QED  BY <1>2, <2>2, <3>1, <4>1 DEF In
    <3>2. CASE v # w
      BY <1>1, <2>2, <3>2 DEF In
    <3>. QED  BY <3>1, <3>2
  <2>. QED  BY <2>1, <2>2 DEF In
<1>6. ASSUME Alone(F), ~In(F, u) PROVE Alone(G)
  <2>. SUFFICES ASSUME NEW v \in Workers, NEW y \in Workers,
                       NEW i \in 1 .. Len(G[v]), NEW j \in 1 .. Len(G[y]), G[v][i] = G[y][j]
                PROVE  v = y /\ i = j
    BY DEF Alone
  <2>1. \A z \in Workers : \A k \in 1 .. Len(G[z]) :
          \/ z = w /\ k = Len(F[w]) + 1 /\ G[z][k] = u
          \/ k \in 1 .. Len(F[z]) /\ G[z][k] = F[z][k] /\ F[z][k] # u
    <3>. SUFFICES ASSUME NEW z \in Workers, NEW k \in 1 .. Len(G[z])
                  PROVE  \/ z = w /\ k = Len(F[w]) + 1 /\ G[z][k] = u
                         \/ k \in 1 .. Len(F[z]) /\ G[z][k] = F[z][k] /\ F[z][k] # u
      OBVIOUS
    <3>1. CASE z = w
      BY <1>2, <1>6, <3>1 DEF In
    <3>2. CASE z # w
      BY <1>1, <1>6, <3>2 DEF In
    <3>. QED  BY <3>1, <3>2
  <2>2. CASE G[v][i] = u
    <3>1. v = w /\ i = Len(F[w]) + 1
      BY <2>1, <2>2
    <3>2. y = w /\ j = Len(F[w]) + 1
      BY <2>1, <2>2, ZenonT(60)
    <3>. QED  BY <3>1, <3>2
  <2>3. CASE G[v][i] # u
    <3>1. i \in 1 .. Len(F[v]) /\ j \in 1 .. Len(F[y]) /\ F[v][i] = F[y][j]
      BY <2>1, <2>3
    <3>. QED  BY <1>6, <3>1, OnePlace, SMTT(60)
  <2>. QED  BY <2>2, <2>3
<1>. QED
  BY <1>1, <1>2, <1>3, <1>4, <1>5, <1>6

(* The sequence s cut at an end: r is what is left of it without t, and    *)
(* its k-th element was the (k + c)-th.                                    *)
Cut(s, r, t) ==
  \E c \in {0, 1} : \E n \in 1 .. Len(s) :
    /\ (c = 0 /\ n = Len(s)) \/ (c = 1 /\ n = 1)
    /\ Len(s) \in Nat /\ Len(r) = Len(s) - 1
    /\ \A i \in 1 .. Len(r) : r[i] = s[i + c]
    /\ t = s[n]

(* One worker's sequence is cut. *)
LEMMA Shortened ==
  ASSUME NEW U, NEW F \in [Workers -> Seq(U)], NEW w \in Workers, NEW r \in Seq(U),
         NEW G, Put(F, w, r, G), NEW t, Cut(F[w], r, t), Alone(F)
  PROVE  /\ G \in [Workers -> Seq(U)]
         /\ In(F, t) /\ ~In(G, t)
         /\ \A x : x # t => (In(G, x) <=> In(F, x))
         /\ Alone(G)
<1>1. /\ G \in [Workers -> Seq(U)]
      /\ G[w] = r /\ \A v \in Workers : v # w => G[v] = F[v]
  BY DEF Put
<1>2. PICK c \in {0, 1}, n \in 1 .. Len(F[w]) :
        /\ (c = 0 /\ n = Len(F[w])) \/ (c = 1 /\ n = 1)
        /\ Len(F[w]) \in Nat /\ Len(r) = Len(F[w]) - 1
        /\ \A i \in 1 .. Len(r) : r[i] = F[w][i + c]
        /\ t = F[w][n]
  BY DEF Cut
<1>3. In(F, t)
  BY <1>2 DEF In
<1>4. ASSUME NEW v \in Workers, NEW i \in 1 .. Len(G[v])
      PROVE  \E j \in 1 .. Len(F[v]) : /\ G[v][i] = F[v][j]
                                       /\ v = w => j = i + c /\ j # n
                                       /\ v # w => j = i
  <2>1. CASE v = w
    <3>1. i + c \in 1 .. Len(F[w]) /\ i + c # n /\ G[w][i] = F[w][i + c]
      BY <1>1, <1>2, <2>1
    <3>. QED  BY <2>1, <3>1
  <2>2. CASE v # w
    BY <1>1, <2>2
  <2>. QED  BY <2>1, <2>2
<1>5. ~In(G, t)
  <2>. SUFFICES ASSUME NEW v \in Workers, NEW i \in 1 .. Len(G[v]), G[v][i] = t PROVE FALSE
    BY DEF In
  <2>1. PICK j \in 1 .. Len(F[v]) : F[v][j] = t /\ (v = w => j # n)
    BY <1>4
  <2>2. F[v][j] = F[w][n]
    BY <1>2, <2>1
  <2>3. v = w /\ j = n
    BY <2>2, OnePlace
  <2>. QED  BY <2>1, <2>3
<1>6. ASSUME NEW x, x # t PROVE In(G, x) <=> In(F, x)
  <2>1. In(G, x) => In(F, x)
    BY <1>4 DEF In
  <2>2. ASSUME NEW v \in Workers, NEW j \in 1 .. Len(F[v]), F[v][j] = x
        PROVE  In(G, x)
    <3>1. CASE v = w
      <4>1. j # n /\ j - c \in 1 .. Len(r) /\ (j - c) + c = j
        BY <1>2, <1>6, <2>2, <3>1
      <4>2. r[j - c] = x
        BY <1>2, <2>2, <3>1, <4>1
      <4>. QED  BY <1>1, <4>1, <4>2 DEF In
    <3>2. CASE v # w
      BY <1>1, <2>2, <3>2 DEF In
    <3>. QED  BY <3>1, <3>2
  <2>. QED  BY <2>1, <2>2 DEF In
<1>7. Alone(G)
  <2>. SUFFICES ASSUME NEW v \in Workers, NEW y \in Workers,
                       NEW i \in 1 .. Len(G[v]), NEW j \in 1 .. Len(G[y]), G[v][i] = G[y][j]
                PROVE  v = y /\ i = j
    BY DEF Alone
  <2>1. PICK k \in 1 .. Len(F[v]) : /\ G[v][i] = F[v][k]
                                    /\ v = w => k = i + c
                                    /\ v # w => k = i
    BY <1>4
  <2>2. PICK l \in 1 .. Len(F[y]) : /\ G[y][j] = F[y][l]
                                    /\ y = w => l = j + c
                                    /\ y # w => l = j
    BY <1>4
  <2>3. v = y /\ k = l
    <3>1. F[v][k] = F[y][l]
      BY <2>1, <2>2
    <3>. QED  BY <3>1, OnePlace
  <2>4. i \in Int /\ j \in Int
    <3>1. Len(G[v]) \in Nat /\ Len(G[y]) \in Nat
      BY LenProperties, SMTT(60)
    <3>. QED  BY <3>1
  <2>. QED  BY <2>1, <2>2, <2>3, <2>4
<1>. QED
  BY <1>1, <1>3, <1>5, <1>6, <1>7

(* The first n elements of a sequence. *)
LEMMA Prefix ==
  ASSUME NEW S, NEW s \in Seq(S), NEW n \in Nat, n <= Len(s)
  PROVE  /\ SubSeq(s, 1, n) \in Seq(S)
         /\ Len(SubSeq(s, 1, n)) = n
         /\ \A i \in 1 .. n : SubSeq(s, 1, n)[i] = s[i]
<1>1. SubSeq(s, 1, n) \in Seq(S)
  OBVIOUS
<1>2. Len(SubSeq(s, 1, n)) = n
  OBVIOUS
<1>3. ASSUME NEW i \in 1 .. n PROVE SubSeq(s, 1, n)[i] = s[i]
  OBVIOUS
<1>. QED
  BY <1>1, <1>2, <1>3

(* The unit on top of a stack leaves it. *)
LEMMA Popped ==
  ASSUME NEW U, NEW F \in [Workers -> Seq(U)], NEW w \in Workers, F[w] # <<>>,
         NEW G, Put(F, w, SubSeq(F[w], 1, Len(F[w]) - 1), G), Alone(F)
  PROVE  /\ G \in [Workers -> Seq(U)]
         /\ Len(F[w]) \in Nat /\ Len(F[w]) >= 1 /\ Len(G[w]) = Len(F[w]) - 1
         /\ \A i \in 1 .. Len(F[w]) - 1 : G[w][i] = F[w][i]
         /\ \A v \in Workers : v # w => G[v] = F[v]
         /\ In(F, F[w][Len(F[w])]) /\ ~In(G, F[w][Len(F[w])])
         /\ \A x : x # F[w][Len(F[w])] => (In(G, x) <=> In(F, x))
         /\ Alone(G)
<1>. DEFINE s == F[w]
            r == SubSeq(s, 1, Len(s) - 1)
<1>1. s \in Seq(U) /\ s # <<>> /\ Put(F, w, r, G)
  OBVIOUS
<1>. HIDE DEF s
<1>2. Len(s) \in Nat /\ Len(s) >= 1 /\ Len(s) - 1 \in Nat /\ Len(s) - 1 <= Len(s)
  BY <1>1, LenProperties, EmptySeq
<1>3. r \in Seq(U)
  BY <1>1, <1>2, Prefix
<1>4. Len(r) = Len(s) - 1
  BY <1>1, <1>2, Prefix
<1>5. \A i \in 1 .. Len(s) - 1 : r[i] = s[i]
  BY <1>1, <1>2, Prefix
<1>. HIDE DEF r
<1>6. Cut(s, r, s[Len(s)])
  <2>1. PICK c \in {0, 1}, n \in 1 .. Len(s) : c = 0 /\ n = Len(s)
    BY <1>2
  <2>2. \A i \in 1 .. Len(r) : r[i] = s[i + c]
    BY <1>2, <1>4, <1>5, <2>1
  <2>3. s[n] = s[Len(s)]
    BY <2>1
  <2>. QED  BY <1>2, <1>4, <2>1, <2>2, <2>3 DEF Cut
<1>. DEFINE t == s[Len(s)]
<1>. HIDE DEF t
<1>7. /\ G \in [Workers -> Seq(U)]
      /\ In(F, s[Len(s)]) /\ ~In(G, s[Len(s)])
      /\ \A x : x # s[Len(s)] => (In(G, x) <=> In(F, x))
      /\ Alone(G)
  <2>1. Cut(F[w], r, t)
    BY <1>6 DEF s, t
  <2>2. G \in [Workers -> Seq(U)] /\ In(F, t) /\ ~In(G, t) /\ Alone(G)
        /\ \A x : x # t => (In(G, x) <=> In(F, x))
    BY <1>1, <1>3, <2>1, Shortened
  <2>. QED  BY <2>2 DEF t
<1>8. G[w] = r /\ \A v \in Workers : v # w => G[v] = F[v]
  BY <1>1 DEF Put
<1>. QED
  BY <1>2, <1>4, <1>5, <1>7, <1>8 DEF s

(* The oldest closure leaves a queue. *)
LEMMA Headed ==
  ASSUME NEW U, NEW F \in [Workers -> Seq(U)], NEW w \in Workers, F[w] # <<>>,
         NEW G, Put(F, w, Tail(F[w]), G), Alone(F)
  PROVE  /\ G \in [Workers -> Seq(U)] /\ Head(F[w]) \in U
         /\ In(F, Head(F[w])) /\ ~In(G, Head(F[w]))
         /\ \A x : x # Head(F[w]) => (In(G, x) <=> In(F, x))
         /\ Alone(G)
<1>. DEFINE s == F[w]
            r == Tail(s)
<1>1. s \in Seq(U) /\ s # <<>> /\ Put(F, w, r, G)
  OBVIOUS
<1>. HIDE DEF s
<1>2. Len(s) \in Nat /\ Len(s) >= 1
  BY <1>1, LenProperties, EmptySeq
<1>3. /\ r \in Seq(U) /\ Len(r) = Len(s) - 1 /\ \A i \in 1 .. Len(r) : r[i] = s[i + 1]
      /\ Head(s) = s[1] /\ Head(s) \in U
  BY <1>1, <1>2, HeadTailProperties
<1>. HIDE DEF r
<1>4. Cut(s, r, Head(s))
  BY <1>2, <1>3 DEF Cut
<1>. QED
  BY <1>1, <1>3, <1>4, Shortened DEF s
-------------------------------------------------------------------------------
(* The moves of a unit keep everything in its place. *)

(* A closure that is not alive is spawned. *)
LEMMA PlacedSpawn ==
  ASSUME NEW S \in [Workers -> Seq(Units)], NEW Q \in [Workers -> Seq(Jobs)],
         NEW C \in SUBSET Jobs, NEW M, Placed(S, Q, C, M),
         NEW w \in Workers, NEW u \in Jobs, u \notin C,
         NEW R, Put(Q, w, Append(Q[w], u), R)
  PROVE  Placed(S, R, C \cup {u}, M) /\ R \in [Workers -> Seq(Jobs)]
<1>1. ~In(S, u) /\ ~In(Q, u)
  BY DEF Placed
<1>2. R \in [Workers -> Seq(Jobs)] /\ In(R, u) /\ \A x : x # u => (In(R, x) <=> In(Q, x))
  BY Pushed
<1>3. Alone(R)
  BY <1>1, Pushed DEF Placed
<1>. QED
  BY <1>1, <1>2, <1>3 DEF Placed

(* A queued closure starts on a stack. *)
LEMMA PlacedTake ==
  ASSUME NEW S \in [Workers -> Seq(Units)], NEW Q \in [Workers -> Seq(Jobs)],
         NEW C \in SUBSET Jobs, NEW M, Placed(S, Q, C, M),
         NEW w \in Workers, NEW v \in Workers, Q[v] # <<>>,
         NEW T, Put(S, w, Append(S[w], Head(Q[v])), T),
         NEW R, Put(Q, v, Tail(Q[v]), R)
  PROVE  /\ Placed(T, R, C, M)
         /\ T \in [Workers -> Seq(Units)] /\ R \in [Workers -> Seq(Jobs)]
         /\ \A u : In(R, u) => In(Q, u)
<1>. DEFINE u == Head(Q[v])
<1>. HIDE DEF u
<1>1. /\ R \in [Workers -> Seq(Jobs)] /\ u \in Jobs
      /\ In(Q, u) /\ ~In(R, u) /\ Alone(R)
      /\ \A x : x # u => (In(R, x) <=> In(Q, x))
  BY Headed DEF Placed, u
<1>2. u \in Units /\ ~In(S, u) /\ u \notin Modules
  BY <1>1, Apart DEF Placed
<1>3. Put(S, w, Append(S[w], u), T)
  BY DEF u
<1>4. /\ T \in [Workers -> Seq(Units)]
      /\ Len(S[w]) \in Nat /\ Len(T[w]) = Len(S[w]) + 1 /\ T[w][Len(S[w]) + 1] = u
      /\ \A i \in 1 .. Len(S[w]) : T[w][i] = S[w][i]
      /\ \A y \in Workers : y # w => T[y] = S[y]
      /\ In(T, u) /\ \A x : x # u => (In(T, x) <=> In(S, x))
  BY <1>2, <1>3, Pushed, SMTT(60)
<1>5. Alone(T)
  BY <1>2, <1>3, Pushed DEF Placed
<1>6. Bottoms(T)
  <2>1. T[w] # <<>> /\ (S[w] # <<>> => T[w][1] = S[w][1]) /\ (S[w] = <<>> => T[w][1] = u)
    <3>1. S[w] # <<>> => Len(S[w]) >= 1
      BY <1>4, EmptySeq
    <3>. QED  BY <1>4, <3>1
  <2>. QED  BY <1>1, <1>4, <2>1, JobsAssumption DEF Placed, Bottoms
<1>. QED
  BY <1>1, <1>2, <1>4, <1>5, <1>6 DEF Placed

(* A unit is put on top of another. *)
LEMMA PlacedPush ==
  ASSUME NEW S \in [Workers -> Seq(Units)], Alone(S), Bottoms(S),
         NEW w \in Workers, Len(S[w]) # 0, NEW u \in Units, ~In(S, u),
         NEW T, Put(S, w, Append(S[w], u), T)
  PROVE  /\ Bottoms(T) /\ T \in [Workers -> Seq(Units)] /\ Alone(T)
         /\ In(T, u) /\ \A x : x # u => (In(T, x) <=> In(S, x))
<1>1. T \in [Workers -> Seq(Units)] /\ Alone(T)
  BY Pushed
<1>2. In(T, u) /\ \A x : x # u => (In(T, x) <=> In(S, x))
  BY Pushed
<1>3. \A y \in Workers : y # w => T[y] = S[y]
  BY Pushed
<1>4. T[w] # <<>> /\ T[w][1] = S[w][1]
  <2>1. Len(S[w]) \in Nat /\ Len(T[w]) = Len(S[w]) + 1
    BY Pushed
  <2>2. \A i \in 1 .. Len(S[w]) : T[w][i] = S[w][i]
    BY Pushed
  <2>. QED  BY <2>1, <2>2
<1>5. Bottoms(T)
  BY <1>3, <1>4, JobsAssumption DEF Bottoms
<1>. QED
  BY <1>1, <1>2, <1>5

(* A module is claimed and analysed on top of a stack. *)
LEMMA PlacedClaim ==
  ASSUME NEW S \in [Workers -> Seq(Units)], NEW Q, NEW C, NEW M, Placed(S, Q, C, M),
         NEW w \in Workers, S[w] # <<>>, NEW m \in Modules, M[m] = "pending",
         NEW T, Put(S, w, Append(S[w], m), T),
         NEW N, Becomes(M, m, "in_progress", N)
  PROVE  Placed(T, Q, C, N) /\ T \in [Workers -> Seq(Units)]
<1>1. m \in Units /\ m \notin Jobs /\ ~In(S, m) /\ Alone(S) /\ Bottoms(S) /\ Len(S[w]) # 0
  BY Apart, EmptySeq DEF Placed
<1>2. /\ Bottoms(T) /\ T \in [Workers -> Seq(Units)] /\ Alone(T)
      /\ In(T, m) /\ \A x : x # m => (In(T, x) <=> In(S, x))
  BY <1>1, PlacedPush
<1>. QED
  BY <1>1, <1>2 DEF Placed, Becomes

(* The unit on top of a stack, not compile(), is left. *)
LEMMA PlacedPop ==
  ASSUME NEW S \in [Workers -> Seq(Units)], NEW Q, NEW C, NEW M, Placed(S, Q, C, M),
         NEW w \in Workers, S[w] # <<>>, S[w][Len(S[w])] # Compile,
         NEW T, Put(S, w, SubSeq(S[w], 1, Len(S[w]) - 1), T)
  PROVE  /\ Bottoms(T) /\ T \in [Workers -> Seq(Units)] /\ Alone(T)
         /\ In(S, S[w][Len(S[w])]) /\ ~In(T, S[w][Len(S[w])])
         /\ \A x : x # S[w][Len(S[w])] => (In(T, x) <=> In(S, x))
<1>1. /\ T \in [Workers -> Seq(Units)]
      /\ Len(S[w]) \in Nat /\ Len(S[w]) >= 1 /\ Len(T[w]) = Len(S[w]) - 1
      /\ \A i \in 1 .. Len(S[w]) - 1 : T[w][i] = S[w][i]
      /\ \A v \in Workers : v # w => T[v] = S[v]
      /\ In(S, S[w][Len(S[w])]) /\ ~In(T, S[w][Len(S[w])])
      /\ \A x : x # S[w][Len(S[w])] => (In(T, x) <=> In(S, x))
      /\ Alone(T)
  BY Popped DEF Placed
<1>2. Bottoms(T)
  <2>1. T[w] # <<>> => T[w][1] = S[w][1]
    <3>1. T[w] # <<>> => Len(T[w]) >= 1
      BY <1>1, EmptySeq, LenProperties
    <3>. QED  BY <1>1, <3>1
  <2>2. w = Main => T[w] # <<>>
    <3>1. w = Main => Len(T[w]) # 0
      BY <1>1 DEF Placed, Bottoms
    <3>. QED  BY <1>1, <3>1, EmptySeq
  <2>. QED  BY <1>1, <2>1, <2>2, JobsAssumption DEF Placed, Bottoms
<1>. QED
  BY <1>1, <1>2

(* A module is done. *)
LEMMA PlacedDone ==
  ASSUME NEW S \in [Workers -> Seq(Units)], NEW Q, NEW C, NEW M, Placed(S, Q, C, M),
         NEW w \in Workers, S[w] # <<>>, NEW m \in Modules, S[w][Len(S[w])] = m,
         NEW T, Put(S, w, SubSeq(S[w], 1, Len(S[w]) - 1), T),
         NEW N, Becomes(M, m, "done", N)
  PROVE  Placed(T, Q, C, N) /\ T \in [Workers -> Seq(Units)]
<1>1. m # Compile /\ m \notin Jobs
  BY Apart
<1>2. /\ Bottoms(T) /\ T \in [Workers -> Seq(Units)] /\ Alone(T)
      /\ ~In(T, m) /\ \A x : x # m => (In(T, x) <=> In(S, x))
  BY <1>1, PlacedPop
<1>. QED
  BY <1>1, <1>2 DEF Placed, Becomes

(* A closure ends and drops its clone. *)
LEMMA PlacedExit ==
  ASSUME NEW S \in [Workers -> Seq(Units)], NEW Q, NEW C, NEW M, Placed(S, Q, C, M),
         NEW w \in Workers, S[w] # <<>>, NEW u \in Jobs, S[w][Len(S[w])] = u,
         NEW T, Put(S, w, SubSeq(S[w], 1, Len(S[w]) - 1), T),
         NEW D, D = C \ {u}
  PROVE  Placed(T, Q, D, M) /\ T \in [Workers -> Seq(Units)] /\ u \in C
<1>1. u # Compile /\ u \notin Modules
  BY Apart
<1>2. /\ Bottoms(T) /\ T \in [Workers -> Seq(Units)] /\ Alone(T)
      /\ In(S, u) /\ ~In(T, u) /\ \A x : x # u => (In(T, x) <=> In(S, x))
  BY <1>1, PlacedPop
<1>. QED
  BY <1>1, <1>2 DEF Placed
-------------------------------------------------------------------------------
(* What a worker runs. *)

(* The unit on top of a stack and what it asks for. *)
LEMMA TopFacts ==
  ASSUME TypeOK, NEW w \in Workers, Running(w)
  PROVE  /\ Top(w) \in Units /\ In(stack, Top(w))
         /\ Body(w) \in Seq(Requests) /\ Len(Body(w)) \in Nat
         /\ pos[Top(w)] \in Nat
<1>1. stack[w] \in Seq(Units) /\ stack[w] # <<>>
  BY DEF TypeOK, Running
<1>2. Len(stack[w]) \in Nat /\ Len(stack[w]) \in 1 .. Len(stack[w])
  BY <1>1, LenProperties, EmptySeq
<1>3. Top(w) \in Units /\ In(stack, Top(w))
  BY <1>1, <1>2, ElementOfSeq DEF Top, In
<1>4. Body(w) \in Seq(Requests) /\ pos[Top(w)] \in Nat
  BY <1>3, JobsAssumption DEF Body, TypeOK
<1>5. Len(Body(w)) \in Nat
  BY <1>4, LenProperties
<1>. QED
  BY <1>3, <1>4, <1>5

(* A request is for a unit of its kind. *)
LEMMA RequestFacts ==
  ASSUME NEW r \in Requests
  PROVE  /\ r.kind \in {"decl", "module", "fn", "spawn"}
         /\ r.kind = "decl" => r.unit \in Decls
         /\ r.kind = "module" => r.unit \in Modules
         /\ r.kind = "fn" => r.unit \in Funcs
         /\ r.kind = "spawn" => r.unit \in Tasks /\ r = Starting(r.unit)
BY DEF Requests, Starting

(* A request that is being made. *)
LEMMA AsksFacts ==
  ASSUME TypeOK, NEW w \in Workers, InBody(w)
  PROVE  /\ Running(w) /\ pos[Top(w)] # Over
         /\ pos[Top(w)] \in 1 .. Len(prog.body[Top(w)]) /\ Top(w) \in Units
         /\ Request(w) = prog.body[Top(w)][pos[Top(w)]] /\ Request(w) \in Requests
         /\ Asks(w, "decl") => Target(w) \in Decls
         /\ Asks(w, "module") => Target(w) \in Modules
         /\ Asks(w, "fn") => Target(w) \in Funcs
         /\ Asks(w, "spawn") => Target(w) \in Tasks /\ Request(w) = Starting(Target(w))
<1>1. Running(w) /\ pos[Top(w)] \in 1 .. Len(Body(w))
  BY DEF InBody
<1>2. Body(w) \in Seq(Requests) /\ Top(w) \in Units /\ Len(Body(w)) \in Nat
  BY <1>1, TopFacts
<1>3. Request(w) \in Requests
  BY <1>1, <1>2, ElementOfSeq DEF Request
<1>. QED
  BY <1>1, <1>2, <1>3, RequestFacts DEF Asks, Target, Request, Body, Over

(* A unit that goes on or ends stays ended and never comes back to a       *)
(* request.                                                                *)
LEMMA Moves ==
  ASSUME TypeOK, NEW w \in Workers, Running(w), pos[Top(w)] # Over,
         Advance(w) \/ Finish(w)
  PROVE  /\ pos' \in [Units -> Nat]
         /\ \A u \in Units : u # Top(w) => pos'[u] = pos[u]
         /\ \A u \in Units : pos[u] = Over => pos'[u] = Over
         /\ \A u \in Units : \A i \in Nat :
              pos[u] = Over \/ i < pos[u] => pos'[u] = Over \/ i < pos'[u]
<1>1. Top(w) \in Units /\ pos[Top(w)] \in Nat /\ pos \in [Units -> Nat]
  BY TopFacts DEF TypeOK
<1>. QED
  BY <1>1 DEF Advance, Finish, Over

(* After compile() has seen that no clone is left nobody works. *)
LEMMA Idle ==
  ASSUME IInv, NEW w \in Workers,
         \/ Running(w) /\ (Top(w) \in Jobs \/ pos[Top(w)] # Over)
         \/ queue[w] # <<>>
  PROVE  mainpc \notin Quiet
<1>. SUFFICES ASSUME mainpc \in Quiet PROVE FALSE
  OBVIOUS
<1>1. clones = {} /\ stack[Main] = <<Compile>> /\ pos[Compile] = Over
  BY DEF IInv, LoopOK
<1>2. \A u \in Jobs : ~In(stack, u) /\ ~In(queue, u)
  BY <1>1 DEF IInv, Placed
<1>3. CASE queue[w] # <<>>
  <2>1. queue[w] \in Seq(Jobs)
    BY DEF IInv, TypeOK
  <2>2. Len(queue[w]) \in Nat /\ 1 \in 1 .. Len(queue[w])
    BY <2>1, <1>3, LenProperties, EmptySeq
  <2>3. queue[w][1] \in Jobs
    BY <2>1, <2>2, ElementOfSeq
  <2>. QED  BY <1>2, <2>2, <2>3 DEF In
<1>4. CASE Running(w) /\ (Top(w) \in Jobs \/ pos[Top(w)] # Over)
  <2>1. CASE w = Main
    <3>1. Top(w) = Compile
      BY <1>1, <2>1 DEF Top
    <3>. QED  BY <1>1, <1>4, <3>1, Apart
  <2>2. CASE w # Main
    <3>1. stack[w] # <<>> /\ stack[w] \in Seq(Units)
      BY <1>4 DEF IInv, TypeOK, Running
    <3>2. Len(stack[w]) \in Nat /\ 1 \in 1 .. Len(stack[w])
      BY <3>1, LenProperties, EmptySeq
    <3>3. stack[w][1] \in Jobs
      BY <2>2, <3>1 DEF IInv, Placed, Bottoms
    <3>. QED  BY <1>2, <3>2, <3>3 DEF In
  <2>. QED  BY <2>1, <2>2
<1>. QED
  BY <1>3, <1>4

(* So a worker's step does not disturb the last loop. *)
LEMMA LoopKept ==
  ASSUME IInv, mainpc \notin Quiet, mainpc' = mainpc, result' = result
  PROVE  LoopOK'
BY DEF IInv, LoopOK, Quiet

(* A job is spawned for a unit that nobody has asked for, and only then. *)
LEMMA AnalyzeKeeps ==
  ASSUME IInv, NEW w \in Workers, NEW u \in Decls \cup Funcs, AnalyzeIfNeeded(w, u)
  PROVE  /\ jobs' \in [Decls \cup Funcs -> {"absent", "queued", "done"}]
         /\ queue' \in [Workers -> Seq(Jobs)]
         /\ clones' \in SUBSET Jobs /\ clones \subseteq clones'
         /\ Placed(stack, queue', clones', mstate)
         /\ Counted'
         /\ Tasks \cap clones' = Tasks \cap clones
         /\ \A d \in Decls : jobs'[d] = "absent" \/ In(queue', d) => dstate[d] = "unanalysed"
         /\ jobs'[u] # "absent"
         /\ \A x \in Decls \cup Funcs : jobs[x] # "absent" => jobs'[x] = jobs[x]
         /\ \A x \in Decls \cup Funcs : jobs'[x] = "done" => jobs[x] = "done"
<1>1. CASE jobs[u] = "absent"
  <2>1. jobs' = [jobs EXCEPT ![u] = "queued"] /\ Put(queue, w, Append(queue[w], u), queue')
        /\ clones' = clones \cup {u}
    BY <1>1 DEF AnalyzeIfNeeded, Spawn, Put
  <2>2. u \in Jobs /\ u \notin clones /\ u \notin Tasks
    BY <1>1, Apart DEF Jobs, IInv, Counted
  <2>3. stack \in [Workers -> Seq(Units)] /\ queue \in [Workers -> Seq(Jobs)]
        /\ clones \in SUBSET Jobs /\ Placed(stack, queue, clones, mstate)
        /\ jobs \in [Decls \cup Funcs -> {"absent", "queued", "done"}]
    BY DEF IInv, TypeOK
  <2>4. Placed(stack, queue', clones', mstate) /\ queue' \in [Workers -> Seq(Jobs)]
    BY <2>1, <2>2, <2>3, PlacedSpawn
  <2>5. \A x : x # u => (In(queue', x) <=> In(queue, x))
    BY <2>1, <2>2, <2>3, Pushed
  <2>6. jobs' \in [Decls \cup Funcs -> {"absent", "queued", "done"}] /\ jobs'[u] = "queued"
        /\ \A x \in Decls \cup Funcs : x # u => jobs'[x] = jobs[x]
    BY <2>1, <2>3
  <2>7. Counted'
    BY <2>1, <2>6 DEF IInv, Counted
  <2>8. \A d \in Decls : jobs'[d] = "absent" \/ In(queue', d) => dstate[d] = "unanalysed"
    BY <1>1, <2>5, <2>6 DEF IInv, OutcomeOnce
  <2>9. clones' \in SUBSET Jobs /\ clones \subseteq clones' /\ Tasks \cap clones' = Tasks \cap clones
    BY <2>1, <2>2, <2>3
  <2>. QED  BY <1>1, <2>4, <2>6, <2>7, <2>8, <2>9
<1>2. CASE jobs[u] # "absent"
  <2>1. jobs' = jobs /\ queue' = queue /\ clones' = clones
    BY <1>2 DEF AnalyzeIfNeeded
  <2>. QED  BY <1>2, <2>1 DEF IInv, TypeOK, Counted, OutcomeOnce
<1>. QED
  BY <1>1, <1>2
-------------------------------------------------------------------------------
(* Every step keeps the invariant. *)

(* get_or_analyze_decl_value spawns a job for a declaration. *)
LEMMA DemandDeclKeeps ==
  ASSUME IInv, NEW w \in Workers, DemandDecl(w)
  PROVE  IInv'
<1>1. Asks(w, "decl") /\ InBody(w) /\ AnalyzeIfNeeded(w, Target(w))
  BY DEF DemandDecl, Asks
<1>2. Target(w) \in Decls /\ Running(w) /\ pos[Top(w)] # Over
  BY <1>1, AsksFacts DEF IInv
<1>3. UNCHANGED <<prog, stack, pos, dstate, mstate, errors, tasks, lowered, mainpc, result>>
  BY DEF DemandDecl
<1>4. /\ jobs' \in [Decls \cup Funcs -> {"absent", "queued", "done"}]
      /\ queue' \in [Workers -> Seq(Jobs)]
      /\ clones' \in SUBSET Jobs
      /\ Placed(stack, queue', clones', mstate)
      /\ Counted'
      /\ Tasks \cap clones' = Tasks \cap clones
      /\ \A d \in Decls : jobs'[d] = "absent" \/ In(queue', d) => dstate[d] = "unanalysed"
  BY <1>1, <1>2, AnalyzeKeeps
<1>5. TypeOK'
  BY <1>3, <1>4 DEF IInv, TypeOK
<1>6. Placed(stack, queue, clones, mstate)'
  BY <1>3, <1>4
<1>7. SpawnPassed'
  BY <1>3, <1>4 DEF IInv, SpawnPassed, Passed
<1>8. OutcomeOnce'
  BY <1>3, <1>4 DEF IInv, OutcomeOnce
<1>9. LoopOK'
  BY <1>2, <1>3, Idle, LoopKept
<1>. QED
  BY <1>4, <1>5, <1>6, <1>7, <1>8, <1>9 DEF IInv

(* queue_runtime_function_analysis_if_needed. *)
LEMMA CallFnKeeps ==
  ASSUME IInv, NEW w \in Workers, CallFn(w)
  PROVE  IInv'
<1>1. Asks(w, "fn") /\ InBody(w) /\ AnalyzeIfNeeded(w, Target(w)) /\ Advance(w)
  BY DEF CallFn, Asks
<1>2. Target(w) \in Funcs /\ Running(w) /\ pos[Top(w)] # Over
  BY <1>1, AsksFacts DEF IInv
<1>3. UNCHANGED <<prog, stack, dstate, mstate, errors, tasks, lowered, mainpc, result>>
  BY DEF CallFn
<1>4. /\ jobs' \in [Decls \cup Funcs -> {"absent", "queued", "done"}]
      /\ queue' \in [Workers -> Seq(Jobs)]
      /\ clones' \in SUBSET Jobs
      /\ Placed(stack, queue', clones', mstate)
      /\ Counted'
      /\ Tasks \cap clones' = Tasks \cap clones
      /\ \A d \in Decls : jobs'[d] = "absent" \/ In(queue', d) => dstate[d] = "unanalysed"
  BY <1>1, <1>2, AnalyzeKeeps
<1>m. /\ pos' \in [Units -> Nat]
      /\ \A u \in Units : pos[u] = Over => pos'[u] = Over
      /\ \A u \in Units : \A i \in Nat :
           pos[u] = Over \/ i < pos[u] => pos'[u] = Over \/ i < pos'[u]
  BY <1>1, <1>2, Moves DEF IInv
<1>5. TypeOK'
  BY <1>3, <1>4, <1>m DEF IInv, TypeOK
<1>6. Placed(stack, queue, clones, mstate)'
  BY <1>3, <1>4
<1>7. SpawnPassed'
  BY <1>3, <1>4, <1>m DEF IInv, SpawnPassed, Passed
<1>8. OutcomeOnce'
  BY <1>3, <1>4, <1>m, Apart DEF IInv, OutcomeOnce, Units, Jobs
<1>9. LoopOK'
  BY <1>2, <1>3, Idle, LoopKept
<1>. QED
  BY <1>4, <1>5, <1>6, <1>7, <1>8, <1>9 DEF IInv

(* A starting closure is spawned, for the only time. *)
LEMMA SpawnTaskKeeps ==
  ASSUME IInv, NEW w \in Workers, SpawnTask(w)
  PROVE  IInv'
<1>. DEFINE t == Target(w)
            u == Top(w)
<1>1. Asks(w, "spawn") /\ InBody(w) /\ Spawn(w, t) /\ Advance(w)
  BY DEF SpawnTask, Asks
<1>2. /\ t \in Tasks /\ Running(w) /\ pos[u] # Over /\ u \in Units
      /\ pos[u] \in 1 .. Len(prog.body[u]) /\ prog.body[u][pos[u]] = Starting(t)
  BY <1>1, AsksFacts DEF IInv
<1>3. UNCHANGED <<prog, stack, jobs, dstate, mstate, errors, tasks, lowered, mainpc, result>>
  BY DEF SpawnTask
<1>m. /\ pos' \in [Units -> Nat]
      /\ \A x \in Units : pos[x] = Over => pos'[x] = Over
      /\ \A x \in Units : \A i \in Nat :
           pos[x] = Over \/ i < pos[x] => pos'[x] = Over \/ i < pos'[x]
  BY <1>1, <1>2, Moves DEF IInv
<1>4. t \in Jobs /\ t \notin Decls \cup Funcs /\ t \notin clones
  <2>1. t \notin clones
    BY <1>2 DEF IInv, TypeOK, SpawnPassed, Passed
  <2>. QED  BY <1>2, <2>1, Apart DEF Jobs
<1>5. /\ stack \in [Workers -> Seq(Units)] /\ queue \in [Workers -> Seq(Jobs)]
      /\ clones \in SUBSET Jobs /\ Placed(stack, queue, clones, mstate)
      /\ Put(queue, w, Append(queue[w], t), queue') /\ clones' = clones \cup {t}
  BY <1>1 DEF IInv, TypeOK, Spawn, Put
<1>6. Placed(stack, queue', clones', mstate) /\ queue' \in [Workers -> Seq(Jobs)]
  BY <1>4, <1>5, PlacedSpawn
<1>7. \A x : x # t => (In(queue', x) <=> In(queue, x))
  BY <1>4, <1>5, Pushed
<1>8. TypeOK'
  BY <1>3, <1>4, <1>5, <1>6, <1>m DEF IInv, TypeOK
<1>9. Placed(stack, queue, clones, mstate)'
  BY <1>3, <1>6
<1>10. Counted'
  BY <1>3, <1>4, <1>5 DEF IInv, Counted
<1>11. SpawnPassed'
  <2>. SUFFICES ASSUME NEW y \in Tasks \cap clones', NEW x \in Units,
                       NEW i \in 1 .. Len(prog.body[x]), prog.body[x][i] = Starting(y)
                PROVE  pos'[x] = Over \/ i < pos'[x]
    BY <1>3 DEF SpawnPassed, Passed
  <2>1. i \in Nat
    <3>1. prog.body[x] \in Seq(Requests)
      BY JobsAssumption DEF IInv, TypeOK
    <3>. QED  BY <3>1, LenProperties
  <2>2. CASE y \in clones
    BY <1>m, <2>1, <2>2 DEF IInv, SpawnPassed, Passed
  <2>3. CASE y = t
    <3>1. x = u /\ i = pos[u]
      <4>1. prog \in Programs /\ StartsOnce(prog)
        BY StartAssumption DEF IInv, TypeOK
      <4>2. prog.body \in [Units -> Seq(Requests)]
        BY <4>1, JobsAssumption
      <4>3. DOMAIN prog.body[x] = 1 .. Len(prog.body[x]) /\ DOMAIN prog.body[u] = 1 .. Len(prog.body[u])
        BY <1>2, <4>2
      <4>4. prog.body[x][i].kind = "spawn" /\ prog.body[x][i] = prog.body[u][pos[u]]
        BY <1>2, <2>3 DEF Starting
      <4>. QED  BY <1>2, <4>1, <4>3, <4>4 DEF StartsOnce
    <3>2. pos'[u] = pos[u] + 1
      BY <1>1, <1>2 DEF Advance, IInv, TypeOK
    <3>. QED  BY <2>1, <3>1, <3>2
  <2>. QED  BY <1>5, <2>2, <2>3
<1>12. OutcomeOnce'
  BY <1>3, <1>4, <1>7, <1>m, Apart DEF IInv, OutcomeOnce, Units, Jobs
<1>13. LoopOK'
  BY <1>2, <1>3, Idle, LoopKept
<1>. QED
  BY <1>8, <1>9, <1>10, <1>11, <1>12, <1>13 DEF IInv

(* A unit goes on or ends, and only its own outcome changes. *)
LEMMA MoveKeeps ==
  ASSUME IInv, NEW w \in Workers, Running(w), pos[Top(w)] # Over, Advance(w) \/ Finish(w),
         UNCHANGED <<prog, stack, queue, jobs, clones, mstate, lowered, mainpc, result>>,
         errors' \in BOOLEAN, tasks' \in Seq(Funcs),
         \/ dstate' = dstate
         \/ /\ Top(w) \in Decls /\ Finish(w)
            /\ dstate' \in {[dstate EXCEPT ![Top(w)] = o] : o \in Terminal}
  PROVE  IInv'
<1>. DEFINE u == Top(w)
<1>1. /\ pos' \in [Units -> Nat]
      /\ \A x \in Units : pos[x] = Over => pos'[x] = Over
      /\ \A x \in Units : \A i \in Nat :
           pos[x] = Over \/ i < pos[x] => pos'[x] = Over \/ i < pos'[x]
  BY Moves DEF IInv
<1>2. u \in Units /\ In(stack, u)
  BY TopFacts DEF IInv
<1>3. \/ dstate' = dstate
      \/ /\ u \in Decls /\ pos'[u] = Over /\ dstate'[u] \in Terminal
         /\ dstate' \in [Decls -> {"unanalysed"} \cup Terminal]
         /\ \A d \in Decls : d # u => dstate'[d] = dstate[d]
  BY <1>2 DEF Finish, IInv, TypeOK
<1>4. TypeOK'
  BY <1>1, <1>3 DEF IInv, TypeOK
<1>5. Placed(stack, queue, clones, mstate)' /\ Counted'
  BY DEF IInv, Counted
<1>6. SpawnPassed'
  <2>. SUFFICES ASSUME NEW t \in Tasks \cap clones, NEW x \in Units,
                       NEW i \in 1 .. Len(prog.body[x]), prog.body[x][i] = Starting(t)
                PROVE  pos'[x] = Over \/ i < pos'[x]
    BY DEF SpawnPassed, Passed
  <2>1. i \in Nat
    <3>1. prog.body[x] \in Seq(Requests)
      BY JobsAssumption DEF IInv, TypeOK
    <3>. QED  BY <3>1, LenProperties
  <2>. QED  BY <1>1, <2>1 DEF IInv, SpawnPassed, Passed
<1>7. OutcomeOnce'
  <2>1. u \in Decls => ~In(queue, u) /\ jobs[u] # "absent"
    BY <1>2 DEF IInv, Placed, Counted, Jobs
  <2>2. Decls \subseteq Units
    BY DEF Units, Jobs
  <2>. QED  BY <1>1, <1>3, <2>1, <2>2 DEF IInv, OutcomeOnce
<1>8. LoopOK'
  BY Idle, LoopKept
<1>. QED
  BY <1>4, <1>5, <1>6, <1>7, <1>8 DEF IInv

(* A waiting unit finds its answer and goes on. *)
LEMMA ReadyKeeps ==
  ASSUME IInv, NEW w \in Workers, DeclReady(w) \/ ModuleReady(w)
  PROVE  IInv'
<1>1. InBody(w) /\ Advance(w)
  BY DEF DeclReady, ModuleReady, Asks
<1>2. Running(w) /\ pos[Top(w)] # Over
  BY <1>1, AsksFacts DEF IInv
<1>3. UNCHANGED <<prog, stack, queue, jobs, clones, dstate, mstate, errors, tasks, lowered, mainpc, result>>
  BY DEF DeclReady, ModuleReady
<1>4. errors' \in BOOLEAN /\ tasks' \in Seq(Funcs)
  BY <1>3 DEF IInv, TypeOK
<1>. QED
  BY <1>1, <1>2, <1>3, <1>4, MoveKeeps

(* A request fails, and the unit with it. *)
LEMMA PropagateKeeps ==
  ASSUME IInv, NEW w \in Workers, Propagate(w)
  PROVE  IInv'
<1>1. InBody(w) /\ Finish(w)
  BY DEF Propagate, RequestFails, Asks
<1>2. Running(w) /\ pos[Top(w)] # Over
  BY <1>1, AsksFacts DEF IInv
<1>3. UNCHANGED <<prog, stack, queue, jobs, clones, mstate, errors, tasks, lowered, mainpc, result>>
  BY DEF Propagate
<1>4. errors' \in BOOLEAN /\ tasks' \in Seq(Funcs)
  BY <1>3 DEF IInv, TypeOK
<1>5. \/ dstate' = dstate
      \/ Top(w) \in Decls /\ dstate' \in {[dstate EXCEPT ![Top(w)] = o] : o \in Terminal}
  BY DEF Propagate, Terminal
<1>. QED
  BY <1>1, <1>2, <1>3, <1>4, <1>5, MoveKeeps

(* A unit whose requests are all behind it. *)
LEMMA AtEndFacts ==
  ASSUME TypeOK, NEW w \in Workers, AtEnd(w)
  PROVE  Running(w) /\ pos[Top(w)] # Over /\ pos[Top(w)] = Len(prog.body[Top(w)]) + 1
<1>1. Running(w) /\ pos[Top(w)] = Len(Body(w)) + 1
  BY DEF AtEnd
<1>2. Len(Body(w)) \in Nat
  BY <1>1, TopFacts
<1>. QED
  BY <1>1, <1>2 DEF Over, Body

(* The outcome of a declaration is stored. *)
LEMMA CompleteDeclKeeps ==
  ASSUME IInv, NEW w \in Workers, CompleteDecl(w)
  PROVE  IInv'
<1>1. AtEnd(w) /\ Finish(w) /\ Top(w) \in Decls
  BY DEF CompleteDecl
<1>2. Running(w) /\ pos[Top(w)] # Over
  BY <1>1, AtEndFacts DEF IInv
<1>3. UNCHANGED <<prog, stack, queue, jobs, clones, mstate, tasks, lowered, mainpc, result>>
  BY DEF CompleteDecl
<1>4. errors' \in BOOLEAN /\ tasks' \in Seq(Funcs)
  BY <1>3 DEF CompleteDecl, IInv, TypeOK
<1>5. \/ dstate' = dstate
      \/ dstate' \in {[dstate EXCEPT ![Top(w)] = o] : o \in Terminal}
  BY DEF CompleteDecl, Terminal
<1>. QED
  BY <1>1, <1>2, <1>3, <1>4, <1>5, MoveKeeps

(* A function is handed to the code generator, or not. *)
LEMMA CompleteFuncKeeps ==
  ASSUME IInv, NEW w \in Workers, CompleteFunc(w)
  PROVE  IInv'
<1>1. AtEnd(w) /\ Finish(w) /\ Top(w) \in Funcs
  BY DEF CompleteFunc
<1>2. Running(w) /\ pos[Top(w)] # Over
  BY <1>1, AtEndFacts DEF IInv
<1>3. UNCHANGED <<prog, stack, queue, jobs, clones, dstate, mstate, lowered, mainpc, result>>
  BY DEF CompleteFunc
<1>4. errors' \in BOOLEAN
  BY DEF CompleteFunc, IInv, TypeOK
<1>5. tasks' \in Seq(Funcs)
  <2>1. tasks \in Seq(Funcs) /\ tasks' \in {tasks, Append(tasks, Top(w))}
    BY DEF CompleteFunc, IInv, TypeOK
  <2>. QED  BY <1>1, <2>1, AppendProperties
<1>. QED
  BY <1>1, <1>2, <1>3, <1>4, <1>5, MoveKeeps

(* A starting closure or the start of compile() ends. *)
LEMMA CompleteTaskKeeps ==
  ASSUME IInv, NEW w \in Workers, CompleteTask(w)
  PROVE  IInv'
<1>1. AtEnd(w) /\ Finish(w)
  BY DEF CompleteTask
<1>2. Running(w) /\ pos[Top(w)] # Over
  BY <1>1, AtEndFacts DEF IInv
<1>3. UNCHANGED <<prog, stack, queue, jobs, clones, dstate, mstate, errors, tasks, lowered, mainpc, result>>
  BY DEF CompleteTask
<1>4. errors' \in BOOLEAN /\ tasks' \in Seq(Funcs)
  BY <1>3 DEF IInv, TypeOK
<1>. QED
  BY <1>1, <1>2, <1>3, <1>4, MoveKeeps

(* get_or_analyze_module_sync claims a module. *)
LEMMA ClaimModuleKeeps ==
  ASSUME IInv, NEW w \in Workers, ClaimModule(w)
  PROVE  IInv'
<1>1. Asks(w, "module") /\ InBody(w) /\ mstate[Target(w)] = "pending"
  BY DEF ClaimModule, Asks
<1>2. PICK m \in Modules : m = Target(w)
  BY <1>1, AsksFacts DEF IInv
<1>3. Running(w) /\ pos[Top(w)] # Over /\ stack[w] # <<>>
  BY <1>1, AsksFacts DEF IInv, Running
<1>4. UNCHANGED <<prog, pos, queue, jobs, clones, dstate, errors, tasks, lowered, mainpc, result>>
  BY DEF ClaimModule
<1>5. Put(stack, w, Append(stack[w], m), stack') /\ mstate' = [mstate EXCEPT ![m] = "in_progress"]
  BY <1>2 DEF ClaimModule, Put
<1>6. /\ mstate' \in [Modules -> {"pending", "in_progress", "done"}]
      /\ Becomes(mstate, m, "in_progress", mstate')
  BY <1>5 DEF IInv, TypeOK, Becomes
<1>7. stack \in [Workers -> Seq(Units)] /\ Placed(stack, queue, clones, mstate)
  BY DEF IInv, TypeOK
<1>8. Placed(stack', queue, clones, mstate') /\ stack' \in [Workers -> Seq(Units)]
  BY <1>1, <1>2, <1>3, <1>5, <1>6, <1>7, PlacedClaim
<1>9. TypeOK'
  BY <1>4, <1>6, <1>8 DEF IInv, TypeOK
<1>10. Placed(stack, queue, clones, mstate)'
  BY <1>4, <1>8
<1>11. Counted' /\ SpawnPassed' /\ OutcomeOnce'
  BY <1>4 DEF IInv, Counted, SpawnPassed, Passed, OutcomeOnce
<1>12. LoopOK'
  BY <1>3, <1>4, Idle, LoopKept
<1>. QED
  BY <1>9, <1>10, <1>11, <1>12 DEF IInv

(* The module is done and the unit below goes on. *)
LEMMA CompleteModuleKeeps ==
  ASSUME IInv, NEW w \in Workers, CompleteModule(w)
  PROVE  IInv'
<1>1. AtEnd(w) /\ Finish(w) /\ Pop(w) /\ Top(w) \in Modules
  BY DEF CompleteModule
<1>2. Running(w) /\ pos[Top(w)] # Over /\ stack[w] # <<>>
  BY <1>1, AtEndFacts DEF IInv, Running
<1>3. PICK m \in Modules : m = Top(w)
  BY <1>1
<1>4. UNCHANGED <<prog, queue, jobs, clones, dstate, errors, tasks, lowered, mainpc, result>>
  BY DEF CompleteModule
<1>5. /\ Put(stack, w, SubSeq(stack[w], 1, Len(stack[w]) - 1), stack')
      /\ mstate' = [mstate EXCEPT ![m] = "done"] /\ stack[w][Len(stack[w])] = m
  BY <1>3 DEF CompleteModule, Pop, Put, Top
<1>6. /\ mstate' \in [Modules -> {"pending", "in_progress", "done"}]
      /\ Becomes(mstate, m, "done", mstate')
  BY <1>5 DEF IInv, TypeOK, Becomes
<1>7. stack \in [Workers -> Seq(Units)] /\ Placed(stack, queue, clones, mstate)
  BY DEF IInv, TypeOK
<1>8. Placed(stack', queue, clones, mstate') /\ stack' \in [Workers -> Seq(Units)]
  BY <1>2, <1>5, <1>6, <1>7, PlacedDone, ZenonT(60)
<1>9. /\ pos' \in [Units -> Nat]
      /\ \A u \in Units : pos[u] = Over => pos'[u] = Over
      /\ \A u \in Units : u # m => pos'[u] = pos[u]
      /\ pos'[m] = Over
  <2>1. m \in Units /\ pos \in [Units -> Nat] /\ pos' = [pos EXCEPT ![m] = Over] /\ Over = 0
    BY <1>1, <1>3, Apart DEF Finish, IInv, TypeOK, Over
  <2>. QED  BY <2>1
<1>10. TypeOK'
  BY <1>4, <1>6, <1>8, <1>9 DEF IInv, TypeOK
<1>11. Placed(stack, queue, clones, mstate)' /\ Counted'
  BY <1>4, <1>8 DEF IInv, Counted
<1>12. SpawnPassed'
  BY <1>4, <1>9 DEF IInv, SpawnPassed, Passed
<1>13. OutcomeOnce'
  <2>1. Decls \subseteq Units
    BY DEF Units, Jobs
  <2>. QED  BY <1>4, <1>9, <2>1 DEF IInv, OutcomeOnce
<1>14. LoopOK'
  BY <1>2, <1>4, Idle, LoopKept
<1>. QED
  BY <1>10, <1>11, <1>12, <1>13, <1>14 DEF IInv

(* A worker takes a closure from a queue. *)
LEMMA TakeKeeps ==
  ASSUME IInv, NEW w \in Workers, Take(w),
         UNCHANGED <<prog, pos, jobs, clones, dstate, mstate, errors, tasks, lowered, result>>
  PROVE  /\ TypeOK' /\ Placed(stack, queue, clones, mstate)'
         /\ Counted' /\ SpawnPassed' /\ OutcomeOnce'
         /\ mainpc \notin Quiet
<1>1. PICK v \in Sources(w) :
        /\ queue' = [queue EXCEPT ![v] = Tail(@)]
        /\ stack' = [stack EXCEPT ![w] = Append(@, Head(queue[v]))]
  BY DEF Take
<1>2. v \in Workers /\ queue[v] # <<>>
  BY <1>1 DEF Sources
<1>3. /\ Put(queue, v, Tail(queue[v]), queue')
      /\ Put(stack, w, Append(stack[w], Head(queue[v])), stack')
  BY <1>1 DEF Put
<1>4. /\ stack \in [Workers -> Seq(Units)] /\ queue \in [Workers -> Seq(Jobs)]
      /\ clones \in SUBSET Jobs /\ Placed(stack, queue, clones, mstate)
  BY DEF IInv, TypeOK
<1>5. /\ Placed(stack', queue', clones, mstate)
      /\ stack' \in [Workers -> Seq(Units)] /\ queue' \in [Workers -> Seq(Jobs)]
      /\ \A u : In(queue', u) => In(queue, u)
  BY <1>2, <1>3, <1>4, PlacedTake
<1>6. TypeOK'
  BY <1>5 DEF IInv, TypeOK
<1>7. Placed(stack, queue, clones, mstate)'
  BY <1>5
<1>8. Counted' /\ SpawnPassed'
  BY DEF IInv, Counted, SpawnPassed, Passed
<1>9. OutcomeOnce'
  BY <1>5 DEF IInv, OutcomeOnce
<1>10. mainpc \notin Quiet
  BY <1>2, Idle
<1>. QED
  BY <1>6, <1>7, <1>8, <1>9, <1>10

(* rayon::yield_now, or a worker without work. *)
LEMMA YieldKeeps ==
  ASSUME IInv, NEW w \in Workers, Yield(w)
  PROVE  IInv'
<1>1. Take(w) /\ UNCHANGED <<prog, pos, jobs, clones, dstate, mstate, errors, tasks, lowered, mainpc, result>>
  BY DEF Yield
<1>2. /\ TypeOK' /\ Placed(stack, queue, clones, mstate)'
      /\ Counted' /\ SpawnPassed' /\ OutcomeOnce'
      /\ mainpc \notin Quiet
  BY <1>1, TakeKeeps
<1>3. LoopOK'
  BY <1>1, <1>2, LoopKept
<1>. QED
  BY <1>2, <1>3 DEF IInv

(* A closure ends, marks its job Done and drops its clone. *)
LEMMA ExitKeeps ==
  ASSUME IInv, NEW w \in Workers, Exit(w)
  PROVE  IInv'
<1>1. Running(w) /\ Top(w) \in Jobs /\ Pop(w) /\ stack[w] # <<>> /\ clones' = clones \ {Top(w)}
  BY DEF Exit, Running
<1>2. PICK u \in Jobs : u = Top(w)
  BY <1>1
<1>3. UNCHANGED <<prog, pos, queue, dstate, mstate, errors, tasks, lowered, mainpc, result>>
  BY DEF Exit
<1>4. /\ Put(stack, w, SubSeq(stack[w], 1, Len(stack[w]) - 1), stack')
      /\ stack[w][Len(stack[w])] = u /\ clones' = clones \ {u}
  BY <1>1, <1>2 DEF Pop, Put, Top
<1>5. /\ stack \in [Workers -> Seq(Units)] /\ Placed(stack, queue, clones, mstate)
      /\ clones \in SUBSET Jobs
  BY DEF IInv, TypeOK
<1>6. Placed(stack', queue, clones', mstate) /\ stack' \in [Workers -> Seq(Units)]
  <2>1. Placed(stack', queue, clones', mstate)
    BY <1>1, <1>2, <1>4, <1>5, PlacedExit
  <2>2. stack' \in [Workers -> Seq(Units)]
    BY <1>1, <1>2, <1>4, <1>5, PlacedExit
  <2>. QED  BY <2>1, <2>2
<1>7. /\ jobs' \in [Decls \cup Funcs -> {"absent", "queued", "done"}]
      /\ u \in Decls \cup Funcs => jobs'[u] = "done"
      /\ \A x \in Decls \cup Funcs : x # u => jobs'[x] = jobs[x]
  BY <1>2 DEF Exit, IInv, TypeOK
<1>8. TypeOK'
  BY <1>3, <1>4, <1>5, <1>6, <1>7 DEF IInv, TypeOK
<1>9. Placed(stack, queue, clones, mstate)'
  BY <1>3, <1>6
<1>10. Counted'
  BY <1>4, <1>7 DEF IInv, Counted
<1>11. SpawnPassed'
  BY <1>3, <1>4 DEF IInv, SpawnPassed, Passed
<1>12. OutcomeOnce'
  BY <1>3, <1>7 DEF IInv, OutcomeOnce
<1>13. LoopOK'
  BY <1>1, <1>3, Idle, LoopKept
<1>. QED
  BY <1>8, <1>9, <1>10, <1>11, <1>12, <1>13 DEF IInv

(* The last loop of compile(). *)
LEMMA LoopKeeps ==
  ASSUME IInv, Loop
  PROVE  IInv'
<1>. DEFINE rest == /\ Placed(stack, queue, clones, mstate)
                    /\ Counted /\ SpawnPassed /\ OutcomeOnce
<1>1. ASSUME UNCHANGED <<prog, stack, pos, queue, jobs, clones, dstate, mstate, errors>>
      PROVE  rest'
  BY <1>1 DEF IInv, Counted, SpawnPassed, Passed, OutcomeOnce
<1>2. CASE CheckCount
  <2>1. UNCHANGED <<prog, stack, pos, queue, jobs, clones, dstate, mstate, errors, tasks, lowered, result>>
    BY <1>2 DEF CheckCount
  <2>2. TypeOK'
    BY <2>1 DEF IInv, TypeOK
  <2>3. LoopOK'
    BY <1>2, <2>1 DEF CheckCount, InLoop, IInv, LoopOK, Quiet
  <2>. QED  BY <1>1, <2>1, <2>2, <2>3 DEF IInv
<1>3. CASE CheckEmpty
  <2>1. UNCHANGED <<prog, stack, pos, queue, jobs, clones, dstate, mstate, errors, tasks, lowered, result>>
    BY <1>3 DEF CheckEmpty
  <2>2. TypeOK'
    BY <2>1 DEF IInv, TypeOK
  <2>3. LoopOK'
    BY <1>3, <2>1 DEF CheckEmpty, InLoop, IInv, LoopOK, Quiet
  <2>. QED  BY <1>1, <2>1, <2>2, <2>3 DEF IInv
<1>4. CASE Lower
  <2>1. UNCHANGED <<prog, stack, pos, queue, jobs, clones, dstate, mstate, errors, mainpc, result>>
    BY <1>4 DEF Lower
  <2>2. tasks' \in Seq(Funcs) /\ lowered' \subseteq Funcs
    BY <1>4, HeadTailProperties DEF Lower, IInv, TypeOK
  <2>3. TypeOK'
    BY <2>1, <2>2 DEF IInv, TypeOK
  <2>4. LoopOK'
    BY <1>4, <2>1 DEF Lower, InLoop, IInv, LoopOK, Quiet
  <2>. QED  BY <1>1, <2>1, <2>3, <2>4 DEF IInv
<1>5. CASE MainYield
  <2>1. UNCHANGED <<prog, pos, jobs, clones, dstate, mstate, errors, tasks, lowered, result>>
        /\ mainpc = "drain" /\ mainpc' = "count"
    BY <1>5 DEF MainYield, InLoop
  <2>2. LoopOK'
    BY <2>1 DEF IInv, LoopOK, Quiet
  <2>3. CASE Sources(Main) = {}
    <3>1. UNCHANGED <<queue, stack>>
      BY <1>5, <2>3 DEF MainYield
    <3>2. TypeOK'
      BY <2>1, <3>1 DEF IInv, TypeOK
    <3>. QED  BY <1>1, <2>1, <2>2, <3>1, <3>2 DEF IInv
  <2>4. CASE Sources(Main) # {}
    <3>1. Take(Main) /\ Main \in Workers
      BY <1>5, <2>4, JobsAssumption DEF MainYield
    <3>2. /\ TypeOK' /\ Placed(stack, queue, clones, mstate)'
          /\ Counted' /\ SpawnPassed' /\ OutcomeOnce'
      BY <2>1, <3>1, TakeKeeps
    <3>. QED  BY <2>2, <3>2 DEF IInv
  <2>. QED  BY <2>3, <2>4
<1>6. CASE Return
  <2>1. UNCHANGED <<prog, stack, pos, queue, jobs, clones, dstate, mstate, errors, tasks, lowered>>
    BY <1>6 DEF Return
  <2>2. TypeOK'
    BY <2>1 DEF IInv, TypeOK
  <2>3. LoopOK'
    BY <1>6, <2>1 DEF Return, InLoop, IInv, LoopOK, Quiet
  <2>. QED  BY <1>1, <2>1, <2>2, <2>3 DEF IInv
<1>. QED
  BY <1>2, <1>3, <1>4, <1>5, <1>6 DEF Loop

(* Every step of the job system. *)
LEMMA StepKeeps ==
  ASSUME IInv, [Next]_vars
  PROVE  IInv'
<1>1. CASE UNCHANGED vars
  BY <1>1 DEF vars, IInv, TypeOK, Counted, SpawnPassed, Passed, OutcomeOnce, LoopOK
<1>2. ASSUME NEW w \in Workers, Analyse(w) PROVE IInv'
  <2>1. CASE ModuleUnwraps(w)
    <3>1. UNCHANGED <<prog, stack, pos, queue, jobs, clones, dstate, mstate, errors, tasks, lowered, mainpc, result>>
      BY <2>1 DEF ModuleUnwraps
    <3>. QED
      BY <3>1 DEF IInv, TypeOK, Counted, SpawnPassed, Passed, OutcomeOnce, LoopOK
  <2>. QED
    BY <1>2, <2>1, DemandDeclKeeps, ReadyKeeps, CallFnKeeps, SpawnTaskKeeps, ClaimModuleKeeps,
       PropagateKeeps, CompleteDeclKeeps, CompleteFuncKeeps, CompleteModuleKeeps, CompleteTaskKeeps
       DEF Analyse
<1>. QED
  BY <1>1, <1>2, YieldKeeps, ExitKeeps, LoopKeeps DEF Next

(* When compile() starts, it is the only unit that runs. *)
LEMMA InitHolds ==
  ASSUME Init
  PROVE  IInv
<1>1. /\ \A w \in Workers : queue[w] = <<>> /\ (w # Main => stack[w] = <<>>)
      /\ stack[Main] = <<Compile>> /\ Main \in Workers
  BY JobsAssumption DEF Init
<1>2. Compile \in Units /\ Compile \notin Jobs /\ Compile \notin Modules /\ Jobs \subseteq Units
  BY Apart
<1>3. TypeOK
  <2>1. stack \in [Workers -> Seq(Units)] /\ queue \in [Workers -> Seq(Jobs)]
    BY <1>2 DEF Init
  <2>2. pos \in [Units -> Nat] /\ prog \in Programs /\ clones \subseteq Jobs
    BY DEF Init
  <2>3. /\ jobs \in [Decls \cup Funcs -> {"absent", "queued", "done"}]
        /\ dstate \in [Decls -> {"unanalysed"} \cup Terminal]
        /\ mstate \in [Modules -> {"pending", "in_progress", "done"}]
    BY DEF Init
  <2>4. errors \in BOOLEAN /\ lowered \subseteq Funcs
    BY DEF Init
  <2>5. tasks \in Seq(Funcs)
    <3>1. tasks = <<>>
      BY DEF Init
    <3>. QED  BY <3>1, EmptySeq
  <2>. QED  BY <2>1, <2>2, <2>3, <2>4, <2>5 DEF TypeOK
<1>4. \A w \in Workers : 1 .. Len(queue[w]) = {} /\ (w # Main => 1 .. Len(stack[w]) = {})
  <2>1. Len(<<>>) = 0
    BY EmptySeq
  <2>2. 1 .. 0 = {}
    OBVIOUS
  <2>. QED  BY <1>1, <2>1, <2>2
<1>5. 1 .. Len(stack[Main]) = {1} /\ stack[Main][1] = Compile /\ stack[Main] # <<>>
  BY <1>1
<1>6. \A u : ~In(queue, u) /\ (In(stack, u) <=> u = Compile)
  BY <1>1, <1>4, <1>5 DEF In
<1>7. Placed(stack, queue, clones, mstate)
  <2>1. Alone(queue) /\ Alone(stack)
    BY <1>1, <1>4, <1>5 DEF Alone
  <2>2. Bottoms(stack)
    BY <1>1, <1>5 DEF Bottoms
  <2>3. clones = {} /\ \A m \in Modules : mstate[m] # "in_progress"
    BY DEF Init
  <2>. QED  BY <1>2, <1>6, <2>1, <2>2, <2>3 DEF Placed
<1>8. Counted /\ SpawnPassed /\ OutcomeOnce
  BY <1>6 DEF Init, Counted, SpawnPassed, OutcomeOnce, Terminal
<1>9. LoopOK
  BY DEF Init, LoopOK, Quiet
<1>. QED
  BY <1>3, <1>7, <1>8, <1>9 DEF IInv

(* The inductive invariant of the job system. *)
THEOREM JobsInvariant == Spec => []IInv
<1>1. Init => IInv
  BY InitHolds
<1>2. IInv /\ [Next]_vars => IInv'
  BY StepKeeps
<1>. QED
  BY <1>1, <1>2, PTL DEF Spec

(* analyze_sema_unit_if_needed and the two starting closures never analyse *)
(* a unit twice: a closure is in one queue or on one stack, as long as it  *)
(* holds its clone of the Arc.                                             *)
THEOREM JobsOneClosure == Spec => []OneClosurePerUnit
<1>1. IInv => OneClosurePerUnit
  <2>. SUFFICES ASSUME IInv, NEW u \in Jobs
                PROVE  /\ \A p, q \in Places(u) : p = q
                       /\ u \in clones <=> Places(u) # {}
    BY DEF OneClosurePerUnit
  <2>1. \A w \in Workers : DOMAIN queue[w] = 1 .. Len(queue[w]) /\ DOMAIN stack[w] = 1 .. Len(stack[w])
    BY DEF IInv, TypeOK
  <2>2. ASSUME NEW p \in Places(u)
        PROVE  \E w \in Workers :
                 \/ \E i \in 1 .. Len(queue[w]) : queue[w][i] = u /\ p = <<"queue", w, i>>
                 \/ \E i \in 1 .. Len(stack[w]) : stack[w][i] = u /\ p = <<"stack", w, i>>
    BY <2>1 DEF Places
  <2>3. Alone(queue) /\ Alone(stack) /\ ~(In(stack, u) /\ In(queue, u))
        /\ (u \in clones <=> In(stack, u) \/ In(queue, u))
    BY DEF IInv, Placed
  <2>4. ASSUME NEW p \in Places(u), NEW q \in Places(u) PROVE p = q
    <3>1. PICK w \in Workers :
            \/ \E i \in 1 .. Len(queue[w]) : queue[w][i] = u /\ p = <<"queue", w, i>>
            \/ \E i \in 1 .. Len(stack[w]) : stack[w][i] = u /\ p = <<"stack", w, i>>
      BY <2>2
    <3>2. PICK v \in Workers :
            \/ \E i \in 1 .. Len(queue[v]) : queue[v][i] = u /\ q = <<"queue", v, i>>
            \/ \E i \in 1 .. Len(stack[v]) : stack[v][i] = u /\ q = <<"stack", v, i>>
      BY <2>2
    <3>3. CASE \E i \in 1 .. Len(queue[w]) : queue[w][i] = u /\ p = <<"queue", w, i>>
      <4>1. PICK i \in 1 .. Len(queue[w]) : queue[w][i] = u /\ p = <<"queue", w, i>>
        BY <3>3
      <4>2. ~In(stack, u)
        BY <2>3, <4>1 DEF In
      <4>3. PICK j \in 1 .. Len(queue[v]) : queue[v][j] = u /\ q = <<"queue", v, j>>
        BY <3>2, <4>2 DEF In
      <4>4. w = v /\ i = j
        BY <2>3, <4>1, <4>3, OnePlace
      <4>. QED  BY <4>1, <4>3, <4>4
    <3>4. CASE \E i \in 1 .. Len(stack[w]) : stack[w][i] = u /\ p = <<"stack", w, i>>
      <4>1. PICK i \in 1 .. Len(stack[w]) : stack[w][i] = u /\ p = <<"stack", w, i>>
        BY <3>4
      <4>2. ~In(queue, u)
        BY <2>3, <4>1 DEF In
      <4>3. PICK j \in 1 .. Len(stack[v]) : stack[v][j] = u /\ q = <<"stack", v, j>>
        BY <3>2, <4>2 DEF In
      <4>4. w = v /\ i = j
        BY <2>3, <4>1, <4>3, OnePlace
      <4>. QED  BY <4>1, <4>3, <4>4
    <3>. QED  BY <3>1, <3>3, <3>4
  <2>5. Places(u) # {} => In(stack, u) \/ In(queue, u)
    BY <2>2 DEF In
  <2>6. ASSUME In(stack, u) \/ In(queue, u) PROVE Places(u) # {}
    <3>1. ASSUME NEW w \in Workers, NEW i \in 1 .. Len(queue[w]), queue[w][i] = u
          PROVE  <<"queue", w, i>> \in Places(u)
      BY <2>1, <3>1 DEF Places
    <3>2. ASSUME NEW w \in Workers, NEW i \in 1 .. Len(stack[w]), stack[w][i] = u
          PROVE  <<"stack", w, i>> \in Places(u)
      BY <2>1, <3>2 DEF Places
    <3>. QED  BY <2>6, <3>1, <3>2 DEF In
  <2>. QED  BY <2>3, <2>4, <2>5, <2>6
<1>. QED
  BY <1>1, JobsInvariant, PTL

(* The unreachable! of job_sema_analyze_unit is never reached: a           *)
(* declaration whose job waits in a queue has no outcome yet.              *)
THEOREM JobsStart == Spec => []StartsUnanalysed
<1>1. IInv => StartsUnanalysed
  <2>. SUFFICES ASSUME IInv, NEW d \in Decls, NEW w \in Workers,
                       NEW i \in DOMAIN queue[w], queue[w][i] = d
                PROVE  dstate[d] = "unanalysed"
    BY DEF StartsUnanalysed
  <2>1. DOMAIN queue[w] = 1 .. Len(queue[w])
    BY DEF IInv, TypeOK
  <2>2. In(queue, d)
    BY <2>1 DEF In
  <2>. QED  BY <2>2 DEF IInv, OutcomeOnce
<1>. QED
  BY <1>1, JobsInvariant, PTL

(* The strong count and codegen_tasks, read at different moments, are      *)
(* enough: compile() returns after every job has ended.                    *)
THEOREM JobsReturn == Spec => []ReturnsAfterAll
<1>1. IInv => ReturnsAfterAll
  <2>. SUFFICES ASSUME IInv, result # "none"
                PROVE  /\ tasks = <<>>
                       /\ \A w \in Workers : queue[w] = <<>> /\ (w # Main => stack[w] = <<>>)
                       /\ \A u \in Decls \cup Funcs : jobs[u] # "queued"
    BY DEF ReturnsAfterAll
  <2>1. mainpc = "returned" /\ tasks = <<>> /\ mainpc \in Quiet /\ clones = {}
    BY DEF IInv, LoopOK, Quiet
  <2>2. \A w \in Workers : queue[w] = <<>>
    BY <2>1, Idle
  <2>3. ASSUME NEW w \in Workers, w # Main, stack[w] # <<>> PROVE FALSE
    <3>1. stack[w][1] \in Jobs /\ stack[w] \in Seq(Units)
      BY <2>3 DEF IInv, TypeOK, Placed, Bottoms
    <3>2. 1 \in 1 .. Len(stack[w])
      BY <2>3, <3>1, LenProperties, EmptySeq
    <3>3. In(stack, stack[w][1])
      BY <3>2 DEF In
    <3>. QED  BY <2>1, <3>1, <3>3 DEF IInv, Placed
  <2>4. \A u \in Decls \cup Funcs : jobs[u] # "queued"
    BY <2>1 DEF IInv, Counted
  <2>. QED  BY <2>1, <2>2, <2>3, <2>4
<1>. QED
  BY <1>1, JobsInvariant, PTL
-------------------------------------------------------------------------------
(* The body of a unit ends. *)
Ends(w) == CompleteDecl(w) \/ CompleteFunc(w) \/ CompleteModule(w) \/ CompleteTask(w)

(* A body ends after its last request. *)
LEMMA EndsFacts ==
  ASSUME NEW w \in Workers, Ends(w)
  PROVE  AtEnd(w) /\ Finish(w) /\ (Top(w) \in Funcs => CompleteFunc(w))
<1>1. Funcs \cap Decls = {} /\ Funcs \cap Modules = {} /\ Funcs \cap (Tasks \cup {Compile}) = {}
  BY Apart DEF Jobs
<1>2. CASE CompleteDecl(w)
  BY <1>1, <1>2 DEF CompleteDecl
<1>3. CASE CompleteFunc(w)
  BY <1>3 DEF CompleteFunc
<1>4. CASE CompleteModule(w)
  BY <1>1, <1>4 DEF CompleteModule
<1>5. CASE CompleteTask(w)
  BY <1>1, <1>5 DEF CompleteTask
<1>. QED
  BY <1>2, <1>3, <1>4, <1>5 DEF Ends

(* Which steps change what. *)
Effect ==
  /\ prog' = prog
  /\ dstate' = dstate \/ \E w \in Workers : Propagate(w) \/ CompleteDecl(w)
  /\ mstate' = mstate \/ \E w \in Workers : ClaimModule(w) \/ CompleteModule(w)
  /\ jobs' = jobs \/ \E w \in Workers : DemandDecl(w) \/ CallFn(w) \/ Exit(w)
  /\ \/ clones' = clones
     \/ \E w \in Workers : DemandDecl(w) \/ CallFn(w) \/ SpawnTask(w) \/ Exit(w)
  /\ errors' = errors \/ \E w \in Workers : CompleteDecl(w) \/ CompleteFunc(w)
  /\ (tasks' = tasks /\ lowered' = lowered) \/ Lower \/ \E w \in Workers : CompleteFunc(w)
  /\ result' = result \/ Return
  /\ \/ pos' = pos
     \/ \E w \in Workers :
          \/ DeclReady(w) \/ ModuleReady(w) \/ CallFn(w) \/ SpawnTask(w) \/ Propagate(w)
          \/ Ends(w)

(* Every step has one of these effects. *)
LEMMA Effects ==
  ASSUME [Next]_vars
  PROVE  Effect
<1>1. CASE UNCHANGED vars
  BY <1>1 DEF vars, Effect
<1>2. ASSUME NEW w \in Workers, Analyse(w) PROVE Effect
  <2>1. CASE DemandDecl(w)      BY <2>1 DEF DemandDecl, Effect
  <2>2. CASE DeclReady(w)       BY <2>2 DEF DeclReady, Effect
  <2>3. CASE CallFn(w)          BY <2>3 DEF CallFn, Effect
  <2>4. CASE SpawnTask(w)       BY <2>4 DEF SpawnTask, Effect
  <2>5. CASE ClaimModule(w)     BY <2>5 DEF ClaimModule, Effect
  <2>6. CASE ModuleReady(w)     BY <2>6 DEF ModuleReady, Effect
  <2>7. CASE Propagate(w)       BY <2>7 DEF Propagate, Effect
  <2>8. CASE ModuleUnwraps(w)   BY <2>8 DEF ModuleUnwraps, Effect
  <2>9. CASE CompleteDecl(w)    BY <2>9 DEF CompleteDecl, Effect, Ends
  <2>10. CASE CompleteFunc(w)   BY <2>10 DEF CompleteFunc, Effect, Ends
  <2>11. CASE CompleteModule(w) BY <2>11 DEF CompleteModule, Effect, Ends
  <2>12. CASE CompleteTask(w)   BY <2>12 DEF CompleteTask, Effect, Ends
  <2>. QED
    BY <1>2, <2>1, <2>2, <2>3, <2>4, <2>5, <2>6, <2>7, <2>8, <2>9, <2>10, <2>11, <2>12 DEF Analyse
<1>3. ASSUME NEW w \in Workers, Yield(w) PROVE Effect
  BY <1>3 DEF Yield, Effect
<1>4. ASSUME NEW w \in Workers, Exit(w) PROVE Effect
  BY <1>4 DEF Exit, Effect
<1>5. CASE Loop
  <2>1. CASE CheckCount         BY <2>1 DEF CheckCount, Effect
  <2>2. CASE CheckEmpty         BY <2>2 DEF CheckEmpty, Effect
  <2>3. CASE Lower              BY <2>3 DEF Lower, Effect
  <2>4. CASE MainYield          BY <2>4 DEF MainYield, Effect
  <2>5. CASE Return             BY <2>5 DEF Return, Effect
  <2>. QED
    BY <1>5, <2>1, <2>2, <2>3, <2>4, <2>5 DEF Loop
<1>. QED
  BY <1>1, <1>2, <1>3, <1>4, <1>5 DEF Next

(* Only the unit itself stores its outcome, before it ends. *)
LEMMA OutcomeKept ==
  ASSUME IInv, [Next]_vars, NEW d \in Decls, dstate[d] \in Terminal
  PROVE  dstate'[d] = dstate[d]
<1>1. CASE dstate' = dstate
  BY <1>1
<1>2. ASSUME NEW w \in Workers, Propagate(w) \/ CompleteDecl(w) PROVE dstate'[d] = dstate[d]
  <2>1. pos[Top(w)] # Over
    <3>1. CASE Propagate(w)
      BY <3>1, AsksFacts DEF Propagate, RequestFails, Asks, IInv
    <3>2. CASE CompleteDecl(w)
      BY <3>2, AtEndFacts DEF CompleteDecl, IInv
    <3>. QED  BY <1>2, <3>1, <3>2
  <2>2. d # Top(w)
    BY <2>1 DEF IInv, OutcomeOnce
  <2>3. dstate \in [Decls -> {"unanalysed"} \cup Terminal]
    BY DEF IInv, TypeOK
  <2>. QED  BY <1>2, <2>2, <2>3 DEF Propagate, CompleteDecl
<1>. QED
  BY <1>1, <1>2, Effects DEF Effect

(* What get_or_analyze_decl_value told a waiter stays true: no step        *)
(* changes the outcome of a declaration.                                   *)
THEOREM JobsOutcome == Spec => OutcomeFinal
<1>1. IInv /\ [Next]_vars
        => [\A d \in Decls : dstate[d] \in Terminal => dstate'[d] = dstate[d]]_vars
  BY OutcomeKept
<1>. QED
  BY <1>1, JobsInvariant, PTL DEF Spec, OutcomeFinal
-------------------------------------------------------------------------------
(* What has happened stays so. *)
LEMMA Stays ==
  ASSUME IInv, [Next]_vars
  PROVE  /\ prog' = prog
         /\ errors => errors'
         /\ \A u \in Units : pos[u] = Over => pos'[u] = Over
         /\ \A u \in Decls \cup Funcs : jobs[u] # "absent" => jobs'[u] # "absent"
         /\ \A m \in Modules : mstate[m] = "done" => mstate'[m] = "done"
         /\ \A u \in Jobs : u \in clones => u \in clones' \/ pos'[u] = Over
<1>1. prog' = prog /\ (errors => errors')
  <2>1. ASSUME NEW w \in Workers, CompleteDecl(w) PROVE errors => errors'
    BY <2>1 DEF CompleteDecl
  <2>2. ASSUME NEW w \in Workers, CompleteFunc(w) PROVE errors => errors'
    BY <2>2 DEF CompleteFunc
  <2>3. prog' = prog /\ (errors' = errors \/ \E w \in Workers : CompleteDecl(w) \/ CompleteFunc(w))
    BY Effects DEF Effect
  <2>. QED  BY <2>1, <2>2, <2>3
<1>2. \A u \in Units : pos[u] = Over => pos'[u] = Over
  <2>1. CASE pos' = pos
    BY <2>1
  <2>2. ASSUME NEW w \in Workers,
               \/ DeclReady(w) \/ ModuleReady(w) \/ CallFn(w) \/ SpawnTask(w) \/ Propagate(w)
               \/ Ends(w)
        PROVE  \A u \in Units : pos[u] = Over => pos'[u] = Over
    <3>1. /\ (InBody(w) \/ AtEnd(w)) /\ (Advance(w) \/ Finish(w))
      BY <2>2, EndsFacts DEF DeclReady, ModuleReady, CallFn, SpawnTask, Propagate, RequestFails, Asks
    <3>2. Running(w) /\ pos[Top(w)] # Over
      BY <3>1, AsksFacts, AtEndFacts DEF IInv
    <3>. QED  BY <3>1, <3>2, Moves DEF IInv
  <2>. QED  BY <2>1, <2>2, Effects DEF Effect
<1>3. /\ \A u \in Decls \cup Funcs : jobs[u] # "absent" => jobs'[u] # "absent"
  <2>1. ASSUME NEW w \in Workers, DemandDecl(w) \/ CallFn(w)
        PROVE  \A u \in Decls \cup Funcs : jobs[u] # "absent" => jobs'[u] # "absent"
    <3>1. InBody(w) /\ AnalyzeIfNeeded(w, Target(w)) /\ (Asks(w, "decl") \/ Asks(w, "fn"))
      BY <2>1 DEF DemandDecl, CallFn, Asks
    <3>2. Target(w) \in Decls \cup Funcs
      BY <3>1, AsksFacts DEF IInv
    <3>. QED  BY <3>1, <3>2, AnalyzeKeeps
  <2>2. ASSUME NEW w \in Workers, Exit(w)
        PROVE  \A u \in Decls \cup Funcs : jobs[u] # "absent" => jobs'[u] # "absent"
    BY <2>2 DEF Exit, IInv, TypeOK
  <2>. QED  BY <2>1, <2>2, Effects DEF Effect
<1>4. \A m \in Modules : mstate[m] = "done" => mstate'[m] = "done"
  BY Effects DEF Effect, ClaimModule, CompleteModule, IInv, TypeOK
<1>5. \A u \in Jobs : u \in clones => u \in clones' \/ pos'[u] = Over
  <2>1. ASSUME NEW w \in Workers, DemandDecl(w) \/ CallFn(w) \/ SpawnTask(w)
        PROVE  clones \subseteq clones'
    BY <2>1 DEF DemandDecl, CallFn, SpawnTask, AnalyzeIfNeeded, Spawn
  <2>2. ASSUME NEW w \in Workers, Exit(w)
        PROVE  \A u \in Jobs : u \in clones => u \in clones' \/ pos'[u] = Over
    BY <2>2 DEF Exit
  <2>. QED  BY <2>1, <2>2, Effects DEF Effect
<1>. QED
  BY <1>1, <1>2, <1>3, <1>4, <1>5

(* A program without errors had none before. *)
LEMMA CleanBefore ==
  ASSUME IInv, [Next]_vars, Clean'
  PROVE  Clean
BY Stays DEF Clean, NoSilentFailure

(* In such a program no request fails. *)
LEMMA CleanMeets ==
  ASSUME IInv, NoneFailed, Clean, NEW w \in Workers
  PROVE  ~RequestFails(w)
<1>. SUFFICES ASSUME RequestFails(w) PROVE FALSE
  OBVIOUS
<1>1. InBody(w)
  BY DEF RequestFails, Asks
<1>. QED
  BY <1>1, AsksFacts DEF IInv, RequestFails, NoneFailed, Clean

(* No declaration fails in a program without errors. *)
LEMMA NoneFailedKept ==
  ASSUME IInv, CleanInv, [Next]_vars
  PROVE  NoneFailed'
<1>. SUFFICES ASSUME Clean' PROVE \A d \in Decls : dstate'[d] # "failed"
  BY DEF NoneFailed
<1>1. Clean /\ NoneFailed
  BY CleanBefore DEF CleanInv
<1>2. \A w \in Workers : ~Propagate(w)
  BY <1>1, CleanMeets DEF Propagate
<1>3. ASSUME NEW w \in Workers, CompleteDecl(w) PROVE \A d \in Decls : dstate'[d] # "failed"
  <2>1. Top(w) \in Units /\ prog.verdict[Top(w)] \in Verdicts
    <3>1. Running(w) /\ prog \in Programs
      BY <1>3 DEF CompleteDecl, AtEnd, IInv, TypeOK
    <3>2. Top(w) \in Units
      BY <3>1, TopFacts DEF IInv
    <3>. QED  BY <3>1, <3>2, JobsAssumption
  <2>2. prog.verdict[Top(w)] = "ok"
    BY <1>1, <1>3, <2>1 DEF CompleteDecl, Clean, NoSilentFailure, Verdicts
  <2>3. dstate' = [dstate EXCEPT ![Top(w)] = "analysed"]
    BY <1>3, <2>2 DEF CompleteDecl
  <2>. QED  BY <1>1, <2>3 DEF NoneFailed, IInv, TypeOK
<1>. QED
  BY <1>1, <1>2, <1>3, Effects DEF Effect, NoneFailed

(* An answer stays. *)
LEMMA AnswerStays ==
  ASSUME IInv, [Next]_vars, NEW r \in Requests, Answered(r)
  PROVE  Answered(r)'
<1>1. CASE r.kind = "decl"
  <2>1. dstate[r.unit] = "analysed" /\ r.unit \in Decls
    BY <1>1, RequestFacts DEF Answered
  <2>2. dstate'[r.unit] = "analysed"
    BY <2>1, OutcomeKept DEF Terminal
  <2>. QED  BY <1>1, <2>2 DEF Answered
<1>2. CASE r.kind = "module"
  <2>1. mstate[r.unit] = "done" /\ r.unit \in Modules
    BY <1>2, RequestFacts DEF Answered
  <2>2. mstate'[r.unit] = "done"
    BY <2>1, Stays
  <2>. QED  BY <1>2, <2>2 DEF Answered
<1>3. CASE r.kind = "fn"
  <2>1. jobs[r.unit] # "absent" /\ r.unit \in Funcs
    BY <1>3, RequestFacts DEF Answered
  <2>2. jobs'[r.unit] # "absent"
    BY <2>1, Stays
  <2>. QED  BY <1>3, <2>2 DEF Answered
<1>4. CASE r.kind = "spawn"
  <2>1. (r.unit \in clones \/ pos[r.unit] = Over) /\ r.unit \in Tasks
    BY <1>4, RequestFacts DEF Answered
  <2>2. r.unit \in Jobs /\ r.unit \in Units
    BY <2>1 DEF Jobs, Units
  <2>3. r.unit \in clones' \/ pos'[r.unit] = Over
    BY <2>1, <2>2, Stays
  <2>. QED  BY <1>4, <2>3 DEF Answered
<1>. QED
  BY <1>1, <1>2, <1>3, <1>4, RequestFacts

(* A unit goes past a request when it has its answer. *)
LEMMA AnsweredFirst ==
  ASSUME IInv, [Next]_vars, NEW w \in Workers, NEW r, r = Request(w),
         DeclReady(w) \/ ModuleReady(w) \/ CallFn(w) \/ SpawnTask(w)
  PROVE  InBody(w) /\ Advance(w) /\ Answered(r)'
<1>1. InBody(w) /\ Advance(w) /\ r.unit = Target(w)
  BY DEF DeclReady, ModuleReady, CallFn, SpawnTask, Asks, Target
<1>2. CASE DeclReady(w)
  <2>1. r.kind = "decl" /\ dstate'[r.unit] = "analysed"
    BY <1>1, <1>2 DEF DeclReady, Asks
  <2>. QED  BY <1>1, <2>1 DEF Answered
<1>3. CASE ModuleReady(w)
  <2>1. r.kind = "module" /\ mstate'[r.unit] = "done"
    BY <1>1, <1>3 DEF ModuleReady, Asks
  <2>. QED  BY <1>1, <2>1 DEF Answered
<1>4. CASE CallFn(w)
  <2>1. r.kind = "fn" /\ r.unit \in Funcs /\ AnalyzeIfNeeded(w, r.unit)
    BY <1>1, <1>4, AsksFacts DEF CallFn, Asks, IInv
  <2>2. jobs'[r.unit] # "absent"
    BY <2>1, AnalyzeKeeps
  <2>. QED  BY <1>1, <2>1, <2>2 DEF Answered
<1>5. CASE SpawnTask(w)
  <2>1. r.kind = "spawn" /\ r.unit \in clones'
    BY <1>1, <1>5 DEF SpawnTask, Asks, Spawn
  <2>. QED  BY <1>1, <2>1 DEF Answered
<1>. QED
  BY <1>2, <1>3, <1>4, <1>5

(* What a step puts behind a unit is answered. *)
LEMMA NewlyPassed ==
  ASSUME IInv, NoneFailed, Clean, [Next]_vars,
         NEW u \in Units, NEW i \in 1 .. Len(prog.body[u]), NEW q, q = prog.body[u][i],
         pos'[u] = Over \/ i < pos'[u]
  PROVE  Passed(u, i) \/ Answered(q)'
<1>1. CASE pos' = pos
  BY <1>1 DEF Passed
<1>2. ASSUME NEW w \in Workers,
             DeclReady(w) \/ ModuleReady(w) \/ CallFn(w) \/ SpawnTask(w)
      PROVE  Passed(u, i) \/ Answered(q)'
  <2>0. PICK r : r = Request(w)
    OBVIOUS
  <2>1. InBody(w) /\ Advance(w) /\ Answered(r)'
    BY <1>2, <2>0, AnsweredFirst
  <2>2. /\ Top(w) \in Units /\ pos[Top(w)] \in Nat
        /\ r = prog.body[Top(w)][pos[Top(w)]]
    BY <2>0, <2>1, AsksFacts, TopFacts DEF IInv
  <2>3. /\ u # Top(w) => pos'[u] = pos[u]
        /\ u = Top(w) => pos'[u] = pos[u] + 1
    BY <2>1, <2>2 DEF Advance, IInv, TypeOK
  <2>4. CASE u = Top(w) /\ i = pos[u]
    <3>1. r = q
      BY <2>2, <2>4
    <3>. QED  BY <2>1, <3>1
  <2>5. CASE u = Top(w) /\ i # pos[u]
    <3>1. i \in Nat
      BY <2>1, <2>2, <2>5, TopFacts DEF IInv, InBody, Body
    <3>. QED  BY <2>2, <2>3, <2>5, <3>1 DEF Passed, Over
  <2>6. CASE u # Top(w)
    BY <2>3, <2>6 DEF Passed
  <2>. QED  BY <2>4, <2>5, <2>6
<1>3. ASSUME NEW w \in Workers, AtEnd(w), Finish(w)
      PROVE  Passed(u, i)
  <2>1. Top(w) \in Units /\ pos[Top(w)] = Len(prog.body[Top(w)]) + 1 /\ Len(prog.body[Top(w)]) \in Nat
    BY <1>3, AtEndFacts, TopFacts DEF IInv, Body
  <2>2. u # Top(w) => pos'[u] = pos[u]
    BY <1>3, <2>1 DEF Finish, IInv, TypeOK
  <2>. QED  BY <2>1, <2>2 DEF Passed
<1>4. \A w \in Workers : ~Propagate(w)
  BY CleanMeets DEF Propagate
<1>. QED
  BY <1>1, <1>2, <1>3, <1>4, Effects, EndsFacts DEF Effect

(* What is behind a unit is answered, always. *)
LEMMA PassedAnsweredKept ==
  ASSUME IInv, CleanInv, [Next]_vars
  PROVE  PassedAnswered'
<1>1. prog' = prog
  BY Stays
<1>2. SUFFICES ASSUME Clean', NEW u \in Units, NEW i \in 1 .. Len(prog.body[u]),
                      pos'[u] = Over \/ i < pos'[u], NEW q, q = prog.body[u][i]
               PROVE  Answered(q)'
  BY <1>1 DEF PassedAnswered, Passed
<1>3. Clean /\ NoneFailed /\ PassedAnswered
  BY <1>2, CleanBefore DEF CleanInv
<1>4. q \in Requests
  <2>1. prog.body[u] \in Seq(Requests)
    BY JobsAssumption DEF IInv, TypeOK
  <2>. QED  BY <1>2, <2>1, ElementOfSeq
<1>5. Passed(u, i) => Answered(q)
  BY <1>2, <1>3 DEF PassedAnswered
<1>. QED
  BY <1>2, <1>3, <1>4, <1>5, NewlyPassed, AnswerStays

(* The code generator gets a function at the end of its analysis, and      *)
(* codegen_tasks loses none.                                               *)
LEMMA HandOver ==
  ASSUME IInv, [Next]_vars, NEW f \in Funcs
  PROVE  /\ HandedOver(f) => HandedOver(f)'
         /\ HandedOver(f)' => HandedOver(f) \/ \E w \in Workers : CompleteFunc(w) /\ Top(w) = f
         /\ \A w \in Workers :
              CompleteFunc(w) /\ Top(w) = f /\ prog.verdict[f] = "ok" => HandedOver(f)'
<1>0. tasks \in Seq(Funcs) /\ Len(tasks) \in Nat
  <2>1. tasks \in Seq(Funcs)
    BY DEF IInv, TypeOK
  <2>. QED  BY <2>1, LenProperties
<1>1. CASE tasks' = tasks /\ lowered' = lowered
  <2>1. HandedOver(f)' <=> HandedOver(f)
    BY <1>1 DEF HandedOver
  <2>2. ASSUME NEW w \in Workers, CompleteFunc(w), Top(w) = f, prog.verdict[f] = "ok" PROVE FALSE
    <3>1. tasks' = Append(tasks, f)
      BY <2>2 DEF CompleteFunc
    <3>2. Len(tasks') = Len(tasks) + 1
      BY <1>0, <3>1, AppendProperties
    <3>. QED  BY <1>0, <1>1, <3>2
  <2>. QED  BY <2>1, <2>2
<1>2. CASE Lower
  <2>1. /\ tasks # <<>> /\ tasks' = Tail(tasks)
        /\ lowered' = lowered \cup {Head(tasks)} /\ mainpc' = mainpc /\ pos' = pos
    BY <1>2 DEF Lower
  <2>2. Len(tasks) >= 1
    BY <1>0, <2>1, EmptySeq
  <2>3. /\ Head(tasks) = tasks[1] /\ Len(tasks') = Len(tasks) - 1
        /\ \A k \in 1 .. Len(tasks') : tasks'[k] = tasks[k + 1]
    BY <1>0, <2>1, <2>2, HeadTailProperties
  <2>4. HandedOver(f) => HandedOver(f)'
    <3>. SUFFICES ASSUME NEW k \in 1 .. Len(tasks), tasks[k] = f, k # 1 PROVE HandedOver(f)'
      BY <2>1, <2>3 DEF HandedOver
    <3>1. k - 1 \in 1 .. Len(tasks') /\ tasks'[k - 1] = f
      BY <1>0, <2>3
    <3>. QED  BY <3>1 DEF HandedOver
  <2>5. HandedOver(f)' => HandedOver(f)
    <3>1. Head(tasks) = f => HandedOver(f)
      BY <1>0, <2>2, <2>3 DEF HandedOver
    <3>2. ASSUME NEW k \in 1 .. Len(tasks'), tasks'[k] = f PROVE HandedOver(f)
      <4>1. k + 1 \in 1 .. Len(tasks) /\ tasks[k + 1] = f
        BY <1>0, <2>2, <2>3, <3>2
      <4>. QED  BY <4>1 DEF HandedOver
    <3>3. lowered' = lowered \cup {Head(tasks)}
      BY <2>1
    <3>. QED  BY <3>1, <3>2, <3>3 DEF HandedOver
  <2>6. \A w \in Workers : ~CompleteFunc(w)
    <3>. SUFFICES ASSUME NEW w \in Workers, CompleteFunc(w) PROVE FALSE
      OBVIOUS
    <3>1. lowered' = lowered /\ tasks' \in {tasks, Append(tasks, Top(w))} /\ Top(w) \in Funcs
      BY DEF CompleteFunc
    <3>2. Len(Append(tasks, Top(w))) = Len(tasks) + 1
      BY <1>0, <3>1, AppendProperties
    <3>. QED  BY <1>0, <2>3, <3>1, <3>2
  <2>. QED  BY <2>4, <2>5, <2>6
<1>3. ASSUME NEW w \in Workers, CompleteFunc(w)
      PROVE  /\ HandedOver(f) => HandedOver(f)'
             /\ HandedOver(f)' => HandedOver(f) \/ Top(w) = f
  <2>1. lowered' = lowered /\ tasks' \in {tasks, Append(tasks, Top(w))} /\ Top(w) \in Funcs
    BY <1>3 DEF CompleteFunc
  <2>2. /\ Len(Append(tasks, Top(w))) = Len(tasks) + 1
        /\ Append(tasks, Top(w))[Len(tasks) + 1] = Top(w)
        /\ \A k \in 1 .. Len(tasks) : Append(tasks, Top(w))[k] = tasks[k]
    BY <1>0, <2>1, AppendProperties
  <2>. QED  BY <1>0, <2>1, <2>2 DEF HandedOver
<1>4. ASSUME NEW w \in Workers, CompleteFunc(w), Top(w) = f, prog.verdict[f] = "ok"
      PROVE  HandedOver(f)'
  <2>1. tasks' = Append(tasks, f)
    BY <1>4 DEF CompleteFunc
  <2>2. Len(tasks') = Len(tasks) + 1 /\ tasks'[Len(tasks) + 1] = f
    BY <1>0, <2>1, AppendProperties
  <2>. QED  BY <1>0, <2>2 DEF HandedOver
<1>. QED
  BY <1>1, <1>2, <1>3, <1>4, Effects DEF Effect

(* A function that was analysed is handed over. *)
LEMMA EndedHandedOverKept ==
  ASSUME IInv, CleanInv, [Next]_vars
  PROVE  EndedHandedOver'
<1>1. SUFFICES ASSUME Clean', NEW f \in Funcs, pos'[f] = Over
               PROVE  HandedOver(f)'
  BY DEF EndedHandedOver
<1>2. Clean /\ NoneFailed /\ EndedHandedOver /\ f \in Units
  BY <1>1, CleanBefore DEF CleanInv, Units, Jobs
<1>3. CASE pos[f] = Over
  BY <1>2, <1>3, HandOver DEF EndedHandedOver
<1>4. CASE pos[f] # Over
  <2>1. \A w \in Workers : ~Propagate(w)
    BY <1>2, CleanMeets DEF Propagate
  <2>2. ASSUME NEW w \in Workers,
               DeclReady(w) \/ ModuleReady(w) \/ CallFn(w) \/ SpawnTask(w)
        PROVE  FALSE
    <3>1. InBody(w) /\ Advance(w)
      BY <2>2 DEF DeclReady, ModuleReady, CallFn, SpawnTask, Asks
    <3>2. Top(w) \in Units /\ pos[Top(w)] \in Nat
      BY <3>1, TopFacts DEF InBody, IInv
    <3>. QED  BY <1>1, <1>2, <1>4, <3>1, <3>2 DEF Advance, Over, IInv, TypeOK
  <2>3. PICK w \in Workers : Ends(w)
    BY <1>1, <1>4, <2>1, <2>2, Effects DEF Effect
  <2>4. Top(w) = f
    BY <1>1, <1>2, <1>4, <2>3, EndsFacts DEF Finish, IInv, TypeOK
  <2>5. CompleteFunc(w)
    BY <2>3, <2>4, EndsFacts
  <2>6. prog.verdict[f] = "ok"
    <3>1. prog.verdict[f] \in Verdicts
      BY <1>2, JobsAssumption DEF IInv, TypeOK
    <3>2. prog.verdict[f] \notin {"error", "runtime"}
      BY <1>1, <2>4, <2>5 DEF CompleteFunc, Clean
    <3>. QED  BY <1>2, <3>1, <3>2 DEF Verdicts, Clean, NoSilentFailure
  <2>. QED  BY <2>4, <2>5, <2>6, HandOver
<1>. QED
  BY <1>3, <1>4

(* What is done or handed over has ended. *)
LEMMA EndedKept ==
  ASSUME IInv, CleanInv, [Next]_vars
  PROVE  Ended'
<1>0. Ended /\ \A u \in Units : pos[u] = Over => pos'[u] = Over
  BY Stays DEF CleanInv
<1>1. ASSUME NEW f \in Funcs, HandedOver(f)' PROVE pos'[f] = Over
  <2>1. f \in Units
    BY DEF Units, Jobs
  <2>2. CASE HandedOver(f)
    BY <1>0, <2>1, <2>2 DEF Ended
  <2>3. ASSUME NEW w \in Workers, CompleteFunc(w), Top(w) = f PROVE pos'[f] = Over
    BY <2>1, <2>3 DEF CompleteFunc, Finish, IInv, TypeOK
  <2>. QED  BY <1>1, <2>2, <2>3, HandOver
<1>2. ASSUME NEW u \in Decls \cup Funcs, jobs'[u] = "done" PROVE pos'[u] = Over
  <2>1. u \in Units
    BY DEF Units, Jobs
  <2>2. CASE jobs[u] = "done"
    BY <1>0, <2>1, <2>2 DEF Ended
  <2>3. ASSUME NEW w \in Workers, DemandDecl(w) \/ CallFn(w) PROVE jobs[u] = "done"
    <3>1. InBody(w) /\ AnalyzeIfNeeded(w, Target(w)) /\ (Asks(w, "decl") \/ Asks(w, "fn"))
      BY <2>3 DEF DemandDecl, CallFn, Asks
    <3>2. Target(w) \in Decls \cup Funcs
      BY <3>1, AsksFacts DEF IInv
    <3>. QED  BY <1>2, <3>1, <3>2, AnalyzeKeeps
  <2>4. ASSUME NEW w \in Workers, Exit(w) PROVE jobs[u] = "done" \/ pos'[u] = Over
    BY <1>2, <2>4 DEF Exit, IInv, TypeOK
  <2>. QED  BY <1>2, <2>2, <2>3, <2>4, Effects DEF Effect
<1>3. ASSUME NEW m \in Modules, mstate'[m] = "done" PROVE pos'[m] = Over
  <2>1. m \in Units
    BY DEF Units
  <2>2. CASE mstate[m] = "done"
    BY <1>0, <2>1, <2>2 DEF Ended
  <2>3. ASSUME NEW w \in Workers, ClaimModule(w) PROVE mstate[m] = "done"
    BY <1>3, <2>3 DEF ClaimModule, IInv, TypeOK
  <2>4. ASSUME NEW w \in Workers, CompleteModule(w), mstate[m] # "done" PROVE pos'[m] = Over
    <3>1. Top(w) = m
      BY <1>3, <2>4 DEF CompleteModule, IInv, TypeOK
    <3>. QED  BY <2>1, <2>4, <3>1 DEF CompleteModule, Finish, IInv, TypeOK
  <2>. QED  BY <1>3, <2>2, <2>3, <2>4, Effects DEF Effect
<1>. QED
  BY <1>1, <1>2, <1>3 DEF Ended

(* An object is the result of a program without errors. *)
LEMMA ObjectCleanKept ==
  ASSUME IInv, CleanInv, [Next]_vars
  PROVE  ObjectClean'
<1>1. SUFFICES ASSUME result' = "object", NoSilentFailure' PROVE Clean'
  BY DEF ObjectClean
<1>2. prog' = prog /\ NoSilentFailure
  BY <1>1, Stays DEF NoSilentFailure
<1>3. CASE Return
  <2>1. errors' = errors /\ prog.parsed = Modules /\ ~errors
    BY <1>1, <1>3 DEF Return
  <2>. QED  BY <1>1, <1>2, <2>1 DEF Clean
<1>4. CASE result' = result
  <2>1. Clean /\ mainpc \in Quiet
    BY <1>1, <1>2, <1>4 DEF CleanInv, ObjectClean, IInv, LoopOK, Quiet
  <2>2. ASSUME NEW w \in Workers, CompleteDecl(w) \/ CompleteFunc(w) PROVE FALSE
    <3>1. Running(w) /\ pos[Top(w)] # Over
      BY <2>2, AtEndFacts DEF CompleteDecl, CompleteFunc, IInv
    <3>. QED  BY <2>1, <3>1, Idle
  <2>3. errors' = errors
    BY <2>2, Effects DEF Effect
  <2>. QED  BY <1>1, <1>2, <2>1, <2>3 DEF Clean
<1>. QED
  BY <1>3, <1>4, Effects DEF Effect

(* Before the object is written nothing was lost: what a unit relied on    *)
(* has been analysed, and every function that was analysed is handed over. *)
THEOREM JobsClean == Spec => []CleanInv
<1>1. Init => CleanInv
  <2>. SUFFICES ASSUME Init PROVE CleanInv
    OBVIOUS
  <2>1. /\ \A u \in Units : pos[u] = 1
        /\ \A d \in Decls : dstate[d] = "unanalysed"
        /\ \A m \in Modules : mstate[m] = "pending"
        /\ \A u \in Decls \cup Funcs : jobs[u] = "absent"
        /\ lowered = {} /\ result = "none"
    BY DEF Init
  <2>2. tasks = <<>> /\ 1 .. Len(<<>>) = {}
    BY DEF Init
  <2>3. \A f \in Funcs : ~HandedOver(f) /\ pos[f] = 1
    BY <2>1, <2>2 DEF HandedOver, Units, Jobs
  <2>4. ASSUME NEW u \in Units, NEW i \in 1 .. Len(prog.body[u]) PROVE ~Passed(u, i)
    <3>1. prog.body[u] \in Seq(Requests)
      BY JobsAssumption DEF Init
    <3>2. i >= 1 /\ i \in Nat
      BY <3>1, LenProperties
    <3>. QED  BY <2>1, <3>2 DEF Passed, Over
  <2>5. NoneFailed /\ ObjectClean
    BY <2>1 DEF NoneFailed, ObjectClean
  <2>6. PassedAnswered
    BY <2>4 DEF PassedAnswered
  <2>7. EndedHandedOver /\ Ended
    BY <2>1, <2>3 DEF EndedHandedOver, Ended, Over
  <2>. QED  BY <2>5, <2>6, <2>7 DEF CleanInv
<1>2. IInv /\ CleanInv /\ [Next]_vars => CleanInv'
  BY NoneFailedKept, PassedAnsweredKept, EndedHandedOverKept, EndedKept, ObjectCleanKept DEF CleanInv
<1>. QED
  BY <1>1, <1>2, JobsInvariant, PTL DEF Spec

(* When compile() has returned the starting closures have run: each was    *)
(* spawned by a unit that has ended.                                       *)
LEMMA TasksEnded ==
  ASSUME IInv, CleanInv, Clean, mainpc = "returned"
  PROVE  \A u \in Tasks \cup {Compile} : pos[u] = Over
<1>1. clones = {} /\ pos[Compile] = Over
  BY DEF IInv, LoopOK, Quiet
<1>2. prog \in Programs /\ prog.body \in [Units -> Seq(Requests)]
  BY JobsAssumption DEF IInv, TypeOK
<1>3. ASSUME NEW u \in Units, pos[u] = Over, NEW i \in DOMAIN prog.body[u]
      PROVE  Answered(prog.body[u][i])
  <2>1. i \in 1 .. Len(prog.body[u])
    BY <1>2
  <2>. QED  BY <1>3, <2>1 DEF CleanInv, PassedAnswered, Passed
<1>4. PICK m \in Modules :
        /\ \E i \in DOMAIN prog.body[Compile] : prog.body[Compile][i] = Starting(RtTask)
        /\ \E i \in DOMAIN prog.body[RtTask] : prog.body[RtTask][i] = [kind |-> "module", unit |-> m]
        /\ \E i \in DOMAIN prog.body[m] : prog.body[m][i] = Starting(MainTask)
  BY <1>2, StartAssumption DEF StartsAll
<1>5. Compile \in Units /\ RtTask \in Units /\ m \in Units
  BY DEF Units, Jobs, Tasks
<1>6. pos[RtTask] = Over
  <2>1. Answered(Starting(RtTask))
    BY <1>1, <1>3, <1>4, <1>5
  <2>. QED  BY <1>1, <2>1 DEF Answered, Starting
<1>7. pos[m] = Over
  <2>1. Answered([kind |-> "module", unit |-> m])
    BY <1>3, <1>4, <1>5, <1>6
  <2>2. mstate[m] = "done"
    BY <2>1 DEF Answered
  <2>. QED  BY <2>2 DEF CleanInv, Ended
<1>8. pos[MainTask] = Over
  <2>1. Answered(Starting(MainTask))
    BY <1>3, <1>4, <1>5, <1>7
  <2>. QED  BY <1>1, <2>1 DEF Answered, Starting
<1>. QED
  BY <1>1, <1>6, <1>8 DEF Tasks

(* The object is complete: if no analysis fails without a diagnostic,      *)
(* compile() returns an object only with everything that main and the      *)
(* functions it contains need.                                             *)
THEOREM JobsObject == Spec => [](NoSilentFailure => ObjectComplete)
<1>1. IInv /\ CleanInv => (NoSilentFailure => ObjectComplete)
  <2>. SUFFICES ASSUME IInv, CleanInv, NoSilentFailure, result = "object",
                       NEW u \in lowered \cup Tasks \cup {Compile}, NEW i \in DOMAIN prog.body[u]
                PROVE  RequestMet(prog.body[u][i])
    BY DEF ObjectComplete
  <2>1. Clean /\ mainpc = "returned" /\ tasks = <<>> /\ clones = {}
    BY DEF CleanInv, ObjectClean, IInv, LoopOK, Quiet
  <2>2. pos[u] = Over /\ u \in Units
    <3>1. CASE u \in lowered
      <4>1. u \in Funcs /\ HandedOver(u)
        BY <3>1 DEF IInv, TypeOK, HandedOver
      <4>. QED  BY <4>1 DEF CleanInv, Ended, Units, Jobs
    <3>2. CASE u \in Tasks \cup {Compile}
      BY <2>1, <3>2, TasksEnded DEF Units, Jobs
    <3>. QED  BY <3>1, <3>2
  <2>3. PICK r \in Requests : r = prog.body[u][i] /\ Answered(r)
    <3>1. prog.body[u] \in Seq(Requests)
      BY <2>2, JobsAssumption DEF IInv, TypeOK
    <3>2. i \in 1 .. Len(prog.body[u]) /\ prog.body[u][i] \in Requests
      BY <3>1, ElementOfSeq
    <3>3. Answered(prog.body[u][i])
      BY <2>1, <2>2, <3>2 DEF CleanInv, PassedAnswered, Passed
    <3>. QED  BY <3>2, <3>3
  <2>4. CASE r.kind = "fn"
    <3>1. r.unit \in Funcs /\ jobs[r.unit] # "absent"
      BY <2>3, <2>4, RequestFacts DEF Answered
    <3>2. jobs[r.unit] = "done"
      BY <2>1, <3>1 DEF IInv, TypeOK, Counted
    <3>3. HandedOver(r.unit)
      BY <2>1, <3>1, <3>2 DEF CleanInv, Ended, EndedHandedOver
    <3>4. 1 .. Len(tasks) = {}
      BY <2>1
    <3>5. r.unit \in lowered
      BY <3>3, <3>4 DEF HandedOver
    <3>. QED  BY <2>3, <2>4, <3>5 DEF RequestMet
  <2>5. CASE r.kind = "decl"
    BY <2>3, <2>5 DEF RequestMet, Answered
  <2>6. CASE r.kind = "module"
    BY <2>3, <2>6 DEF RequestMet, Answered
  <2>7. CASE r.kind = "spawn"
    BY <2>3, <2>7 DEF RequestMet
  <2>. QED  BY <2>3, <2>4, <2>5, <2>6, <2>7, RequestFacts
<1>. QED
  BY <1>1, JobsInvariant, JobsClean, PTL
===============================================================================
