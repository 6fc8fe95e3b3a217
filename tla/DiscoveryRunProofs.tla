-------------------------- MODULE DiscoveryRunProofs --------------------------
(* The invariants of DiscoveryRun, for all runs, calls, jobs, portals,      *)
(* listings and ratings: what is queued in any regime, and what the tables  *)
(* say of a run when an operator waits for each answer and nothing crashes. *)
(* The last parts add that an id stands for one opportunity and that the    *)
(* limits stay as they are (decisions, refinement of RunLifecycle).         *)
EXTENDS DiscoveryLifecycle, FiniteSetTheorems, WellFoundedInduction, TLAPS

-----------------------------------------------------------------------------
(* Lists put together *)

(* What a step of the recursion makes of what came before.                  *)
Glued(f, seqs, n) ==
  f = [i \in 1 .. n |-> IF i = 1 THEN seqs[i] ELSE f[i - 1] \o seqs[i]]

LEMMA LeastCounterexample ==
  ASSUME NEW T, T \subseteq Nat, T # {}
  PROVE  \E k \in T : \A j \in T : k <= j
<1>1. PICK k \in T : \A j \in T : <<j, k>> \notin OpToRel(<, Nat)
  BY NatLessThanWellFounded, WFMin
<1>2. ASSUME NEW j \in T PROVE k <= j
  <2>1. ~(j < k)
    BY <1>1 DEF OpToRel
  <2>2. QED
    BY <2>1
<1>3. QED
  BY <1>2

LEMMA GlueExists ==
  ASSUME NEW seqs, NEW N \in Nat
  PROVE  \E f : Glued(f, seqs, N)
<1> DEFINE T == {n \in Nat : ~\E f : Glued(f, seqs, n)}
<1>1. SUFFICES ASSUME T # {} PROVE FALSE
  OBVIOUS
<1>2. PICK n \in T : \A j \in T : n <= j
  <2> HIDE DEF T
  <2>1. T \subseteq Nat
    BY DEF T
  <2>2. QED
    BY <1>1, <2>1, LeastCounterexample
<1>3. n # 0
  <2>1. 1 .. 0 = {} /\ Glued([i \in 1 .. 0 |-> 0], seqs, 0)
    BY DEF Glued
  <2>2. QED
    BY <2>1
<1>4. PICK f : Glued(f, seqs, n - 1)
  BY <1>2, <1>3
<1> DEFINE g == [i \in 1 .. n |-> IF i < n THEN f[i]
                                  ELSE IF i = 1 THEN seqs[i] ELSE f[i - 1] \o seqs[i]]
<1>5. Glued(g, seqs, n)
  <2>1. DOMAIN g = 1 .. n
    OBVIOUS
  <2>2. ASSUME NEW i \in 1 .. n
        PROVE  g[i] = IF i = 1 THEN seqs[i] ELSE g[i - 1] \o seqs[i]
    <3>1. CASE i < n
      <4>1. i \in 1 .. (n - 1) /\ g[i] = f[i] /\ (i # 1 => g[i - 1] = f[i - 1])
        BY <3>1
      <4>2. f[i] = IF i = 1 THEN seqs[i] ELSE f[i - 1] \o seqs[i]
        BY <1>4, <4>1 DEF Glued
      <4> HIDE DEF g
      <4>3. QED
        BY <4>1, <4>2
    <3>2. CASE i = n
      <4>1. g[i] = IF i = 1 THEN seqs[i] ELSE f[i - 1] \o seqs[i]
        BY <3>2
      <4>2. i # 1 => g[i - 1] = f[i - 1]
        BY <1>3, <3>2
      <4> HIDE DEF g
      <4>3. QED
        BY <4>1, <4>2
    <3>3. QED
      BY <3>1, <3>2
  <2>3. g = [i \in 1 .. n |-> g[i]]
    BY <2>1
  <2> HIDE DEF g
  <2>4. g = [i \in 1 .. n |-> IF i = 1 THEN seqs[i] ELSE g[i - 1] \o seqs[i]]
    BY <2>2, <2>3
  <2>5. QED
    BY <2>4 DEF Glued
<1>6. QED
  BY <1>5

(* FlattenSeq is the last value of such a function.                         *)
LEMMA FlattenIsGlued ==
  ASSUME NEW seqs, Len(seqs) \in Nat \ {0}
  PROVE  \E f : Glued(f, seqs, Len(seqs)) /\ FlattenSeq(seqs) = f[Len(seqs)]
<1> DEFINE N == Len(seqs)
           Def(f) == f = [i \in 1 .. N |-> IF i = 1 THEN seqs[i] ELSE f[i - 1] \o seqs[i]]
           g == CHOOSE f : Def(f)
<1>1. PICK h : Glued(h, seqs, N)
  BY GlueExists
<1>2. Def(h)
  BY <1>1 DEF Glued
<1>3. Def(g)
  BY <1>2
<1>4. FlattenSeq(seqs) = g[N]
  BY DEF FlattenSeq
<1>5. Glued(g, seqs, N)
  BY <1>3 DEF Glued
<1>6. QED
  BY <1>4, <1>5

(* Each entry of out is an entry of one of the first n parts, no two the    *)
(* same: x comes from position v[x] of part u[x].                           *)
Sources(out, seqs, n, u, v) ==
  /\ \A x \in DOMAIN out : /\ u[x] \in 1 .. n
                           /\ v[x] \in DOMAIN seqs[u[x]]
                           /\ out[x] = seqs[u[x]][v[x]]
  /\ \A x, y \in DOMAIN out : u[x] = u[y] /\ v[x] = v[y] => x = y

LEMMA SourcesGrow ==
  ASSUME NEW S, NEW seqs \in Seq(Seq(S)), NEW n \in 1 .. Len(seqs), NEW out \in Seq(S),
         NEW k \in Nat, k < n, NEW u, NEW v, Sources(out, seqs, k, u, v)
  PROVE  /\ out \o seqs[n] \in Seq(S)
         /\ \E p, q : Sources(out \o seqs[n], seqs, n, p, q)
<1> DEFINE L == Len(out)
           M == Len(seqs[n])
           p == [x \in 1 .. (L + M) |-> IF x <= L THEN u[x] ELSE n]
           q == [x \in 1 .. (L + M) |-> IF x <= L THEN v[x] ELSE x - L]
           w == out \o seqs[n]
<1>1. seqs[n] \in Seq(S) /\ L \in Nat /\ M \in Nat
  OBVIOUS
<1>2. /\ w \in Seq(S) /\ DOMAIN w = 1 .. (L + M)
      /\ \A x \in 1 .. (L + M) : w[x] = IF x <= L THEN out[x] ELSE seqs[n][x - L]
  BY <1>1
<1>3. DOMAIN out = 1 .. L /\ DOMAIN seqs[n] = 1 .. M
  BY <1>1
<1>4. ASSUME NEW x \in 1 .. (L + M)
      PROVE  /\ p[x] \in 1 .. n /\ q[x] \in DOMAIN seqs[p[x]] /\ w[x] = seqs[p[x]][q[x]]
             /\ x <= L => p[x] = u[x] /\ q[x] = v[x] /\ x \in DOMAIN out /\ p[x] # n
             /\ x > L => p[x] = n /\ q[x] = x - L
  <2>1. CASE x <= L
    <3>1. p[x] = u[x] /\ q[x] = v[x] /\ x \in DOMAIN out /\ w[x] = out[x]
      BY <1>1, <1>2, <1>3, <2>1
    <3>2. u[x] \in 1 .. k /\ v[x] \in DOMAIN seqs[u[x]] /\ out[x] = seqs[u[x]][v[x]]
      BY <3>1 DEF Sources
    <3>3. u[x] \in 1 .. n /\ u[x] # n
      BY <3>2
    <3> HIDE DEF p, q, w, L
    <3>4. QED
      BY <2>1, <3>1, <3>2, <3>3, <1>1
  <2>2. CASE x > L
    <3>1. p[x] = n /\ q[x] = x - L /\ x - L \in 1 .. M /\ w[x] = seqs[n][x - L]
      BY <1>1, <1>2, <2>2
    <3> HIDE DEF p, q, w, L, M
    <3>2. QED
      BY <1>1, <1>3, <2>2, <3>1
  <2>3. QED
    BY <1>1, <2>1, <2>2
<1> HIDE DEF p, q, w, L, M
<1>5. ASSUME NEW x \in 1 .. (L + M), NEW y \in 1 .. (L + M), p[x] = p[y], q[x] = q[y]
      PROVE  x = y
  <2>1. CASE x <= L /\ y <= L
    <3>1. x \in DOMAIN out /\ y \in DOMAIN out /\ u[x] = u[y] /\ v[x] = v[y]
      BY <1>4, <1>5, <2>1
    <3>2. QED
      BY <3>1 DEF Sources
  <2>2. CASE x > L /\ y > L
    <3>1. q[x] = x - L /\ q[y] = y - L
      BY <1>4, <2>2
    <3>2. x - L = y - L
      BY <1>5, <3>1, Zenon
    <3>3. x \in Nat /\ y \in Nat
      BY <1>1
    <3>4. QED
      BY <1>1, <3>2, <3>3
  <2>3. CASE ~(x <= L <=> y <= L)
    <3>1. ~(p[x] = n <=> p[y] = n)
      BY <1>1, <1>4, <2>3
    <3>2. QED
      BY <1>5, <3>1
  <2>4. QED
    BY <1>1, <2>1, <2>2, <2>3
<1>6. Sources(w, seqs, n, p, q)
  BY <1>2, <1>4, <1>5 DEF Sources
<1>7. QED
  BY <1>2, <1>6 DEF w

(* Flattening keeps the type, and its entries come from where they stood.   *)
LEMMA FlattenFacts ==
  ASSUME NEW S, NEW seqs \in Seq(Seq(S))
  PROVE  /\ FlattenSeq(seqs) \in Seq(S)
         /\ \E u, v : Sources(FlattenSeq(seqs), seqs, Len(seqs), u, v)
<1> DEFINE N == Len(seqs)
<1>1. CASE N = 0
  <2>1. seqs = <<>> /\ FlattenSeq(seqs) = <<>>
    BY <1>1 DEF FlattenSeq
  <2>2. <<>> \in Seq(S) /\ DOMAIN <<>> = {}
    OBVIOUS
  <2>3. Sources(<<>>, seqs, N, 0, 0)
    BY <2>2 DEF Sources
  <2>4. QED
    BY <2>1, <2>2, <2>3
<1>2. CASE N # 0
  <2>1. N \in Nat \ {0}
    BY <1>2
  <2>2. PICK f : Glued(f, seqs, N) /\ FlattenSeq(seqs) = f[N]
    BY <2>1, FlattenIsGlued
  <2>3. \A i \in 1 .. N : f[i] = IF i = 1 THEN seqs[i] ELSE f[i - 1] \o seqs[i]
    BY <2>2 DEF Glued
  <2> DEFINE Good(n) == f[n] \in Seq(S) /\ \E u, v : Sources(f[n], seqs, n, u, v)
             T == {n \in 1 .. N : ~Good(n)}
  <2>4. T = {}
    <3>1. SUFFICES ASSUME T # {} PROVE FALSE
      OBVIOUS
    <3>2. PICK n \in T : \A j \in T : n <= j
      <4> HIDE DEF Good
      <4>1. T \subseteq Nat
        OBVIOUS
      <4> HIDE DEF T
      <4>2. QED
        BY <3>1, <4>1, LeastCounterexample
    <3>3. n \in 1 .. N /\ ~Good(n)
      BY <3>2
    <3>4. CASE n = 1
      <4>1. <<>> \in Seq(S) /\ Sources(<<>>, seqs, 0, 0, 0)
        BY DEF Sources
      <4>2. /\ <<>> \o seqs[n] \in Seq(S)
            /\ \E p, q : Sources(<<>> \o seqs[n], seqs, n, p, q)
        <5>1. 0 \in Nat /\ 0 < n /\ n \in 1 .. Len(seqs)
          BY <3>3
        <5> HIDE DEF Good
        <5>2. QED
          BY <4>1, <5>1, SourcesGrow
      <4>3. <<>> \o seqs[n] = f[n]
        BY <2>3, <3>3, <3>4
      <4>4. QED
        BY <3>3, <4>2, <4>3
    <3>5. CASE n # 1
      <4>1. n - 1 \in 1 .. N /\ n - 1 \notin T
        <5>1. n - 1 \in 1 .. N /\ ~(n <= n - 1)
          BY <2>1, <3>3, <3>5
        <5>2. QED
          BY <3>2, <5>1
      <4>2. Good(n - 1)
        BY <4>1
      <4>3. f[n] = f[n - 1] \o seqs[n]
        BY <2>3, <3>3, <3>5
      <4>4. PICK u, v : Sources(f[n - 1], seqs, n - 1, u, v)
        BY <4>2
      <4>5. f[n - 1] \in Seq(S) /\ n - 1 \in Nat /\ n - 1 < n /\ n \in 1 .. Len(seqs)
        BY <3>3, <4>1, <4>2
      <4>6. /\ f[n - 1] \o seqs[n] \in Seq(S)
            /\ \E p, q : Sources(f[n - 1] \o seqs[n], seqs, n, p, q)
        BY <4>4, <4>5, SourcesGrow
      <4>7. QED
        BY <3>3, <4>3, <4>6
    <3>6. QED
      BY <3>4, <3>5
  <2>5. Good(N)
    BY <2>1, <2>4
  <2>6. QED
    BY <2>2, <2>5
<1>3. QED
  BY <1>1, <1>2

-----------------------------------------------------------------------------
(* What is queued, in any regime *)

(* A scored job that may be queued in a run.                                *)
Clear(s, r) ==
  \/ Route(s.recommendation, s.verdict) = "queue"
  \/ Route(s.recommendation, s.verdict) = "human_review" /\ <<r, s.job, "queue">> \in said

Fields == {"next", "profile", "portals", "discovered", "jobs", "duplicates", "scored",
           "routed", "asked", "metrics"}

(* A checkpoint of run r, or its copy in a handler.  Nothing is routed      *)
(* before policy_guard is done.                                             *)
Sound(m, r) ==
  /\ DOMAIN m = Fields
  /\ m.next \in Nodes \cup {"absent", "END"}
  /\ \A i \in DOMAIN m.scored : m.scored[i].verdict \in Verdicts
  /\ m.next \notin {"finalize", "END"} => DOMAIN m.routed = {}
  /\ DOMAIN m.routed \subseteq DOMAIN m.scored
  /\ \A i \in DOMAIN m.routed : m.routed[i] = "queue" => Clear(m.scored[i], r)

SoundCall(c) ==
  /\ DOMAIN call[c] = {"pc", "run", "resumes", "pay", "view", "mem", "latest"}
  /\ call[c].pc \in {"idle", "lookup", "load", "run", "persist"}
  /\ call[c].pc = "idle" => call[c].mem = NoCheckpoint
  /\ call[c].pc # "idle" => call[c].run \in Run
  /\ \A j \in DOMAIN call[c].pay :
       call[c].pay[j] \in Answers /\ <<call[c].run, j, call[c].pay[j]>> \in said
  /\ Sound(call[c].mem, call[c].run)

ClearInv ==
  /\ DOMAIN thread = Run /\ \A r \in Run : Sound(thread[r], r)
  /\ DOMAIN call = Call /\ \A c \in Call : SoundCall(c)

LEMMA NothingIsDecided == DOMAIN Nothing = {}
<1>1. [j \in {} |-> "queue"] \in NoDecisions
  BY DEF NoDecisions, DecisionsFor
<1>2. Nothing \in NoDecisions
  BY <1>1 DEF Nothing
<1>3. QED
  BY <1>2 DEF NoDecisions, DecisionsFor

LEMMA NoCheckpointIsSound == ASSUME NEW r PROVE Sound(NoCheckpoint, r)
BY DEF Sound, NoCheckpoint, Fields, Nodes

LEMMA IdleIsSound ==
  ASSUME NEW c \in Call, call[c] = Idle
  PROVE  SoundCall(c)
<1>1. call[c] = [pc |-> "idle", run |-> NoRun, resumes |-> FALSE, pay |-> Nothing,
                 view |-> 0, mem |-> NoCheckpoint, latest |-> FALSE]
  BY DEF Idle
<1>2. QED
  BY <1>1, NothingIsDecided, NoCheckpointIsSound DEF SoundCall

(* A checkpoint keeps what it says while more is said.                      *)
LEMMA SoundIsStable ==
  ASSUME said \subseteq said', NEW m, NEW r, Sound(m, r)
  PROVE  Sound(m, r)'
BY DEF Sound, Clear

LEMMA SoundCallIsStable ==
  ASSUME said \subseteq said', NEW c \in Call, SoundCall(c), call'[c] = call[c]
  PROVE  SoundCall(c)'
<1>1. Sound(call[c].mem, call[c].run)'
  BY SoundIsStable DEF SoundCall
<1>2. QED
  BY <1>1 DEF SoundCall

LEMMA InitIsClear == Init => ClearInv
<1> SUFFICES ASSUME Init PROVE ClearInv
  OBVIOUS
<1>1. \A c \in Call : call[c] = Idle
  BY DEF Init
<1>2. \A r \in Run : thread[r] = NoCheckpoint
  BY DEF Init
<1>3. DOMAIN thread = Run /\ DOMAIN call = Call
  BY DEF Init
<1>4. QED
  BY <1>1, <1>2, <1>3, IdleIsSound, NoCheckpointIsSound DEF ClearInv

(* What a write of a checkpoint does to thread and calls.                   *)
LEMMA Written ==
  ASSUME ClearInv, NEW c \in Call, NEW r \in Run, NEW m, NEW label,
         WriteCheckpoint(c, r, m, label)
  PROVE  /\ DOMAIN thread' = Run /\ thread'[r] = m
         /\ \A s \in Run \ {r} : thread'[s] = thread[s]
         /\ DOMAIN call' = Call
         /\ call'[c] = [pc |-> label, run |-> r, resumes |-> FALSE, pay |-> Nothing,
                        view |-> 0, mem |-> m, latest |-> TRUE]
         /\ \A d \in Call \ {c} :
              /\ DOMAIN call'[d] = DOMAIN call[d]
              /\ call'[d].pc = call[d].pc /\ call'[d].run = call[d].run
              /\ call'[d].resumes = call[d].resumes /\ call'[d].pay = call[d].pay
              /\ call'[d].view = call[d].view /\ call'[d].mem = call[d].mem
              /\ call'[d].latest = (call[d].latest /\ call[d].run # r)
<1>1. thread' = [thread EXCEPT ![r] = m] /\ DOMAIN thread = Run
  BY DEF WriteCheckpoint, ClearInv
<1>2. /\ DOMAIN thread' = Run /\ thread'[r] = m
      /\ \A s \in Run \ {r} : thread'[s] = thread[s]
  BY <1>1
<1>3. DOMAIN call' = Call
  BY DEF WriteCheckpoint
<1>4. call'[c] = [Idle EXCEPT !.pc = label, !.run = r, !.mem = m, !.latest = TRUE]
  BY DEF WriteCheckpoint
<1>5. call'[c] = [pc |-> label, run |-> r, resumes |-> FALSE, pay |-> Nothing,
                  view |-> 0, mem |-> m, latest |-> TRUE]
  BY <1>4 DEF Idle
<1>6. ASSUME NEW d \in Call \ {c}
      PROVE  /\ DOMAIN call'[d] = DOMAIN call[d]
             /\ call'[d].pc = call[d].pc /\ call'[d].run = call[d].run
             /\ call'[d].resumes = call[d].resumes /\ call'[d].pay = call[d].pay
             /\ call'[d].view = call[d].view /\ call'[d].mem = call[d].mem
             /\ call'[d].latest = (call[d].latest /\ call[d].run # r)
  <2>1. call'[d] = [call[d] EXCEPT !.latest = @ /\ call[d].run # r]
    BY DEF WriteCheckpoint
  <2>2. DOMAIN call[d] = {"pc", "run", "resumes", "pay", "view", "mem", "latest"}
    BY DEF ClearInv, SoundCall
  <2>3. QED
    BY <2>1, <2>2
<1>7. QED
  BY <1>2, <1>3, <1>5, <1>6

LEMMA WriteKeepsClear ==
  ASSUME ClearInv, NEW c \in Call, NEW r \in Run, NEW m, NEW label \in {"run", "persist"},
         WriteCheckpoint(c, r, m, label), said' = said, Sound(m, r)
  PROVE  ClearInv'
<1> DEFINE newCall == [pc |-> label, run |-> r, resumes |-> FALSE, pay |-> Nothing,
                       view |-> 0, mem |-> m, latest |-> TRUE]
<1>w. /\ DOMAIN thread' = Run /\ thread'[r] = m
      /\ \A s \in Run \ {r} : thread'[s] = thread[s]
      /\ DOMAIN call' = Call
      /\ call'[c] = newCall
      /\ \A d \in Call \ {c} :
           /\ DOMAIN call'[d] = DOMAIN call[d]
           /\ call'[d].pc = call[d].pc /\ call'[d].run = call[d].run
           /\ call'[d].resumes = call[d].resumes /\ call'[d].pay = call[d].pay
           /\ call'[d].view = call[d].view /\ call'[d].mem = call[d].mem
           /\ call'[d].latest = (call[d].latest /\ call[d].run # r)
  BY Written, Zenon
<1>s. said \subseteq said'
  OBVIOUS
<1>1. ASSUME NEW s \in Run PROVE Sound(thread[s], s)'
  <2>1. (thread'[s] = m /\ s = r) \/ thread'[s] = thread[s]
    BY <1>w
  <2>2. Sound(thread'[s], s)
    BY <2>1 DEF ClearInv
  <2>3. QED
    BY <2>2 DEF Sound, Clear
<1>2. SoundCall(c)'
  <2>1. Sound(m, r)'
    BY <1>s, SoundIsStable, Zenon
  <2>2. QED
    BY <1>w, <2>1, NothingIsDecided DEF SoundCall
<1>3. ASSUME NEW d \in Call \ {c} PROVE SoundCall(d)'
  <2>2. SoundCall(d)
    BY DEF ClearInv
  <2>4. Sound(call[d].mem, call[d].run)
    BY <2>2 DEF SoundCall
  <2>5. Sound(call[d].mem, call[d].run)'
    <3>1. Sound(call'[d].mem, call'[d].run)
      BY <2>4, <1>w
    <3>2. QED
      BY <3>1 DEF Sound, Clear
  <2>6. QED
    BY <1>w, <2>2, <2>5 DEF SoundCall
<1>4. QED
  BY <1>1, <1>2, <1>3, <1>w DEF ClearInv

(* A step of one call that writes no checkpoint.                            *)
LEMMA CallKeepsClear ==
  ASSUME ClearInv, NEW c \in Call, thread' = thread, said \subseteq said',
         DOMAIN call' = Call, \A d \in Call \ {c} : call'[d] = call[d], SoundCall(c)'
  PROVE  ClearInv'
<1>1. ASSUME NEW r \in Run PROVE Sound(thread[r], r)'
  <2>1. Sound(thread'[r], r)
    BY DEF ClearInv
  <2>2. QED
    BY <2>1 DEF Sound, Clear
<1>2. ASSUME NEW d \in Call \ {c} PROVE SoundCall(d)'
  <2>1. SoundCall(d) /\ call'[d] = call[d]
    BY DEF ClearInv
  <2>2. QED
    BY <2>1, SoundCallIsStable, Zenon
<1>3. QED
  BY <1>1, <1>2 DEF ClearInv

LEMMA ReturnKeepsClear ==
  ASSUME ClearInv, NEW c \in Call, Return(c), thread' = thread, said' = said
  PROVE  ClearInv'
<1>1. /\ DOMAIN call' = Call /\ call'[c] = Idle /\ said \subseteq said'
      /\ \A d \in Call \ {c} : call'[d] = call[d]
  BY DEF Return, ClearInv
<1>2. call'[c] = [pc |-> "idle", run |-> NoRun, resumes |-> FALSE, pay |-> Nothing,
                 view |-> 0, mem |-> NoCheckpoint, latest |-> FALSE]
  BY <1>1 DEF Idle
<1>3. Sound(NoCheckpoint, NoRun)'
  BY <1>1, NoCheckpointIsSound, SoundIsStable, Zenon
<1>4. SoundCall(c)'
  BY <1>2, <1>3, NothingIsDecided DEF SoundCall
<1>5. QED
  BY <1>1, <1>4, CallKeepsClear, Zenon

(* An answer is sent as it travels.                                         *)
LEMMA SendKeepsClear ==
  ASSUME ClearInv, NEW c \in Call, NEW r \in Run, NEW decisions, NEW label \in {"lookup", "load"},
         NEW view, Send(c, r, decisions, label, view),
         \A j \in DOMAIN decisions : decisions[j] \in Answers
  PROVE  ClearInv'
<1>1. /\ thread' = thread
      /\ said' = said \cup {<<r, j, decisions[j]>> : j \in DOMAIN decisions}
      /\ call[c].pc = "idle"
  BY DEF Send
<1>2. /\ DOMAIN call' = Call /\ \A d \in Call \ {c} : call'[d] = call[d]
      /\ DOMAIN call'[c] = {"pc", "run", "resumes", "pay", "view", "mem", "latest"}
      /\ call'[c].pc = label /\ call'[c].run = r /\ call'[c].resumes = TRUE
      /\ call'[c].pay = decisions /\ call'[c].mem = NoCheckpoint
  <2>1. /\ DOMAIN call[c] = {"pc", "run", "resumes", "pay", "view", "mem", "latest"}
        /\ call[c].mem = NoCheckpoint
    BY <1>1 DEF ClearInv, SoundCall
  <2>2. call' = [call EXCEPT ![c].pc = label, ![c].run = r, ![c].resumes = TRUE,
                             ![c].pay = decisions, ![c].view = view]
    BY DEF Send
  <2>3. DOMAIN call = Call
    BY DEF ClearInv
  <2>4. QED
    BY <2>1, <2>2, <2>3
<1>3. said \subseteq said'
  BY <1>1
<1>4. \A j \in DOMAIN decisions : <<r, j, decisions[j]>> \in said'
  BY <1>1
<1>5. Sound(NoCheckpoint, r)'
  BY <1>3, NoCheckpointIsSound, SoundIsStable, Zenon
<1>6. SoundCall(c)'
  BY <1>2, <1>4, <1>5 DEF SoundCall
<1>7. QED
  BY <1>1, <1>2, <1>3, <1>6, CallKeepsClear, Zenon

(* A node keeps the invariant if the checkpoint it writes is sound.         *)
LEMMA CompleteKeepsClear ==
  ASSUME ClearInv, NEW c \in Call, NEW node, At(c, node), NEW update, NEW next,
         Complete(c, update, next),
         Sound([update EXCEPT !.next = next, !.asked = {}], call[c].run)
  PROVE  ClearInv'
<1> DEFINE m == [update EXCEPT !.next = next, !.asked = {}]
           label == IF next = "END" THEN "persist" ELSE "run"
<1>1. call[c].run \in Run
  BY DEF ClearInv, SoundCall, At
<1>2. WriteCheckpoint(c, call[c].run, m, label) /\ said' = said
  BY DEF Complete
<1>3. label \in {"run", "persist"}
  OBVIOUS
<1>4. Sound(m, call[c].run)
  OBVIOUS
<1> HIDE DEF m, label
<1>5. QED
  BY <1>1, <1>2, <1>3, <1>4, WriteKeepsClear, Zenon

(* Before policy_guard nothing is routed.                                   *)
LEMMA EarlyUpdateIsSound ==
  ASSUME NEW m, NEW r, Sound(m, r), NEW update, NEW next,
         m.next \notin {"finalize", "END"}, next \in Nodes \ {"finalize"},
         DOMAIN update = Fields, update.routed = m.routed,
         \A i \in DOMAIN update.scored : update.scored[i].verdict \in Verdicts
  PROVE  Sound([update EXCEPT !.next = next, !.asked = {}], r)
<1> DEFINE n == [update EXCEPT !.next = next, !.asked = {}]
<1>1. /\ DOMAIN n = Fields /\ n.next = next /\ n.routed = m.routed /\ n.scored = update.scored
  BY DEF Fields
<1>2. DOMAIN m.routed = {}
  BY DEF Sound
<1> HIDE DEF n
<1>3. Sound(n, r)
  BY <1>1, <1>2 DEF Sound
<1>4. QED
  BY <1>3 DEF n

LEMMA LimitsOnlyReject ==
  ASSUME NEW recommendation, NEW verdict \in Verdicts, NEW reached \in BOOLEAN
  PROVE  LET destination == Route(recommendation, Overall({verdict, BlockIf(reached)}))
         IN destination # "reject" => destination = Route(recommendation, verdict)
<1>1. CASE reached
  BY <1>1 DEF Route, Overall, BlockIf
<1>2. CASE ~reached
  <2>1. Overall({verdict, BlockIf(reached)}) = verdict
    BY <1>2 DEF Overall, BlockIf, Verdicts
  <2>2. QED
    BY <2>1
<1>3. QED
  BY <1>1, <1>2

(* What policy_guard routes to the queue may be queued.                     *)
LEMMA RoutedIsClear ==
  ASSUME NEW m, NEW r, Sound(m, r), NEW decisions,
         \A j \in DOMAIN decisions : <<r, j, decisions[j]>> \in said,
         NEW i \in DOMAIN m.scored, RouteAll(m, decisions)[i] = "queue"
  PROVE  Clear(m.scored[i], r)
<1> DEFINE s == m.scored[i]
<1>1. s.verdict \in Verdicts
  BY DEF Sound
<1>2. Destination(s) # "reject" => Destination(s) = Route(s.recommendation, s.verdict)
  BY <1>1, LimitsOnlyReject DEF Destination
<1>3. CASE i \in Review(m) /\ s.job \in DOMAIN decisions
  <2>1. decisions[s.job] = "queue" /\ Destination(s) = "human_review"
    BY <1>3 DEF RouteAll, Review
  <2>2. QED
    BY <1>2, <1>3, <2>1 DEF Clear
<1>4. CASE ~(i \in Review(m) /\ s.job \in DOMAIN decisions)
  BY <1>2, <1>4 DEF RouteAll, Clear
<1>5. QED
  BY <1>3, <1>4

(* What the nodes before policy_guard have in common: they leave routed and *)
(* metrics alone, and what they score has a verdict.                        *)
Quiet(c, node, update, next) ==
  /\ At(c, node) /\ Complete(c, update, next)
  /\ DOMAIN update = Fields /\ update.routed = call[c].mem.routed
  /\ update.metrics = call[c].mem.metrics
  /\ \A i \in DOMAIN update.scored : update.scored[i].verdict \in Verdicts

EarlyNode(c) ==
  \/ LoadCandidateProfile(c) \/ LoadSearchPolicy(c) \/ DiscoverPortals(c)
  \/ NormalizeJobs(c) \/ DedupeJobs(c) \/ ScoreJobs(c)

LEMMA EarlyNodesAreQuiet ==
  ASSUME ConstantsAssumption, NEW c \in Call, EarlyNode(c), DOMAIN call[c].mem = Fields,
         \A i \in DOMAIN call[c].mem.scored : call[c].mem.scored[i].verdict \in Verdicts
  PROVE  \E node, next, update :
           {node, next} \subseteq Nodes \ {"finalize"} /\ Quiet(c, node, update, next)
<1> DEFINE m == call[c].mem
<1> USE DEF Quiet
<1>1. CASE LoadCandidateProfile(c)
  <2>1. PICK found \in BOOLEAN :
          Complete(c, [m EXCEPT !.profile = found], "load_search_policy")
    BY <1>1 DEF LoadCandidateProfile
  <2> DEFINE u == [m EXCEPT !.profile = found]
  <2>2. /\ DOMAIN u = Fields /\ u.routed = m.routed /\ u.scored = m.scored
        /\ u.metrics = m.metrics /\ Complete(c, u, "load_search_policy")
    BY <2>1 DEF Fields
  <2> HIDE DEF u
  <2>3. QED
    BY <1>1, <2>2 DEF LoadCandidateProfile, Nodes
<1>2. CASE LoadSearchPolicy(c)
  <2>1. PICK list : Complete(c, [m EXCEPT !.portals = list], "discover_portal")
    BY <1>2 DEF LoadSearchPolicy
  <2> DEFINE u == [m EXCEPT !.portals = list]
  <2>2. /\ DOMAIN u = Fields /\ u.routed = m.routed /\ u.scored = m.scored
        /\ u.metrics = m.metrics /\ Complete(c, u, "discover_portal")
    BY <2>1 DEF Fields
  <2> HIDE DEF u
  <2>3. QED
    BY <1>2, <2>2 DEF LoadSearchPolicy, Nodes
<1>3. CASE DiscoverPortals(c)
  <2>1. PICK found : Complete(c, [m EXCEPT !.discovered = found], "normalize_jobs")
    BY <1>3 DEF DiscoverPortals
  <2> DEFINE u == [m EXCEPT !.discovered = found]
  <2>2. /\ DOMAIN u = Fields /\ u.routed = m.routed /\ u.scored = m.scored
        /\ u.metrics = m.metrics /\ Complete(c, u, "normalize_jobs")
    BY <2>1 DEF Fields
  <2> HIDE DEF u
  <2>3. QED
    BY <1>3, <2>2 DEF DiscoverPortals, Nodes
<1>4. CASE NormalizeJobs(c)
  <2>1. PICK list : Complete(c, [m EXCEPT !.jobs = list], "dedupe_jobs")
    BY <1>4 DEF NormalizeJobs
  <2> DEFINE u == [m EXCEPT !.jobs = list]
  <2>2. /\ DOMAIN u = Fields /\ u.routed = m.routed /\ u.scored = m.scored
        /\ u.metrics = m.metrics /\ Complete(c, u, "dedupe_jobs")
    BY <2>1 DEF Fields
  <2> HIDE DEF u
  <2>3. QED
    BY <1>4, <2>2 DEF NormalizeJobs, Nodes
<1>5. CASE DedupeJobs(c)
  <2>1. PICK list, repeats :
          Complete(c, [m EXCEPT !.jobs = list, !.duplicates = repeats], "score_jobs")
    BY <1>5 DEF DedupeJobs
  <2> DEFINE u == [m EXCEPT !.jobs = list, !.duplicates = repeats]
  <2>2. /\ DOMAIN u = Fields /\ u.routed = m.routed /\ u.scored = m.scored
        /\ u.metrics = m.metrics /\ Complete(c, u, "score_jobs")
    BY <2>1 DEF Fields
  <2> HIDE DEF u
  <2>3. QED
    BY <1>5, <2>2 DEF DedupeJobs, Nodes
<1>6. CASE ScoreJobs(c)
  <2> DEFINE Scored(rating) ==
        IF m.profile
          THEN [i \in DOMAIN m.jobs |->
                  [job |-> m.jobs[i].job, recommendation |-> rating[i].recommendation,
                   verdict |-> rating[i].verdict]]
          ELSE <<>>
  <2>1. PICK rating \in [DOMAIN m.jobs -> Ratings] :
          Complete(c, [m EXCEPT !.scored = Scored(rating)], "policy_guard")
    BY <1>6 DEF ScoreJobs
  <2>2. At(c, "score_jobs")
    BY <1>6 DEF ScoreJobs
  <2>3. \A i \in DOMAIN Scored(rating) : Scored(rating)[i].verdict \in Verdicts
    <3>1. CASE m.profile
      <4>1. \A i \in DOMAIN m.jobs : rating[i] \in Ratings
        BY <2>1
      <4>2. \A i \in DOMAIN m.jobs : rating[i].verdict \in Verdicts
        BY <4>1 DEF ConstantsAssumption
      <4>3. QED
        BY <3>1, <4>2
    <3>2. CASE ~m.profile
      BY <3>2
    <3>3. QED
      BY <3>1, <3>2
  <2> DEFINE scored == Scored(rating)
             u == [m EXCEPT !.scored = scored]
  <2>4. /\ Complete(c, u, "policy_guard")
        /\ \A i \in DOMAIN scored : scored[i].verdict \in Verdicts
    BY <2>1, <2>3
  <2> HIDE DEF scored
  <2>5. /\ DOMAIN u = Fields /\ u.routed = m.routed /\ u.scored = scored
        /\ u.metrics = m.metrics
    BY DEF Fields
  <2> HIDE DEF u
  <2>6. QED
    BY <2>2, <2>4, <2>5 DEF Nodes
<1>7. QED
  BY <1>1, <1>2, <1>3, <1>4, <1>5, <1>6 DEF EarlyNode

LEMMA EarlyNodesKeepClear ==
  ASSUME ConstantsAssumption, ClearInv, NEW c \in Call, EarlyNode(c)
  PROVE  ClearInv'
<1>1. PICK m, r : m = call[c].mem /\ r = call[c].run
  OBVIOUS
<1>2. /\ Sound(m, r) /\ DOMAIN m = Fields
      /\ \A i \in DOMAIN m.scored : m.scored[i].verdict \in Verdicts
  BY <1>1 DEF ClearInv, SoundCall, Sound
<1>3. PICK node, next, update :
        {node, next} \subseteq Nodes \ {"finalize"} /\ Quiet(c, node, update, next)
  BY <1>1, <1>2, EarlyNodesAreQuiet
<1>4. m.next \notin {"finalize", "END"}
  BY <1>1, <1>3 DEF Quiet, At, Nodes
<1>5. Sound([update EXCEPT !.next = next, !.asked = {}], r)
  BY <1>1, <1>2, <1>3, <1>4, EarlyUpdateIsSound DEF Quiet
<1>6. QED
  BY <1>1, <1>3, <1>5, CompleteKeepsClear DEF Quiet

LEMMA PolicyGuardKeepsClear ==
  ASSUME ClearInv, NEW c \in Call, PolicyGuard(c)
  PROVE  ClearInv'
<1> DEFINE m == call[c].mem
           r == call[c].run
           pay == call[c].pay
           paused == [m EXCEPT !.asked = JobsAt(m, Review(m))]
<1>1. /\ Sound(m, r) /\ DOMAIN m = Fields /\ SoundCall(c)
      /\ \A j \in DOMAIN pay : <<r, j, pay[j]>> \in said
  BY DEF ClearInv, SoundCall, Sound
<1>2. At(c, "policy_guard") /\ m.next = "policy_guard"
  BY DEF PolicyGuard, At
<1>3. CASE Complete(c, [m EXCEPT !.routed = RouteAll(m, pay)], "finalize")
  <2> DEFINE u == [m EXCEPT !.routed = RouteAll(m, pay)]
             n == [u EXCEPT !.next = "finalize", !.asked = {}]
  <2>1. /\ DOMAIN n = Fields /\ n.next = "finalize" /\ n.scored = m.scored
        /\ n.routed = RouteAll(m, pay)
    BY <1>1 DEF Fields
  <2>2. DOMAIN RouteAll(m, pay) = DOMAIN m.scored
    BY DEF RouteAll
  <2>3. \A i \in DOMAIN m.scored : RouteAll(m, pay)[i] = "queue" => Clear(m.scored[i], r)
    BY <1>1, RoutedIsClear
  <2>4. \A i \in DOMAIN m.scored : m.scored[i].verdict \in Verdicts
    BY <1>1 DEF Sound
  <2> HIDE DEF n
  <2>5. Sound(n, r)
    BY <2>1, <2>2, <2>3, <2>4 DEF Sound, Nodes
  <2>6. QED
    BY <1>2, <1>3, <2>5, CompleteKeepsClear DEF n
<1>4. CASE /\ call' = [call EXCEPT ![c].pc = "persist", ![c].mem = paused]
           /\ thread' = IF call[c].latest THEN [thread EXCEPT ![r] = paused] ELSE thread
           /\ said' = said
  <2>1. PICK p, run : p = paused /\ run = r
    OBVIOUS
  <2>2. /\ DOMAIN p = Fields /\ p.next = m.next /\ p.scored = m.scored
        /\ p.routed = m.routed
    BY <1>1, <2>1 DEF Fields
  <2>3. Sound(p, run)
    BY <1>1, <2>1, <2>2 DEF Sound
  <2> HIDE DEF paused
  <2>4. \A s \in Run : thread'[s] = thread[s] \/ (s = run /\ thread'[s] = p)
    BY <1>4, <2>1 DEF ClearInv
  <2>5. DOMAIN thread' = Run /\ DOMAIN call' = Call
    BY <1>4 DEF ClearInv
  <2>6. ASSUME NEW s \in Run PROVE Sound(thread[s], s)'
    <3>1. Sound(thread'[s], s)
      BY <2>3, <2>4 DEF ClearInv
    <3>2. QED
      BY <1>4, <3>1 DEF Sound, Clear
  <2>7. ASSUME NEW d \in Call \ {c} PROVE SoundCall(d)'
    <3>1. call'[d] = call[d] /\ SoundCall(d) /\ said \subseteq said'
      BY <1>4 DEF ClearInv
    <3>2. QED
      BY <3>1, SoundCallIsStable
  <2>8. SoundCall(c)'
    <3>1. /\ DOMAIN call'[c] = DOMAIN call[c]
          /\ call'[c].pc = "persist" /\ call'[c].run = run /\ call'[c].mem = p
          /\ call'[c].pay = pay
      BY <1>1, <1>4, <2>1 DEF ClearInv, SoundCall
    <3>2. Sound(p, run)'
      BY <1>4, <2>3 DEF Sound, Clear
    <3>3. run \in Run
      BY <1>1, <1>2, <2>1 DEF SoundCall, At
    <3>4. /\ DOMAIN call'[c] = {"pc", "run", "resumes", "pay", "view", "mem", "latest"}
          /\ \A j \in DOMAIN call'[c].pay :
               call'[c].pay[j] \in Answers /\ <<run, j, call'[c].pay[j]>> \in said'
      <4>1. \A j \in DOMAIN pay : pay[j] \in Answers /\ <<r, j, pay[j]>> \in said
        BY <1>1 DEF SoundCall
      <4>2. \A j \in DOMAIN pay : pay[j] \in Answers /\ <<run, j, pay[j]>> \in said
        BY <4>1, <2>1
      <4>3. DOMAIN call[c] = {"pc", "run", "resumes", "pay", "view", "mem", "latest"}
        BY <1>1 DEF SoundCall
      <4>4. call'[c].pay = pay /\ DOMAIN call'[c] = DOMAIN call[c] /\ said' = said
        BY <3>1, <1>4
      <4> HIDE DEF pay
      <4>5. QED
        BY <4>2, <4>3, <4>4
    <3>5. QED
      BY <3>1, <3>2, <3>3, <3>4 DEF SoundCall
  <2>9. QED
    BY <2>5, <2>6, <2>7, <2>8 DEF ClearInv
<1>5. QED
  BY <1>3, <1>4 DEF PolicyGuard

LEMMA FinalizeKeepsClear ==
  ASSUME ClearInv, NEW c \in Call, Finalize(c)
  PROVE  ClearInv'
<1> DEFINE m == call[c].mem
<1>1. Sound(m, call[c].run) /\ DOMAIN m = Fields /\ m.next = "finalize"
  BY DEF ClearInv, SoundCall, Sound, Finalize, At
<1>2. PICK metrics : Complete(c, [m EXCEPT !.metrics = metrics], "END")
  BY DEF Finalize
<1> DEFINE n == [[m EXCEPT !.metrics = metrics] EXCEPT !.next = "END", !.asked = {}]
<1>3. DOMAIN n = Fields /\ n.next = "END" /\ n.scored = m.scored /\ n.routed = m.routed
  BY <1>1 DEF Fields
<1> HIDE DEF n
<1>4. Sound(n, call[c].run)
  BY <1>1, <1>3 DEF Sound
<1>5. At(c, "finalize")
  BY DEF Finalize
<1>6. QED
  BY <1>2, <1>4, <1>5, CompleteKeepsClear DEF n

(* A call that moves on, the rest of it as it was.                          *)
LEMMA LoadKeepsClear ==
  ASSUME ClearInv, NEW c \in Call, Load(c)
  PROVE  ClearInv'
<1>1. PICK r, m, pc : /\ r = call[c].run /\ m = thread[r]
                      /\ pc = IF m.next = "END" THEN "persist" ELSE "run"
  OBVIOUS
<1>2. SoundCall(c) /\ r \in Run /\ Sound(m, r) /\ pc \in {"run", "persist"}
  BY <1>1 DEF Load, ClearInv, SoundCall
<1>3. /\ call' = [call EXCEPT ![c].pc = pc, ![c].mem = m, ![c].latest = TRUE]
      /\ thread' = thread /\ said' = said /\ DOMAIN call' = Call
  BY <1>1 DEF Load, ClearInv
<1>4. /\ DOMAIN call'[c] = DOMAIN call[c]
      /\ call'[c].pc = pc /\ call'[c].run = r /\ call'[c].mem = m
      /\ call'[c].pay = call[c].pay
  BY <1>1, <1>2, <1>3 DEF ClearInv, SoundCall
<1>5. Sound(m, r)'
  BY <1>2, <1>3 DEF Sound, Clear
<1>6. SoundCall(c)'
  BY <1>1, <1>2, <1>3, <1>4, <1>5 DEF SoundCall
<1>7. QED
  BY <1>3, <1>6, CallKeepsClear

LEMMA LookupKeepsClear ==
  ASSUME ClearInv, NEW c \in Call, Lookup(c)
  PROVE  ClearInv'
<1>1. thread' = thread /\ said' = said
  BY DEF Lookup
<1>2. CASE Return(c)
  BY <1>1, <1>2, ReturnKeepsClear
<1>3. CASE call' = [call EXCEPT ![c].pc = "load"]
  <2>1. SoundCall(c) /\ call[c].pc = "lookup"
    BY DEF Lookup, ClearInv
  <2>2. /\ DOMAIN call' = Call /\ \A d \in Call \ {c} : call'[d] = call[d]
        /\ DOMAIN call'[c] = DOMAIN call[c] /\ call'[c].pc = "load"
        /\ call'[c].run = call[c].run /\ call'[c].mem = call[c].mem
        /\ call'[c].pay = call[c].pay
    BY <1>3, <2>1 DEF ClearInv, SoundCall
  <2>3. Sound(call[c].mem, call[c].run)'
    <3>1. Sound(call'[c].mem, call'[c].run)
      BY <2>1, <2>2 DEF SoundCall
    <3>2. QED
      BY <1>1, <3>1 DEF Sound, Clear
  <2>4. SoundCall(c)'
    BY <1>1, <2>1, <2>2, <2>3 DEF SoundCall
  <2>5. QED
    BY <1>1, <2>2, <2>4, CallKeepsClear
<1>4. QED
  BY <1>2, <1>3 DEF Lookup

(* The decisions sent are decisions.                                        *)
LEMMA DecidedAreChoices ==
  ASSUME NEW jobs, NEW decisions \in Decided(jobs)
  PROVE  \A j \in DOMAIN decisions : decisions[j] \in Answers
BY DEF Decided, DecisionsFor

LEMMA RequestsKeepClear ==
  ASSUME ClearInv, NEW c \in Call, NEW r \in Run,
         StartRun(c, r) \/ Answer(c, r) \/ ResumeDirect(c, r)
  PROVE  ClearInv'
<1>1. CASE StartRun(c, r)
  <2> DEFINE m == [NoCheckpoint EXCEPT !.next = "load_candidate_profile"]
  <2>1. WriteCheckpoint(c, r, m, "run") /\ said' = said
    BY <1>1 DEF StartRun
  <2>2. Sound(m, r)
    BY DEF Sound, NoCheckpoint, Fields, Nodes
  <2>3. QED
    BY <2>1, <2>2, WriteKeepsClear
<1>2. CASE Answer(c, r)
  <2>1. PICK decisions \in Decided(queue[r].asked) : Send(c, r, decisions, "lookup", queue[r].id)
    BY <1>2 DEF Answer
  <2>2. QED
    BY <2>1, DecidedAreChoices, SendKeepsClear
<1>3. CASE ResumeDirect(c, r)
  <2>1. CASE \E decisions \in Decided(thread[r].asked) : Send(c, r, decisions, "load", 0)
    BY <2>1, DecidedAreChoices, SendKeepsClear
  <2>2. CASE Send(c, r, Nothing, "load", 0)
    BY <2>2, NothingIsDecided, SendKeepsClear
  <2>3. QED
    BY <1>3, <2>1, <2>2 DEF ResumeDirect
<1>4. QED
  BY <1>1, <1>2, <1>3

LEMMA CrashKeepsClear ==
  ASSUME ClearInv, Crash
  PROVE  ClearInv'
<1>1. /\ DOMAIN call' = Call /\ thread' = thread /\ said' = said
      /\ \A c \in Call : call'[c] = Idle
  BY DEF Crash
<1>2. ASSUME NEW c \in Call PROVE SoundCall(c)'
  <2>1. call'[c] = [pc |-> "idle", run |-> NoRun, resumes |-> FALSE, pay |-> Nothing,
                    view |-> 0, mem |-> NoCheckpoint, latest |-> FALSE]
    BY <1>1 DEF Idle
  <2>2. Sound(NoCheckpoint, NoRun)'
    BY <1>1, NoCheckpointIsSound, SoundIsStable
  <2>3. QED
    BY <2>1, <2>2, NothingIsDecided DEF SoundCall
<1>3. ASSUME NEW r \in Run PROVE Sound(thread[r], r)'
  BY <1>1 DEF ClearInv, Sound, Clear
<1>4. QED
  BY <1>1, <1>2, <1>3 DEF ClearInv

LEMMA StutterKeepsClear ==
  ASSUME ClearInv, thread' = thread, call' = call, said' = said
  PROVE  ClearInv'
BY DEF ClearInv, SoundCall, Sound, Clear

LEMMA NextKeepsClear ==
  ASSUME ConstantsAssumption, ClearInv, [Next]_vars
  PROVE  ClearInv'
<1>1. CASE \E c \in Call, r \in Run : StartRun(c, r) \/ Answer(c, r) \/ ResumeDirect(c, r)
  BY <1>1, RequestsKeepClear
<1>2. ASSUME NEW c \in Call, Proceed(c) PROVE ClearInv'
  <2>1. CASE Lookup(c) \/ Load(c)
    BY <2>1, LookupKeepsClear, LoadKeepsClear
  <2>2. CASE RunNode(c)
    BY <2>2, EarlyNodesKeepClear, PolicyGuardKeepsClear, FinalizeKeepsClear DEF RunNode, EarlyNode
  <2>3. CASE PersistRunResult(c)
    BY <2>3, ReturnKeepsClear DEF PersistRunResult
  <2>4. QED
    BY <1>2, <2>1, <2>2, <2>3 DEF Proceed
<1>3. CASE Crash
  BY <1>3, CrashKeepsClear
<1>4. CASE EditLimits
  BY <1>4, StutterKeepsClear DEF EditLimits
<1>5. CASE UNCHANGED vars
  BY <1>5, StutterKeepsClear DEF vars
<1>6. QED
  BY <1>1, <1>2, <1>3, <1>4, <1>5 DEF Next

(* The inductive invariant of what is queued.                               *)
THEOREM ClearInvariant == Spec => []ClearInv
<1>1. Init => ClearInv
  BY InitIsClear
<1>2. ClearInv /\ [Next]_vars => ClearInv'
  BY ConstantsAssumption, NextKeepsClear
<1>3. QED
  BY <1>1, <1>2, PTL DEF Spec

(* nodes.py:199-205: in every regime, with overlapping calls, crashes,      *)
(* partial answers and limits edited at any time, a job is queued only if   *)
(* score and guardrails allow it, or the operator said so and they leave it *)
(* to the operator.                                                         *)
THEOREM QueuedOnlyIfClearedHolds == Spec => []QueuedOnlyIfCleared
<1>1. ClearInv => QueuedOnlyIfCleared
  BY DEF ClearInv, Sound, Clear, QueuedOnlyIfCleared
<1>2. QED
  BY <1>1, ClearInvariant, PTL

-----------------------------------------------------------------------------
(* Types *)

LEMMA NothingIsAPayload == Nothing \in Payloads
<1>1. [j \in {} |-> "queue"] \in NoDecisions
  BY DEF NoDecisions, DecisionsFor
<1>2. Nothing \in NoDecisions
  BY <1>1 DEF Nothing
<1>3. QED
  BY <1>2 DEF NoDecisions, Payloads

(* What is decided about jobs is a payload about some of them.              *)
LEMMA DecidedArePayloads ==
  ASSUME NEW jobs \in SUBSET Job, NEW decisions \in Decided(jobs)
  PROVE  /\ decisions \in Payloads /\ DOMAIN decisions \subseteq jobs
         /\ \A j \in DOMAIN decisions : j \in Job /\ decisions[j] \in Answers
<1>1. PICK s \in SUBSET jobs : decisions \in [s -> Answers]
  BY DEF Decided, DecisionsFor
<1>2. decisions \in Payloads
  BY <1>1 DEF Payloads, DecisionsFor
<1>3. QED
  BY <1>1, <1>2

LEMMA NoCheckpointIsTyped == NoCheckpoint \in Checkpoints
<1>1. NoMetrics \in Metrics
  BY DEF NoMetrics, Metrics
<1>2. QED
  BY <1>1 DEF NoCheckpoint, Checkpoints

LEMMA IdleIsTyped == Idle \in Calls
  BY NothingIsAPayload, NoCheckpointIsTyped DEF Idle, Calls

LEMMA InitIsTyped == Init => TypeOK
<1> SUFFICES ASSUME Init PROVE TypeOK
  OBVIOUS
<1>1. NoMetrics \in Metrics
  BY DEF NoMetrics, Metrics
<1>2. runRow \in [Run -> RunRows] /\ jobRow \in [Job -> JobRows] /\ queue \in [Run -> QueueRecords]
  BY <1>1 DEF Init, RunRows, JobRows, QueueRecords
<1>3. thread \in [Run -> Checkpoints] /\ call \in [Call -> Calls]
  BY NoCheckpointIsTyped, IdleIsTyped DEF Init
<1>4. QED
  BY <1>2, <1>3 DEF Init, TypeOK

LEMMA WriteKeepsTypes ==
  ASSUME TypeOK, NEW c \in Call, NEW r \in Run, NEW m \in Checkpoints,
         NEW label \in {"run", "persist"}, WriteCheckpoint(c, r, m, label),
         UNCHANGED <<db, limits, said, shown>>
  PROVE  TypeOK'
<1>1. thread' \in [Run -> Checkpoints]
  BY DEF TypeOK, WriteCheckpoint
<1>2. call' \in [Call -> Calls]
  <2>1. [Idle EXCEPT !.pc = label, !.run = r, !.mem = m, !.latest = TRUE] \in Calls
    BY IdleIsTyped DEF Calls
  <2>2. ASSUME NEW d \in Call PROVE [call[d] EXCEPT !.latest = @ /\ call[d].run # r] \in Calls
    <3>1. call[d] \in Calls
      BY DEF TypeOK
    <3>2. PICK b \in BOOLEAN : b = (call[d].latest /\ call[d].run # r)
      OBVIOUS
    <3>3. [call[d] EXCEPT !.latest = b] \in Calls
      BY <3>1 DEF Calls
    <3>4. QED
      BY <3>2, <3>3
  <2>3. QED
    BY <2>1, <2>2 DEF WriteCheckpoint
<1>3. QED
  BY <1>1, <1>2 DEF TypeOK, db

LEMMA CompleteKeepsTypes ==
  ASSUME TypeOK, ClearInv, NEW c \in Call, NEW node, At(c, node), NEW update \in Checkpoints,
         NEW next \in Nodes \cup {"END"}, Complete(c, update, next)
  PROVE  TypeOK'
<1> DEFINE m == [update EXCEPT !.next = next, !.asked = {}]
           label == IF next = "END" THEN "persist" ELSE "run"
<1>1. m \in Checkpoints /\ label \in {"run", "persist"}
  BY DEF Checkpoints
<1>2. call[c].run \in Run
  BY DEF At, ClearInv, SoundCall
<1>3. WriteCheckpoint(c, call[c].run, m, label) /\ UNCHANGED <<db, limits, said, shown>>
  BY DEF Complete
<1> HIDE DEF m, label
<1>4. QED
  BY <1>1, <1>2, <1>3, WriteKeepsTypes

(* A step that moves one call and writes neither store.                     *)
LEMMA CallKeepsTypes ==
  ASSUME TypeOK, NEW c \in Call, NEW v \in Calls, call' = [call EXCEPT ![c] = v],
         UNCHANGED <<db, thread, limits, said, shown>>
  PROVE  TypeOK'
  BY DEF TypeOK, db

LEMMA SendKeepsTypes ==
  ASSUME TypeOK, NEW c \in Call, NEW r \in Run, NEW decisions \in Payloads,
         \A j \in DOMAIN decisions : j \in Job /\ decisions[j] \in Answers,
         NEW label \in {"lookup", "load"}, NEW view \in Nat, Send(c, r, decisions, label, view)
  PROVE  TypeOK'
<1>1. /\ call' = [call EXCEPT ![c].pc = label, ![c].run = r, ![c].resumes = TRUE,
                              ![c].pay = decisions, ![c].view = view]
      /\ said' = said \cup {<<r, j, decisions[j]>> : j \in DOMAIN decisions}
      /\ UNCHANGED <<db, thread, limits, shown>>
  BY DEF Send
<1>2. call' \in [Call -> Calls]
  <2>1. PICK v : v = [call[c] EXCEPT !.pc = label, !.run = r, !.resumes = TRUE,
                                     !.pay = decisions, !.view = view]
    OBVIOUS
  <2>2. call[c] \in Calls
    BY DEF TypeOK
  <2>3. v \in Calls
    BY <2>1, <2>2 DEF Calls
  <2>4. call' = [call EXCEPT ![c] = v]
    BY <1>1, <2>1 DEF TypeOK
  <2>5. QED
    BY <2>3, <2>4 DEF TypeOK
<1>3. said' \subseteq Run \X Job \X Answers
  BY <1>1 DEF TypeOK
<1>4. QED
  BY <1>1, <1>2, <1>3 DEF TypeOK, db

LEMMA RequestsKeepTypes ==
  ASSUME TypeOK, NEW c \in Call, NEW r \in Run,
         StartRun(c, r) \/ Answer(c, r) \/ ResumeDirect(c, r)
  PROVE  TypeOK'
<1>1. CASE StartRun(c, r)
  <2>1. [NoCheckpoint EXCEPT !.next = "load_candidate_profile"] \in Checkpoints
    BY NoCheckpointIsTyped DEF Checkpoints, Nodes
  <2>2. QED
    BY <1>1, <2>1, WriteKeepsTypes DEF StartRun
<1>2. CASE Answer(c, r)
  <2>1. queue[r].id \in Nat /\ queue[r].asked \in SUBSET Job
    BY DEF TypeOK, QueueRecords
  <2>2. PICK decisions \in Decided(queue[r].asked) : Send(c, r, decisions, "lookup", queue[r].id)
    BY <1>2 DEF Answer
  <2>3. decisions \in Payloads /\ \A j \in DOMAIN decisions : j \in Job /\ decisions[j] \in Answers
    BY <2>1, <2>2, DecidedArePayloads
  <2>4. QED
    BY <2>1, <2>2, <2>3, SendKeepsTypes
<1>3. CASE ResumeDirect(c, r)
  <2>1. CASE \E decisions \in Decided(thread[r].asked) : Send(c, r, decisions, "load", 0)
    <3>1. thread[r].asked \in SUBSET Job
      BY DEF TypeOK, Checkpoints
    <3>2. PICK decisions \in Decided(thread[r].asked) : Send(c, r, decisions, "load", 0)
      BY <2>1
    <3>3. decisions \in Payloads /\ \A j \in DOMAIN decisions : j \in Job /\ decisions[j] \in Answers
      BY <3>1, <3>2, DecidedArePayloads
    <3>4. QED
      BY <3>2, <3>3, SendKeepsTypes
  <2>2. CASE Send(c, r, Nothing, "load", 0)
    BY <2>2, NothingIsAPayload, NothingIsDecided, SendKeepsTypes
  <2>3. QED
    BY <1>3, <2>1, <2>2 DEF ResumeDirect
<1>4. QED
  BY <1>1, <1>2, <1>3

LEMMA ReturnKeepsTypes ==
  ASSUME TypeOK, NEW c \in Call, Return(c)
  PROVE  call' \in [Call -> Calls]
  BY IdleIsTyped DEF Return, TypeOK

LEMMA LookupKeepsTypes ==
  ASSUME TypeOK, ClearInv, NEW c \in Call, Lookup(c) \/ Load(c)
  PROVE  TypeOK'
<1>1. CASE Lookup(c)
  <2>1. call' \in [Call -> Calls]
    <3>1. CASE Return(c)
      BY <3>1, ReturnKeepsTypes
    <3>2. CASE call' = [call EXCEPT ![c].pc = "load"]
      <4>1. PICK v : v = [call[c] EXCEPT !.pc = "load"]
        OBVIOUS
      <4>2. call[c] \in Calls
        BY DEF TypeOK
      <4>3. v \in Calls
        BY <4>1, <4>2 DEF Calls
      <4>4. call' = [call EXCEPT ![c] = v]
        BY <3>2, <4>1 DEF TypeOK
      <4>5. QED
        BY <4>3, <4>4 DEF TypeOK
    <3>3. QED
      BY <1>1, <3>1, <3>2 DEF Lookup
  <2>2. QED
    BY <1>1, <2>1 DEF Lookup, TypeOK, db
<1>2. CASE Load(c)
  <2>1. PICK m, pc : /\ m = thread[call[c].run]
                     /\ pc = IF m.next = "END" THEN "persist" ELSE "run"
    OBVIOUS
  <2>2. call[c].run \in Run
    BY <1>2 DEF Load, ClearInv, SoundCall
  <2>3. m \in Checkpoints /\ pc \in {"persist", "run"}
    BY <2>1, <2>2 DEF TypeOK
  <2>4. call' = [call EXCEPT ![c].pc = pc, ![c].mem = m, ![c].latest = TRUE]
    BY <1>2, <2>1 DEF Load
  <2>5. call' \in [Call -> Calls]
    <3>1. PICK v : v = [call[c] EXCEPT !.pc = pc, !.mem = m, !.latest = TRUE]
      OBVIOUS
    <3>2. call[c] \in Calls
      BY DEF TypeOK
    <3>3. v \in Calls
      BY <2>3, <3>1, <3>2 DEF Calls
    <3>4. call' = [call EXCEPT ![c] = v]
      BY <2>4, <3>1 DEF TypeOK
    <3>5. QED
      BY <3>3, <3>4 DEF TypeOK
  <2>6. QED
    BY <1>2, <2>5 DEF Load, TypeOK, db
<1>3. QED
  BY <1>1, <1>2

(* Some positions of a list, in its order.                                  *)
LEMMA PickFacts ==
  ASSUME NEW S, NEW list \in Seq(S), NEW at
  PROVE  /\ Pick(list, at) \in Seq(S)
         /\ \E u : /\ \A x \in DOMAIN Pick(list, at) :
                        u[x] \in DOMAIN list \cap at /\ Pick(list, at)[x] = list[u[x]]
                   /\ \A x, y \in DOMAIN Pick(list, at) : u[x] = u[y] => x = y
<1> DEFINE parts == [i \in DOMAIN list |-> IF i \in at THEN <<list[i]>> ELSE <<>>]
<1>1. parts \in Seq(Seq(S)) /\ Len(parts) = Len(list) /\ DOMAIN list = 1 .. Len(list)
  <2>1. DOMAIN list = 1 .. Len(list) /\ Len(list) \in Nat
    OBVIOUS
  <2>2. \A i \in DOMAIN list : parts[i] \in Seq(S)
    OBVIOUS
  <2>3. parts \in [1 .. Len(list) -> Seq(S)]
    BY <2>1, <2>2
  <2> HIDE DEF parts
  <2>4. QED
    BY <2>1, <2>3
<1>2. Pick(list, at) = FlattenSeq(parts)
  BY DEF Pick
<1>3. \A i \in DOMAIN list : \A k \in DOMAIN parts[i] : i \in at /\ k = 1 /\ parts[i][k] = list[i]
  OBVIOUS
<1> HIDE DEF parts
<1>4. PICK u, v : Sources(Pick(list, at), parts, Len(parts), u, v)
  BY <1>1, <1>2, FlattenFacts
<1>5. ASSUME NEW x \in DOMAIN Pick(list, at)
      PROVE  u[x] \in DOMAIN list \cap at /\ Pick(list, at)[x] = list[u[x]] /\ v[x] = 1
  <2>1. /\ u[x] \in 1 .. Len(parts) /\ v[x] \in DOMAIN parts[u[x]]
        /\ Pick(list, at)[x] = parts[u[x]][v[x]]
    BY <1>4 DEF Sources
  <2>2. u[x] \in DOMAIN list
    BY <1>1, <2>1
  <2>3. QED
    BY <1>3, <2>1, <2>2
<1>6. \A x, y \in DOMAIN Pick(list, at) : u[x] = u[y] => x = y
  BY <1>4, <1>5 DEF Sources
<1>7. Pick(list, at) \in Seq(S)
  BY <1>1, <1>2, FlattenFacts
<1>8. QED
  BY <1>5, <1>6, <1>7

LEMMA RoutesAreTargets ==
  ASSUME NEW recommendation, NEW verdict
  PROVE  Route(recommendation, verdict) \in Targets
  BY DEF Route, ScoreRoute, Targets

LEMMA RouteAllIsTyped ==
  ASSUME NEW m \in Checkpoints, NEW decisions, \A j \in DOMAIN decisions : decisions[j] \in Answers
  PROVE  RouteAll(m, decisions) \in Seq(Targets)
<1>1. m.scored \in Seq(ScoredJobs)
  BY DEF Checkpoints
<1>2. DOMAIN m.scored = 1 .. Len(m.scored) /\ Len(m.scored) \in Nat
  BY <1>1
<1>3. \A s : Destination(s) \in Targets
  BY RoutesAreTargets DEF Destination
<1>4. Answers \subseteq Targets
  BY DEF Answers, Targets
<1>5. RouteAll(m, decisions) \in [1 .. Len(m.scored) -> Targets]
  BY <1>2, <1>3, <1>4 DEF RouteAll
<1>6. QED
  BY <1>2, <1>5

LEMMA CountIsNat ==
  ASSUME NEW m \in Checkpoints, NEW target
  PROVE  Count(m, target) \in Nat
<1>1. m.routed \in Seq(Targets)
  BY DEF Checkpoints
<1>2. Len(m.routed) \in Nat
  BY <1>1
<1> DEFINE S == {i \in DOMAIN m.routed : m.routed[i] = target}
<1>3. S \in SUBSET (1 .. Len(m.routed))
  BY <1>1
<1>4. Count(m, target) = Cardinality(S)
  BY DEF Count
<1> HIDE DEF S
<1>5. IsFiniteSet(1 .. Len(m.routed))
  BY <1>2, FS_Interval
<1>6. IsFiniteSet(S)
  BY <1>3, <1>5, FS_Subset
<1>7. QED
  BY <1>4, <1>6, FS_CardinalityType

LEMMA EarlyNodesKeepTypes ==
  ASSUME ConstantsAssumption, TypeOK, ClearInv, NEW c \in Call, EarlyNode(c)
  PROVE  TypeOK'
<1> DEFINE m == call[c].mem
<1>1. m \in Checkpoints
  BY DEF TypeOK, Calls
<1>2. /\ m.portals \in Seq(Portal) /\ m.discovered \in Seq(Postings) /\ m.jobs \in Seq(Postings)
  BY <1>1 DEF Checkpoints
<1>3. CASE LoadCandidateProfile(c)
  <2>1. PICK found \in BOOLEAN :
          Complete(c, [m EXCEPT !.profile = found], "load_search_policy")
    BY <1>3 DEF LoadCandidateProfile
  <2>2. [m EXCEPT !.profile = found] \in Checkpoints
    BY <1>1 DEF Checkpoints
  <2>3. QED
    BY <1>3, <2>1, <2>2, CompleteKeepsTypes DEF LoadCandidateProfile, Nodes
<1>4. CASE LoadSearchPolicy(c)
  <2>1. PICK list \in PortalLists : Complete(c, [m EXCEPT !.portals = list], "discover_portal")
    BY <1>4 DEF LoadSearchPolicy
  <2>2. list \in Seq(Portal)
    BY DEF ConstantsAssumption
  <2>3. [m EXCEPT !.portals = list] \in Checkpoints
    BY <1>1, <2>2 DEF Checkpoints
  <2>4. QED
    BY <1>4, <2>1, <2>3, CompleteKeepsTypes DEF LoadSearchPolicy, Nodes
<1>5. CASE DiscoverPortals(c)
  <2>1. PICK listing \in [DOMAIN m.portals -> (UNION {Boards[p] : p \in Portal}) \cup {<<>>}] :
          Complete(c, [m EXCEPT !.discovered = FlattenSeq(listing)], "normalize_jobs")
    BY <1>5 DEF DiscoverPortals
  <2>2. \A l \in (UNION {Boards[p] : p \in Portal}) \cup {<<>>} : l \in Seq(Postings)
    <3>1. \A p \in Portal : Boards[p] \in SUBSET Seq(Postings)
      BY DEF ConstantsAssumption
    <3>2. <<>> \in Seq(Postings)
      OBVIOUS
    <3> HIDE DEF m
    <3>3. QED
      BY <3>1, <3>2, Zenon
  <2>3. listing \in Seq(Seq(Postings))
    BY <1>2, <2>1, <2>2
  <2>4. FlattenSeq(listing) \in Seq(Postings)
    BY <2>3, FlattenFacts
  <2>5. [m EXCEPT !.discovered = FlattenSeq(listing)] \in Checkpoints
    BY <1>1, <2>4 DEF Checkpoints
  <2>6. QED
    BY <1>5, <2>1, <2>5, CompleteKeepsTypes DEF DiscoverPortals, Nodes
<1>6. CASE NormalizeJobs(c)
  <2> DEFINE list == Pick(m.discovered, {i \in DOMAIN m.discovered : m.discovered[i].ok})
  <2>1. list \in Seq(Postings)
    BY <1>2, PickFacts
  <2>2. Complete(c, [m EXCEPT !.jobs = list], "dedupe_jobs")
    BY <1>6 DEF NormalizeJobs
  <2> HIDE DEF list
  <2>3. [m EXCEPT !.jobs = list] \in Checkpoints
    BY <1>1, <2>1 DEF Checkpoints
  <2>4. QED
    BY <1>6, <2>2, <2>3, CompleteKeepsTypes DEF NormalizeJobs, Nodes
<1>7. CASE DedupeJobs(c)
  <2>1. PICK list, repeats : list = Repeats(m.jobs, FALSE) /\ repeats = Repeats(m.jobs, TRUE)
    OBVIOUS
  <2>2. list \in Seq(Postings) /\ repeats \in Seq(Postings)
    BY <1>2, <2>1, PickFacts DEF Repeats
  <2>3. Complete(c, [m EXCEPT !.jobs = list, !.duplicates = repeats], "score_jobs")
    BY <1>7, <2>1 DEF DedupeJobs
  <2>4. [m EXCEPT !.jobs = list, !.duplicates = repeats] \in Checkpoints
    BY <1>1, <2>2 DEF Checkpoints
  <2>5. QED
    BY <1>7, <2>3, <2>4, CompleteKeepsTypes DEF DedupeJobs, Nodes
<1>8. CASE ScoreJobs(c)
  <2> DEFINE Scored(rating) ==
        IF m.profile
          THEN [i \in DOMAIN m.jobs |->
                  [job |-> m.jobs[i].job, recommendation |-> rating[i].recommendation,
                   verdict |-> rating[i].verdict]]
          ELSE <<>>
  <2>1. PICK rating \in [DOMAIN m.jobs -> Ratings] :
          Complete(c, [m EXCEPT !.scored = Scored(rating)], "policy_guard")
    BY <1>8 DEF ScoreJobs
  <2>2. Scored(rating) \in Seq(ScoredJobs)
    <3>1. DOMAIN m.jobs = 1 .. Len(m.jobs) /\ Len(m.jobs) \in Nat
      BY <1>2
    <3>2. ASSUME NEW i \in DOMAIN m.jobs
          PROVE  [job |-> m.jobs[i].job, recommendation |-> rating[i].recommendation,
                  verdict |-> rating[i].verdict] \in ScoredJobs
      <4>1. m.jobs[i] \in Postings
        BY <1>2
      <4>2. rating[i] \in [recommendation : Recommendations, verdict : Verdicts]
        BY <2>1 DEF ConstantsAssumption
      <4>3. QED
        BY <4>1, <4>2 DEF ScoredJobs, Postings
    <3>3. QED
      BY <3>1, <3>2
  <2> DEFINE scored == Scored(rating)
  <2>3. scored \in Seq(ScoredJobs) /\ Complete(c, [m EXCEPT !.scored = scored], "policy_guard")
    BY <2>1, <2>2
  <2> HIDE DEF scored
  <2>4. [m EXCEPT !.scored = scored] \in Checkpoints
    BY <1>1, <2>3 DEF Checkpoints
  <2>5. QED
    BY <1>8, <2>3, <2>4, CompleteKeepsTypes DEF ScoreJobs, Nodes
<1>9. QED
  BY <1>3, <1>4, <1>5, <1>6, <1>7, <1>8 DEF EarlyNode

LEMMA LateNodesKeepTypes ==
  ASSUME ConstantsAssumption, TypeOK, ClearInv, NEW c \in Call, PolicyGuard(c) \/ Finalize(c)
  PROVE  TypeOK'
<1>1. PICK m, r, pay : m = call[c].mem /\ r = call[c].run /\ pay = call[c].pay
  OBVIOUS
<1>2. /\ m \in Checkpoints /\ r \in Run /\ \A j \in DOMAIN pay : pay[j] \in Answers
  BY <1>1 DEF TypeOK, Calls, ClearInv, SoundCall, PolicyGuard, Finalize, At
<1>3. CASE At(c, "policy_guard") /\ Complete(c, [m EXCEPT !.routed = RouteAll(m, pay)], "finalize")
  <2>1. RouteAll(m, pay) \in Seq(Targets)
    BY <1>2, RouteAllIsTyped
  <2>2. [m EXCEPT !.routed = RouteAll(m, pay)] \in Checkpoints
    BY <1>2, <2>1 DEF Checkpoints
  <2>3. QED
    BY <1>3, <2>2, CompleteKeepsTypes DEF Nodes
<1>4. ASSUME NEW paused, paused = [m EXCEPT !.asked = JobsAt(m, Review(m))],
             call' = [call EXCEPT ![c].pc = "persist", ![c].mem = paused],
             thread' = IF call[c].latest THEN [thread EXCEPT ![r] = paused] ELSE thread,
             shown' = shown \cup {<<r, j>> : j \in paused.asked},
             UNCHANGED <<db, limits, said>>
      PROVE  TypeOK'
  <2>1. JobsAt(m, Review(m)) \in SUBSET Job
    <3>1. m.scored \in Seq(ScoredJobs)
      BY <1>2 DEF Checkpoints
    <3>2. ASSUME NEW i \in Review(m) PROVE m.scored[i].job \in Job
      <4>1. i \in DOMAIN m.scored
        BY DEF Review
      <4>2. m.scored[i] \in ScoredJobs
        BY <3>1, <4>1
      <4>3. QED
        BY <4>2 DEF ScoredJobs
    <3>3. QED
      BY <3>2 DEF JobsAt
  <2>2. paused \in Checkpoints /\ paused.asked \in SUBSET Job
    BY <1>2, <1>4, <2>1 DEF Checkpoints
  <2>3. call' \in [Call -> Calls]
    <3>1. PICK v : v = [call[c] EXCEPT !.pc = "persist", !.mem = paused]
      OBVIOUS
    <3>2. call[c] \in Calls
      BY DEF TypeOK
    <3>3. v \in Calls
      BY <2>2, <3>1, <3>2 DEF Calls
    <3>4. call' = [call EXCEPT ![c] = v]
      BY <1>4, <3>1 DEF TypeOK
    <3>5. QED
      BY <3>3, <3>4 DEF TypeOK
  <2>4. thread' \in [Run -> Checkpoints]
    BY <1>2, <1>4, <2>2 DEF TypeOK
  <2>5. shown' \subseteq Run \X Job
    BY <1>2, <1>4, <2>2 DEF TypeOK
  <2>6. QED
    BY <1>4, <2>3, <2>4, <2>5 DEF TypeOK, db
<1>5. CASE Finalize(c)
  <2>1. PICK metrics :
          /\ metrics = [discovered           |-> Len(m.discovered),
                        duplicates           |-> Len(m.duplicates),
                        scored               |-> Len(m.scored),
                        rejected             |-> Count(m, "reject"),
                        queued               |-> Count(m, "queue"),
                        human_review_pending |-> Count(m, "human_review")]
          /\ Complete(c, [m EXCEPT !.metrics = metrics], "END")
    BY <1>1, <1>5 DEF Finalize
  <2>2. Len(m.discovered) \in Nat /\ Len(m.duplicates) \in Nat /\ Len(m.scored) \in Nat
    BY <1>2 DEF Checkpoints
  <2>3. metrics \in Metrics
    BY <1>2, <2>1, <2>2, CountIsNat DEF Metrics
  <2>4. [m EXCEPT !.metrics = metrics] \in Checkpoints
    BY <1>2, <2>3 DEF Checkpoints
  <2>5. QED
    BY <1>5, <2>1, <2>4, CompleteKeepsTypes DEF Finalize
<1>6. CASE PolicyGuard(c)
  <2>1. PICK paused : paused = [m EXCEPT !.asked = JobsAt(m, Review(m))]
    OBVIOUS
  <2>2. \/ At(c, "policy_guard") /\ Complete(c, [m EXCEPT !.routed = RouteAll(m, pay)], "finalize")
        \/ /\ call' = [call EXCEPT ![c].pc = "persist", ![c].mem = paused]
           /\ thread' = IF call[c].latest THEN [thread EXCEPT ![r] = paused] ELSE thread
           /\ shown' = shown \cup {<<r, j>> : j \in paused.asked}
           /\ UNCHANGED <<db, limits, said>>
    BY <1>1, <1>6, <2>1 DEF PolicyGuard
  <2>3. QED
    BY <1>3, <1>4, <2>1, <2>2
<1>7. QED
  BY <1>5, <1>6

LEMMA PersistKeepsTypes ==
  ASSUME ConstantsAssumption, TypeOK, ClearInv, NEW c \in Call, PersistRunResult(c)
  PROVE  TypeOK'
<1>1. PICK m, r : m = call[c].mem /\ r = call[c].run
  OBVIOUS
<1>2. m \in Checkpoints /\ r \in Run
  BY <1>1 DEF TypeOK, Calls, ClearInv, SoundCall, PersistRunResult
<1>3. m.metrics \in Metrics /\ m.asked \in SUBSET Job
  BY <1>2 DEF Checkpoints
<1>4. runRow' \in [Run -> RunRows]
  <2>1. runRow' = [runRow EXCEPT ![r] =
                     [status  |-> IF m.asked # {} THEN "waiting_human" ELSE "completed",
                      metrics |-> m.metrics]]
    BY <1>1 DEF PersistRunResult
  <2>2. QED
    BY <1>3, <2>1 DEF TypeOK, RunRows
<1>5. jobRow' \in [Job -> JobRows]
  <2>1. jobRow' = [j \in Job |-> IF StatusIn(m, j) = "absent" THEN jobRow[j]
                                 ELSE [run |-> r, status |-> StatusIn(m, j)]]
    BY <1>1 DEF PersistRunResult
  <2>2. \A j \in Job : StatusIn(m, j) \in {"absent", "queued", "rejected", "human_review", "duplicate"}
    BY DEF StatusIn
  <2>3. \A j \in Job : [run |-> r, status |-> StatusIn(m, j)] \in JobRows
    BY <1>2, <2>2 DEF JobRows
  <2>4. QED
    BY <2>1, <2>3 DEF TypeOK
<1>6. queue' \in [Run -> QueueRecords]
  <2>1. queue' = [queue EXCEPT ![r] = Intervention(queue[r], m.asked)]
    BY <1>1, <1>2 DEF PersistRunResult, TypeOK
  <2>2. queue[r] \in QueueRecords
    BY <1>2 DEF TypeOK
  <2>3. Intervention(queue[r], m.asked) \in QueueRecords
    BY <1>3, <2>2 DEF Intervention, QueueRecords
  <2>4. QED
    BY <2>1, <2>3 DEF TypeOK
<1>7. call' \in [Call -> Calls]
  BY ReturnKeepsTypes DEF PersistRunResult
<1>8. QED
  BY <1>4, <1>5, <1>6, <1>7 DEF PersistRunResult, TypeOK

(* graph/state.py: the postings of a state stay postings through the        *)
(* concatenation of the portals' answers, normalisation and dedupe; every   *)
(* scored job has a destination, the metrics count, a pause asks about jobs *)
(* and decisions are about jobs, in every regime.                           *)
THEOREM TypeCorrect == Spec => []TypeOK
<1>1. TypeOK /\ ClearInv /\ [Next]_vars => TypeOK'
  <2> SUFFICES ASSUME TypeOK, ClearInv, [Next]_vars PROVE TypeOK'
    OBVIOUS
  <2>1. CASE \E c \in Call, r \in Run : StartRun(c, r) \/ Answer(c, r) \/ ResumeDirect(c, r)
    BY <2>1, RequestsKeepTypes
  <2>2. ASSUME NEW c \in Call, Proceed(c) PROVE TypeOK'
    <3>1. CASE Lookup(c) \/ Load(c)
      BY <3>1, LookupKeepsTypes
    <3>2. CASE RunNode(c)
      BY <3>2, ConstantsAssumption, EarlyNodesKeepTypes, LateNodesKeepTypes DEF RunNode, EarlyNode
    <3>3. CASE PersistRunResult(c)
      BY <3>3, ConstantsAssumption, PersistKeepsTypes
    <3>4. QED
      BY <2>2, <3>1, <3>2, <3>3 DEF Proceed
  <2>3. CASE Crash
    BY <2>3, IdleIsTyped DEF Crash, TypeOK, db
  <2>4. CASE EditLimits
    BY <2>4 DEF EditLimits, TypeOK, db
  <2>5. CASE UNCHANGED vars
    BY <2>5 DEF vars, TypeOK
  <2>6. QED
    BY <2>1, <2>2, <2>3, <2>4, <2>5 DEF Next
<1>2. QED
  BY <1>1, InitIsTyped, ClearInvariant, PTL DEF Spec

-----------------------------------------------------------------------------
(* What the tables say while the operator waits for each answer and the     *)
(* process lives *)

(* A run no call works on has ended or is paused.                           *)
Settled(m) ==
  \/ m.next = "END" /\ m.asked = {}
  \/ m.next = "policy_guard" /\ m.asked # {}

Working(r) == \E c \in Call : call[c].pc \in {"run", "persist"} /\ call[c].run = r

Agree(r) ==
  /\ thread[r].asked # {} => /\ runRow[r].status = "waiting_human"
                             /\ queue[r].status = "pending"
                             /\ queue[r].asked = thread[r].asked
  /\ thread[r].asked = {} => runRow[r].status = "completed" /\ queue[r].status # "pending"

Unsure(s) == Route(s.recommendation, s.verdict) = "human_review"

Shown(m, r) ==
  /\ m.asked # {} => \A i \in DOMAIN m.scored :
                       Unsure(m.scored[i]) => <<r, m.scored[i].job>> \in shown
  /\ \A i \in DOMAIN m.routed : m.routed[i] = "human_review" => <<r, m.scored[i].job>> \in shown

SerialRun(r) ==
  /\ DOMAIN queue[r] = {"id", "status", "asked"}
  /\ thread[r].next = "absent" => runRow[r].status = "absent" /\ queue[r].status = "none"
  /\ thread[r].next # "absent" /\ ~Working(r) => Settled(thread[r]) /\ Agree(r)
  /\ runRow[r].status = "completed" =>
       /\ thread[r].next = "END"
       /\ runRow[r] = [status |-> "completed", metrics |-> thread[r].metrics]
  /\ Shown(thread[r], r)

SerialCall(c) ==
  /\ call[c].pc = "idle" => call[c].run = NoRun
  /\ call[c].pc # "idle" => thread[call[c].run].next # "absent"
  /\ call[c].pc \in {"run", "persist"} => call[c].mem = thread[call[c].run]
  /\ call[c].pc = "run" =>
       /\ call[c].latest
       /\ call[c].mem.next \notin {"absent", "END"}
       /\ call[c].resumes => call[c].mem.next = "policy_guard" /\ call[c].mem.asked # {}
  /\ call[c].pc = "persist" => Settled(call[c].mem)

(* One call works on a run at a time.                                       *)
Alone == \A c, d \in Call : call[c].pc # "idle" /\ call[d].run = call[c].run => c = d

Deduped == {"policy_guard", "finalize", "END"}

Duplicated(m, j) == \E i \in DOMAIN m.duplicates : m.duplicates[i].job = j

RoutedTo(m, j, status) ==
  \E i \in DOMAIN m.routed : m.scored[i].job = j /\ status = RowName[m.routed[i]]

(* A row tells what its run made of the job.  A run that routed it has      *)
(* ended and one that only met it again keeps its duplicates, so that the   *)
(* row goes on telling it.                                                  *)
RowStands(j) ==
  jobRow[j].status # "absent" =>
    /\ jobRow[j].run \in Run
    /\ thread[jobRow[j].run].next \in Deduped
    /\ jobRow[j].status = "duplicate" <=> Duplicated(thread[jobRow[j].run], j)
    /\ jobRow[j].status # "duplicate" =>
         /\ thread[jobRow[j].run].next = "END"
         /\ RoutedTo(thread[jobRow[j].run], j, jobRow[j].status)

SerialInv ==
  /\ DOMAIN runRow = Run /\ DOMAIN queue = Run
  /\ \A r \in Run : SerialRun(r)
  /\ \A c \in Call : SerialCall(c)
  /\ Alone
  /\ \A j \in Job : RowStands(j)

LEMMA InitIsSerial == Init => SerialInv
<1> SUFFICES ASSUME Init PROVE SerialInv
  OBVIOUS
<1>1. ASSUME NEW c \in Call PROVE SerialCall(c) /\ call[c].pc = "idle"
  <2>1. call[c] = [pc |-> "idle", run |-> NoRun, resumes |-> FALSE, pay |-> Nothing,
                   view |-> 0, mem |-> NoCheckpoint, latest |-> FALSE]
    BY DEF Init, Idle
  <2>2. QED
    BY <2>1 DEF SerialCall
<1>2. ASSUME NEW r \in Run PROVE SerialRun(r)
  BY DEF Init, SerialRun, Shown, NoCheckpoint
<1>3. \A j \in Job : RowStands(j)
  BY DEF Init, RowStands
<1>4. DOMAIN runRow = Run /\ DOMAIN queue = Run
  BY DEF Init
<1>5. QED
  BY <1>1, <1>2, <1>3, <1>4 DEF SerialInv, Alone

(* A run that no step of this action touches.                               *)
LEMMA OtherRunIsSerial ==
  ASSUME NEW r \in Run, SerialRun(r), thread'[r] = thread[r], runRow'[r] = runRow[r],
         queue'[r] = queue[r], shown \subseteq shown', Working(r)' <=> Working(r)
  PROVE  SerialRun(r)'
<1>1. Agree(r)' <=> Agree(r)
  BY DEF Agree
<1>2. Shown(thread[r], r)'
  BY DEF SerialRun, Shown
<1>3. QED
  BY <1>1, <1>2 DEF SerialRun

(* A call that does not move, on a run whose checkpoint does not either.    *)
LEMMA OtherCallIsSerial ==
  ASSUME NEW d \in Call, SerialCall(d),
         call'[d].pc = call[d].pc, call'[d].run = call[d].run, call'[d].mem = call[d].mem,
         call'[d].resumes = call[d].resumes, call[d].latest => call'[d].latest,
         call[d].pc # "idle" => thread'[call[d].run] = thread[call[d].run]
  PROVE  SerialCall(d)'
BY DEF SerialCall, Settled

(* A row that stays, of a run whose checkpoint does.                        *)
LEMMA SameRowStands ==
  ASSUME NEW j, RowStands(j), jobRow'[j] = jobRow[j],
         jobRow[j].run \in Run => thread'[jobRow[j].run] = thread[jobRow[j].run]
  PROVE  RowStands(j)'
BY DEF RowStands, Duplicated, RoutedTo

(* A row of a run that has not ended is that of a duplicate.                *)
LEMMA DuplicateRowStands ==
  ASSUME NEW j, RowStands(j), jobRow'[j] = jobRow[j], NEW r, jobRow[j].run = r,
         thread[r].next # "END", NEW n, thread'[r] = n,
         thread[r].next \in Deduped => n.next \in Deduped /\ n.duplicates = thread[r].duplicates
  PROVE  RowStands(j)'
BY DEF RowStands, Duplicated

(* A checkpoint of a run that only this call works on.                      *)
LEMMA WriteKeepsSerial ==
  ASSUME ConstantsAssumption, ClearInv, SerialInv, NEW c \in Call, NEW r \in Run, NEW m,
         NEW label \in {"run", "persist"}, WriteCheckpoint(c, r, m, label),
         UNCHANGED <<db, shown>>, call[c].run \in {NoRun, r},
         \A d \in Call \ {c} : call[d].run # r, thread[r].next # "END",
         m.next # "absent", label = "run" => m.next # "END", label = "persist" => Settled(m),
         m.asked = {}, Shown(m, r),
         thread[r].next \in Deduped => m.next \in Deduped /\ m.duplicates = thread[r].duplicates
  PROVE  SerialInv'
<1> DEFINE newCall == [pc |-> label, run |-> r, resumes |-> FALSE, pay |-> Nothing,
                       view |-> 0, mem |-> m, latest |-> TRUE]
<1>w. /\ DOMAIN thread' = Run /\ thread'[r] = m
      /\ \A s \in Run \ {r} : thread'[s] = thread[s]
      /\ DOMAIN call' = Call
      /\ call'[c] = newCall
      /\ \A d \in Call \ {c} :
           /\ DOMAIN call'[d] = DOMAIN call[d]
           /\ call'[d].pc = call[d].pc /\ call'[d].run = call[d].run
           /\ call'[d].resumes = call[d].resumes /\ call'[d].pay = call[d].pay
           /\ call'[d].view = call[d].view /\ call'[d].mem = call[d].mem
           /\ call'[d].latest = (call[d].latest /\ call[d].run # r)
  BY Written, Zenon
<1>n. /\ call'[c].pc = label /\ call'[c].run = r /\ call'[c].mem = m
      /\ call'[c].resumes = FALSE /\ call'[c].latest = TRUE
  BY <1>w
<1>t. /\ runRow' = runRow /\ queue' = queue /\ jobRow' = jobRow /\ shown' = shown
      /\ r # NoRun
  BY DEF db, ConstantsAssumption
<1>1. ASSUME NEW s \in Run \ {r} PROVE SerialRun(s)'
  <2>1. Working(s)' <=> Working(s)
    <3>1. ASSUME NEW d \in Call
          PROVE  call'[d].run = s <=> call[d].run = s
      BY <1>w, <1>n, <1>t DEF ConstantsAssumption
    <3>2. ASSUME NEW d \in Call, call[d].run = s
          PROVE  call'[d].pc = call[d].pc
      BY <1>w, <1>t, <3>2 DEF ConstantsAssumption
    <3>3. QED
      BY <3>1, <3>2 DEF Working
  <2>2. SerialRun(s) /\ shown \subseteq shown' /\ thread'[s] = thread[s]
    BY <1>w, <1>t DEF SerialInv
  <2>3. QED
    BY <1>t, <2>1, <2>2, OtherRunIsSerial
<1>2. SerialRun(r)'
  <2>1. Working(r)'
    BY <1>n DEF Working
  <2>2. SerialRun(r) /\ runRow[r].status # "completed"
    BY DEF SerialInv, SerialRun
  <2>3. Shown(thread[r], r)'
    BY <1>w, <1>t DEF Shown
  <2>4. thread'[r].next # "absent"
    BY <1>w
  <2>5. QED
    BY <1>t, <2>1, <2>2, <2>3, <2>4 DEF SerialRun
<1>3. SerialCall(c)'
  <2>1. thread'[r] = m
    BY <1>w
  <2>2. QED
    BY <1>n, <2>1 DEF SerialCall, Settled
<1>4. ASSUME NEW d \in Call \ {c} PROVE SerialCall(d)'
  <2>1. SerialCall(d) /\ call[d].run # r /\ (call[d].pc # "idle" => call[d].run \in Run)
    BY DEF SerialInv, ClearInv, SoundCall
  <2>2. call[d].pc # "idle" => thread'[call[d].run] = thread[call[d].run]
    BY <1>w, <2>1
  <2>3. call[d].latest => call'[d].latest
    BY <1>w, <2>1
  <2>4. QED
    BY <1>w, <2>1, <2>2, <2>3, OtherCallIsSerial
<1>5. Alone'
  <2>1. SUFFICES ASSUME NEW a \in Call, NEW b \in Call, call'[a].pc # "idle",
                        call'[b].run = call'[a].run
                 PROVE  a = b
    BY DEF Alone
  <2>2. CASE a = c
    BY <1>w, <1>n, <2>1, <2>2
  <2>3. CASE a # c
    <3>1. call[a].pc # "idle" /\ call[a].run # r /\ call'[a].run = call[a].run
      BY <1>w, <2>1, <2>3
    <3>2. b # c
      BY <1>n, <2>1, <3>1
    <3>3. call[b].run = call[a].run
      BY <1>w, <2>1, <3>1, <3>2
    <3>4. QED
      BY <3>1, <3>3 DEF SerialInv, Alone
  <2>4. QED
    BY <2>2, <2>3
<1>6. ASSUME NEW j \in Job PROVE RowStands(j)'
  <2>1. RowStands(j) /\ jobRow'[j] = jobRow[j]
    BY <1>t DEF SerialInv
  <2>2. CASE jobRow[j].run = r
    BY <1>w, <2>1, <2>2, DuplicateRowStands
  <2>3. CASE jobRow[j].run # r
    BY <1>w, <2>1, <2>3, SameRowStands
  <2>4. QED
    BY <2>2, <2>3
<1>7. QED
  BY <1>1, <1>2, <1>3, <1>4, <1>5, <1>6, <1>t DEF SerialInv

(* A call that changes alone: it is sent, loads, returns or is dropped.     *)
LEMMA CallKeepsSerial ==
  ASSUME ConstantsAssumption, ClearInv, SerialInv, NEW c \in Call,
         UNCHANGED <<db, thread, shown>>,
         \A d \in Call \ {c} : call'[d] = call[d], SerialCall(c)',
         \A d \in Call \ {c} : call[d].run \in Run => call[d].run # call'[c].run,
         call'[c].run \in Run \cup {NoRun}, call'[c].pc # "idle" => call'[c].run \in Run,
         call[c].pc \notin {"run", "persist"}
  PROVE  SerialInv'
<1>t. /\ runRow' = runRow /\ queue' = queue /\ jobRow' = jobRow /\ shown' = shown
      /\ thread' = thread
  BY DEF db
<1>1. ASSUME NEW r \in Run PROVE SerialRun(r)'
  <2>1. Working(r) => Working(r)'
    BY DEF Working
  <2>2. SerialRun(r)
    BY DEF SerialInv
  <2>3. Agree(r)' <=> Agree(r)
    BY <1>t DEF Agree
  <2>4. Shown(thread[r], r)'
    BY <1>t, <2>2 DEF SerialRun, Shown
  <2>5. QED
    BY <1>t, <2>1, <2>2, <2>3, <2>4 DEF SerialRun, Settled
<1>2. ASSUME NEW d \in Call \ {c} PROVE SerialCall(d)'
  BY <1>t, OtherCallIsSerial DEF SerialInv
<1>3. Alone'
  <2>1. SUFFICES ASSUME NEW a \in Call, NEW b \in Call, call'[a].pc # "idle",
                        call'[b].run = call'[a].run
                 PROVE  a = b
    BY DEF Alone
  <2>2. \A d \in Call \ {c} : call[d].pc # "idle" => call[d].run \in Run
    BY DEF ClearInv, SoundCall
  <2>3. CASE a # c /\ b # c
    BY <2>1, <2>3 DEF SerialInv, Alone
  <2>4. CASE a # c /\ b = c
    BY <2>1, <2>2, <2>4
  <2>5. CASE a = c /\ b # c
    BY <2>1, <2>2, <2>5
  <2>6. QED
    BY <2>3, <2>4, <2>5
<1>4. ASSUME NEW j \in Job PROVE RowStands(j)'
  BY <1>t, SameRowStands DEF SerialInv
<1>5. QED
  BY <1>1, <1>2, <1>3, <1>4, <1>t DEF SerialInv

LEMMA StartKeepsSerial ==
  ASSUME ConstantsAssumption, ClearInv, SerialInv, NEW c \in Call, NEW r \in Run, StartRun(c, r)
  PROVE  SerialInv'
<1> DEFINE m == [NoCheckpoint EXCEPT !.next = "load_candidate_profile"]
<1>1. /\ call[c].pc = "idle" /\ thread[r].next = "absent" /\ WriteCheckpoint(c, r, m, "run")
      /\ UNCHANGED <<db, shown>>
  BY DEF StartRun
<1>2. call[c].run = NoRun
  BY <1>1 DEF SerialInv, SerialCall
<1>3. ASSUME NEW d \in Call \ {c}, call[d].run = r PROVE FALSE
  <2>1. call[d].pc # "idle"
    BY <1>3 DEF SerialInv, SerialCall, ConstantsAssumption
  <2>2. QED
    BY <1>1, <1>3, <2>1 DEF SerialInv, SerialCall
<1>4. /\ m.next = "load_candidate_profile" /\ m.asked = {} /\ Shown(m, r)
      /\ thread[r].next \notin Deduped
  BY <1>1 DEF NoCheckpoint, Shown, Deduped
<1> HIDE DEF m
<1>5. QED
  BY <1>1, <1>2, <1>3, <1>4, WriteKeepsSerial

(* Under Serial an answer is sent for a run nobody works on.                *)
LEMMA SendKeepsSerial ==
  ASSUME ConstantsAssumption, ClearInv, SerialInv, Serial, NEW c \in Call, NEW r \in Run,
         NEW decisions, NEW label \in {"lookup", "load"}, NEW view,
         Send(c, r, decisions, label, view), thread[r].next # "absent"
  PROVE  SerialInv'
<1>1. /\ call' = [call EXCEPT ![c].pc = label, ![c].run = r, ![c].resumes = TRUE,
                              ![c].pay = decisions, ![c].view = view]
      /\ UNCHANGED <<db, thread, shown>> /\ call[c].pc = "idle" /\ ~InFlight(r)
  BY DEF Send
<1>2. /\ call'[c].pc = label /\ call'[c].run = r
      /\ \A d \in Call \ {c} : call'[d] = call[d]
  BY <1>1 DEF ClearInv, SoundCall
<1>3. SerialCall(c)'
  BY <1>1, <1>2 DEF SerialCall
<1>4. \A d \in Call : call[d].run # r
  BY <1>1 DEF InFlight
<1>5. QED
  BY <1>1, <1>2, <1>3, <1>4, CallKeepsSerial

LEMMA AnswerKeepsSerial ==
  ASSUME ConstantsAssumption, ClearInv, SerialInv, Serial, NEW c \in Call, NEW r \in Run,
         Answer(c, r) \/ ResumeDirect(c, r)
  PROVE  SerialInv'
<1>1. CASE Answer(c, r)
  <2>1. PICK decisions : Send(c, r, decisions, "lookup", queue[r].id)
    BY <1>1 DEF Answer
  <2>2. thread[r].next # "absent"
    BY <1>1 DEF Answer, SerialInv, SerialRun
  <2>3. QED
    BY <2>1, <2>2, SendKeepsSerial
<1>2. CASE ResumeDirect(c, r)
  <2>1. PICK decisions : Send(c, r, decisions, "load", 0)
    BY <1>2 DEF ResumeDirect
  <2>2. thread[r].next # "absent"
    BY <1>2 DEF ResumeDirect
  <2>3. QED
    BY <2>1, <2>2, SendKeepsSerial
<1>3. QED
  BY <1>1, <1>2

(* The other calls work on other runs.                                      *)
LEMMA OthersElsewhere ==
  ASSUME SerialInv, NEW c \in Call, call[c].pc # "idle"
  PROVE  \A d \in Call \ {c} : call[d].run # call[c].run
BY DEF SerialInv, Alone

LEMMA LookupKeepsSerial ==
  ASSUME ConstantsAssumption, ClearInv, SerialInv, NEW c \in Call, Lookup(c)
  PROVE  SerialInv'
<1>1. UNCHANGED <<db, thread, shown>> /\ call[c].pc = "lookup"
  BY DEF Lookup
<1>2. CASE Return(c)
  <2>1. call'[c] = Idle /\ \A d \in Call \ {c} : call'[d] = call[d]
    BY <1>2 DEF Return, ClearInv
  <2>2. call'[c].pc = "idle" /\ call'[c].run = NoRun
    BY <2>1 DEF Idle
  <2>3. SerialCall(c)'
    BY <2>2 DEF SerialCall
  <2>4. \A d \in Call \ {c} : call[d].run \in Run => call[d].run # call'[c].run
    BY <2>2 DEF ConstantsAssumption
  <2>5. QED
    BY <1>1, <2>1, <2>2, <2>3, <2>4, CallKeepsSerial
<1>3. CASE call' = [call EXCEPT ![c].pc = "load"]
  <2>1. /\ call'[c].pc = "load" /\ call'[c].run = call[c].run
        /\ \A d \in Call \ {c} : call'[d] = call[d]
    BY <1>3 DEF ClearInv, SoundCall
  <2>2. call[c].run \in Run /\ SerialCall(c)
    BY <1>1 DEF ClearInv, SoundCall, SerialInv
  <2>3. SerialCall(c)'
    BY <1>1, <2>1, <2>2 DEF SerialCall
  <2>4. QED
    BY <1>1, <2>1, <2>2, <2>3, OthersElsewhere, CallKeepsSerial
<1>4. QED
  BY <1>2, <1>3 DEF Lookup

(* What is loaded is a run that has ended or is paused.                     *)
LEMMA LoadKeepsSerial ==
  ASSUME ConstantsAssumption, ClearInv, SerialInv, NEW c \in Call, Load(c)
  PROVE  SerialInv'
<1>1. PICK r, m, pc : /\ r = call[c].run /\ m = thread[r]
                      /\ pc = IF m.next = "END" THEN "persist" ELSE "run"
  OBVIOUS
<1>2. /\ UNCHANGED <<db, thread, shown>> /\ call[c].pc = "load"
      /\ call' = [call EXCEPT ![c].pc = pc, ![c].mem = m, ![c].latest = TRUE]
  BY <1>1 DEF Load
<1>3. /\ call'[c].pc = pc /\ call'[c].run = r /\ call'[c].mem = m /\ call'[c].latest = TRUE
      /\ \A d \in Call \ {c} : call'[d] = call[d]
  BY <1>1, <1>2 DEF ClearInv, SoundCall
<1>4. r \in Run /\ SerialCall(c) /\ SerialRun(r) /\ m.next # "absent"
  BY <1>1, <1>2 DEF ClearInv, SoundCall, SerialInv, SerialCall
<1>5. \A d \in Call \ {c} : call[d].run # r
  BY <1>1, <1>2, OthersElsewhere
<1>6. ~Working(r)
  BY <1>2, <1>5 DEF Working
<1>7. Settled(m)
  BY <1>1, <1>4, <1>6 DEF SerialRun
<1>8. thread'[r] = m /\ call'[c].pc \in {"run", "persist"}
  BY <1>1, <1>2, <1>3
<1>9. call'[c].pc = "run" => m.next = "policy_guard" /\ m.asked # {}
  BY <1>1, <1>3, <1>7 DEF Settled
<1>10. SerialCall(c)'
  BY <1>3, <1>4, <1>7, <1>8, <1>9 DEF SerialCall, Settled
<1>11. call[c].pc \notin {"run", "persist"} /\ call'[c].pc # "idle"
  BY <1>2, <1>8
<1>12. \A d \in Call \ {c} : call[d].run \in Run => call[d].run # call'[c].run
  BY <1>3, <1>5
<1>13. call'[c].run \in Run
  BY <1>3, <1>4
<1>14. QED
  BY <1>2, <1>3, <1>10, <1>11, <1>12, <1>13, CallKeepsSerial

(* A node that completes.                                                   *)
LEMMA CompleteKeepsSerial ==
  ASSUME ConstantsAssumption, ClearInv, SerialInv, NEW c \in Call, NEW node, At(c, node),
         NEW update, NEW next \in (Nodes \cup {"END"}), Complete(c, update, next),
         DOMAIN update = Fields,
         \A i \in DOMAIN update.routed : update.routed[i] = "human_review" =>
           <<call[c].run, update.scored[i].job>> \in shown,
         node \in Deduped => next \in Deduped /\ update.duplicates = call[c].mem.duplicates
  PROVE  SerialInv'
<1> DEFINE n == [update EXCEPT !.next = next, !.asked = {}]
           label == IF next = "END" THEN "persist" ELSE "run"
<1>1. PICK r : r = call[c].run
  OBVIOUS
<1>2. /\ n.next = next /\ n.asked = {} /\ n.routed = update.routed /\ n.scored = update.scored
      /\ n.duplicates = update.duplicates
  BY DEF Fields
<1>3. WriteCheckpoint(c, r, n, label) /\ UNCHANGED <<db, shown>> /\ call[c].pc = "run"
  BY <1>1 DEF Complete, At
<1> HIDE DEF n
<1>4. Shown(n, r) /\ (label = "persist" => Settled(n))
  BY <1>1, <1>2 DEF Shown, Settled
<1>5. /\ label \in {"run", "persist"} /\ n.next # "absent" /\ (label = "run" => n.next # "END")
  BY <1>2 DEF Nodes
<1>6. r \in Run /\ thread[r].next # "END" /\ call[c].run \in {NoRun, r}
  BY <1>1, <1>3 DEF ClearInv, SoundCall, SerialInv, SerialCall
<1>7. \A d \in Call \ {c} : call[d].run # r
  BY <1>1, <1>3, OthersElsewhere
<1>8. thread[r].next \in Deduped => n.next \in Deduped /\ n.duplicates = thread[r].duplicates
  BY <1>1, <1>2, <1>3 DEF At, SerialInv, SerialCall
<1> HIDE DEF label
<1>9. QED
  BY <1>2, <1>3, <1>4, <1>5, <1>6, <1>7, <1>8, WriteKeepsSerial

LEMMA EarlyNodesKeepSerial ==
  ASSUME ConstantsAssumption, ClearInv, SerialInv, NEW c \in Call, EarlyNode(c)
  PROVE  SerialInv'
<1>1. /\ DOMAIN call[c].mem = Fields
      /\ call[c].mem.next \notin {"finalize", "END"} => DOMAIN call[c].mem.routed = {}
      /\ \A i \in DOMAIN call[c].mem.scored : call[c].mem.scored[i].verdict \in Verdicts
  BY DEF ClearInv, SoundCall, Sound
<1>2. PICK node, next, update :
        {node, next} \subseteq Nodes \ {"finalize"} /\ Quiet(c, node, update, next)
  BY <1>1, EarlyNodesAreQuiet
<1>3. DOMAIN update.routed = {}
  BY <1>1, <1>2 DEF Quiet, At, Nodes
<1>4. node \notin Deduped
  BY <1>2 DEF EarlyNode, LoadCandidateProfile, LoadSearchPolicy, DiscoverPortals, NormalizeJobs,
              DedupeJobs, ScoreJobs, Quiet, At, Deduped
<1>5. QED
  BY <1>2, <1>3, <1>4, CompleteKeepsSerial DEF Quiet

LEMMA FinalizeKeepsSerial ==
  ASSUME ConstantsAssumption, ClearInv, SerialInv, NEW c \in Call, Finalize(c)
  PROVE  SerialInv'
<1> DEFINE m == call[c].mem
<1>1. DOMAIN m = Fields /\ call[c].run \in Run /\ m = thread[call[c].run]
  BY DEF ClearInv, SoundCall, Sound, SerialInv, SerialCall, Finalize, At
<1>2. PICK metrics : Complete(c, [m EXCEPT !.metrics = metrics], "END")
  BY DEF Finalize
<1> DEFINE u == [m EXCEPT !.metrics = metrics]
<1>3. /\ DOMAIN u = Fields /\ u.routed = m.routed /\ u.scored = m.scored
      /\ u.duplicates = m.duplicates /\ Complete(c, u, "END") /\ At(c, "finalize")
  BY <1>1, <1>2 DEF Fields, Finalize
<1> HIDE DEF u
<1>4. Shown(m, call[c].run)
  BY <1>1 DEF SerialInv, SerialRun
<1>5. QED
  BY <1>3, <1>4, CompleteKeepsSerial DEF Shown, Deduped

(* While a job is under review no limit is at zero, so that every job the   *)
(* guardrails or the score leave to the operator is.                        *)
LEMMA UnderReviewIsUnsure ==
  ASSUME NEW m, NEW r, Sound(m, r), NEW i \in Review(m)
  PROVE  /\ Unsure(m.scored[i])
         /\ \A k \in DOMAIN m.scored : Unsure(m.scored[k]) => k \in Review(m)
<1>1. \A k \in DOMAIN m.scored : m.scored[k].verdict \in Verdicts
  BY DEF Sound
<1>2. i \in DOMAIN m.scored /\ Destination(m.scored[i]) = "human_review"
  BY DEF Review
<1>3. limits
  BY <1>2 DEF Destination, Route, Overall, BlockIf
<1>4. \A v \in Verdicts : Overall({v, BlockIf(~limits)}) = v
  BY <1>3 DEF Overall, BlockIf, Verdicts
<1>5. \A k \in DOMAIN m.scored :
        Destination(m.scored[k]) = Route(m.scored[k].recommendation, m.scored[k].verdict)
  BY <1>1, <1>4 DEF Destination
<1>6. QED
  BY <1>2, <1>5 DEF Review, Unsure

(* The second alternative of PolicyGuard.                                   *)
Pauses(c, m, r, paused) ==
  /\ At(c, "policy_guard") /\ m = call[c].mem /\ r = call[c].run
  /\ Review(m) # {}
  /\ paused = [m EXCEPT !.asked = JobsAt(m, Review(m))]
  /\ call' = [call EXCEPT ![c].pc = "persist", ![c].mem = paused]
  /\ thread' = IF call[c].latest THEN [thread EXCEPT ![r] = paused] ELSE thread
  /\ shown' = shown \cup {<<r, j>> : j \in paused.asked}
  /\ UNCHANGED db

(* The run pauses: what is under review is shown.                           *)
LEMMA PauseKeepsSerial ==
  ASSUME ConstantsAssumption, ClearInv, SerialInv, NEW c \in Call,
         NEW m, NEW r, NEW paused, Pauses(c, m, r, paused)
  PROVE  SerialInv'
<1> USE DEF Pauses
<1>1. /\ Sound(m, r) /\ DOMAIN m = Fields /\ r \in Run /\ m.next = "policy_guard"
      /\ call[c].latest /\ m = thread[r] /\ call[c].pc = "run"
  BY DEF ClearInv, SoundCall, Sound, SerialInv, SerialCall, At
<1>2. /\ paused.next = m.next /\ paused.scored = m.scored /\ paused.routed = m.routed
      /\ paused.duplicates = m.duplicates /\ paused.asked = JobsAt(m, Review(m))
  BY <1>1 DEF Fields
<1>3. /\ thread'[r] = paused /\ \A s \in Run \ {r} : thread'[s] = thread[s]
      /\ call'[c].pc = "persist" /\ call'[c].run = r /\ call'[c].mem = paused
      /\ \A d \in Call \ {c} : call'[d] = call[d]
  BY <1>1 DEF ClearInv, SoundCall
<1>t. /\ runRow' = runRow /\ queue' = queue /\ jobRow' = jobRow /\ shown \subseteq shown'
  BY DEF db
<1>4. JobsAt(m, Review(m)) # {}
  BY DEF JobsAt
<1>5. Shown(paused, r)'
  <2>1. ASSUME NEW i \in DOMAIN m.scored, Unsure(m.scored[i])
        PROVE  <<r, m.scored[i].job>> \in shown'
    <3>1. i \in Review(m)
      BY <1>1, <2>1, UnderReviewIsUnsure
    <3>2. m.scored[i].job \in paused.asked
      BY <1>2, <3>1 DEF JobsAt
    <3>3. QED
      BY <3>2
  <2>2. Shown(m, r)
    BY <1>1 DEF SerialInv, SerialRun
  <2>3. QED
    BY <1>2, <1>t, <2>1, <2>2 DEF Shown
<1>6. ASSUME NEW s \in Run PROVE SerialRun(s)'
  <2>1. SerialRun(s)
    BY DEF SerialInv
  <2>2. Working(s)' <=> Working(s)
    <3>1. ASSUME NEW d \in Call
          PROVE  /\ call'[d].run = call[d].run
                 /\ call'[d].pc \in {"run", "persist"} <=> call[d].pc \in {"run", "persist"}
      BY <1>1, <1>3
    <3>2. QED
      BY <3>1 DEF Working
  <2>3. CASE s # r
    BY <1>3, <1>t, <2>1, <2>2, <2>3, OtherRunIsSerial
  <2>4. CASE s = r
    <3>1. Working(r)'
      BY <1>3 DEF Working
    <3>2. Shown(thread[r], r)'
      BY <1>3, <1>5 DEF Shown
    <3>3. runRow[r].status # "completed" /\ thread'[r].next # "absent"
      BY <1>1, <1>2, <1>3, <2>1, <2>4 DEF SerialRun
    <3>4. QED
      BY <1>t, <2>1, <2>4, <3>1, <3>2, <3>3 DEF SerialRun
  <2>5. QED
    BY <2>3, <2>4
<1>7. SerialCall(c)'
  <2>1. Settled(paused)
    BY <1>1, <1>2, <1>4 DEF Settled
  <2>2. Settled(call'[c].mem) /\ call'[c].mem = thread'[call'[c].run] /\ thread'[r].next # "absent"
    BY <1>1, <1>2, <1>3, <2>1
  <2>3. QED
    BY <1>3, <2>2 DEF SerialCall, Settled
<1>8. ASSUME NEW d \in Call \ {c} PROVE SerialCall(d)'
  <2>1. SerialCall(d) /\ (call[d].pc # "idle" => call[d].run \in Run) /\ call[d].run # r
    BY <1>1, OthersElsewhere DEF SerialInv, ClearInv, SoundCall
  <2>2. call[d].pc # "idle" => thread'[call[d].run] = thread[call[d].run]
    BY <1>3, <2>1
  <2>3. QED
    BY <1>3, <2>1, <2>2, OtherCallIsSerial
<1>9. Alone'
  <2>1. ASSUME NEW d \in Call PROVE call'[d].run = call[d].run
    BY <1>3
  <2>2. ASSUME NEW d \in Call, call'[d].pc # "idle" PROVE call[d].pc # "idle"
    BY <1>1, <1>3, <2>2
  <2>3. QED
    BY <2>1, <2>2 DEF SerialInv, Alone
<1>10. ASSUME NEW j \in Job PROVE RowStands(j)'
  <2>1. RowStands(j) /\ jobRow'[j] = jobRow[j]
    BY <1>t DEF SerialInv
  <2>2. CASE jobRow[j].run = r
    <3>1. /\ thread[r].next = "policy_guard" /\ thread'[r] = paused
          /\ paused.next = "policy_guard" /\ paused.duplicates = thread[r].duplicates
      BY <1>1, <1>2, <1>3
    <3>2. QED
      BY <2>1, <2>2, <3>1, DuplicateRowStands DEF Deduped
  <2>3. CASE jobRow[j].run # r
    BY <1>3, <2>1, <2>3, SameRowStands
  <2>4. QED
    BY <2>2, <2>3
<1>11. QED
  BY <1>6, <1>7, <1>8, <1>9, <1>10, <1>t DEF SerialInv

LEMMA PolicyGuardKeepsSerial ==
  ASSUME ConstantsAssumption, ClearInv, SerialInv, NEW c \in Call, PolicyGuard(c)
  PROVE  SerialInv'
<1>1. PICK m, r, pay, paused :
        /\ m = call[c].mem /\ r = call[c].run /\ pay = call[c].pay
        /\ paused = [m EXCEPT !.asked = JobsAt(m, Review(m))]
  OBVIOUS
<1>2. /\ At(c, "policy_guard") /\ Sound(m, r) /\ DOMAIN m = Fields /\ r \in Run
      /\ \A j \in DOMAIN pay : pay[j] \in Answers
      /\ m = thread[r] /\ SerialCall(c)
  BY <1>1 DEF PolicyGuard, ClearInv, SoundCall, Sound, SerialInv, SerialCall, At
<1>3. CASE /\ Review(m) = {} \/ call[c].resumes
           /\ Complete(c, [m EXCEPT !.routed = RouteAll(m, pay)], "finalize")
  <2> DEFINE u == [m EXCEPT !.routed = RouteAll(m, pay)]
  <2>1. /\ DOMAIN u = Fields /\ u.routed = RouteAll(m, pay) /\ u.scored = m.scored
        /\ u.duplicates = m.duplicates /\ Complete(c, u, "finalize")
    BY <1>2, <1>3 DEF Fields
  <2> HIDE DEF u
  <2>2. ASSUME NEW i \in DOMAIN m.scored, RouteAll(m, pay)[i] = "human_review"
        PROVE  <<r, m.scored[i].job>> \in shown
    <3>1. i \in Review(m)
      BY <1>2, <2>2 DEF RouteAll, Review, Answers
    <3>2. Unsure(m.scored[i])
      BY <1>2, <3>1, UnderReviewIsUnsure
    <3>3. m.asked # {}
      BY <1>1, <1>2, <1>3, <3>1 DEF SerialCall, At
    <3>4. Shown(m, r)
      BY <1>2 DEF SerialInv, SerialRun
    <3>5. QED
      BY <3>2, <3>3, <3>4 DEF Shown
  <2>3. DOMAIN RouteAll(m, pay) = DOMAIN m.scored
    BY DEF RouteAll
  <2>4. QED
    BY <1>1, <1>2, <2>1, <2>2, <2>3, CompleteKeepsSerial DEF Nodes, Deduped
<1>4. CASE Pauses(c, m, r, paused)
  BY <1>4, PauseKeepsSerial
<1>5. QED
  BY <1>1, <1>2, <1>3, <1>4 DEF PolicyGuard, Pauses

(* What is written in a row.                                                *)
LEMMA StatusInFacts ==
  ASSUME NEW m, NEW j, StatusIn(m, j) # "absent"
  PROVE  /\ StatusIn(m, j) = "duplicate" <=> Duplicated(m, j)
         /\ StatusIn(m, j) # "duplicate" => RoutedTo(m, j, StatusIn(m, j))
BY DEF StatusIn, Duplicated, RoutedTo, RowName

LEMMA PersistKeepsSerial ==
  ASSUME ConstantsAssumption, ClearInv, SerialInv, NEW c \in Call, PersistRunResult(c)
  PROVE  SerialInv'
<1>1. PICK r, m : r = call[c].run /\ m = call[c].mem
  OBVIOUS
<1>2. /\ r \in Run /\ m = thread[r] /\ Settled(m) /\ Sound(m, r) /\ call[c].pc = "persist"
      /\ m.next # "absent" /\ SerialRun(r)
  BY <1>1 DEF PersistRunResult, ClearInv, SoundCall, SerialInv, SerialCall
<1>3. /\ DOMAIN runRow' = Run /\ DOMAIN queue' = Run
      /\ runRow'[r] = [status  |-> IF m.asked # {} THEN "waiting_human" ELSE "completed",
                       metrics |-> m.metrics]
      /\ queue'[r] = Intervention(queue[r], m.asked)
      /\ \A s \in Run \ {r} : runRow'[s] = runRow[s] /\ queue'[s] = queue[s]
      /\ thread' = thread /\ shown' = shown
  BY <1>1, <1>2 DEF PersistRunResult, SerialInv
<1>4. \A j \in Job : jobRow'[j] = IF StatusIn(m, j) = "absent" THEN jobRow[j]
                                  ELSE [run |-> r, status |-> StatusIn(m, j)]
  BY <1>1 DEF PersistRunResult
<1>5. call'[c] = Idle /\ \A d \in Call \ {c} : call'[d] = call[d]
  BY DEF PersistRunResult, Return, ClearInv
<1>6. call'[c].pc = "idle" /\ call'[c].run = NoRun
  BY <1>5 DEF Idle
<1>7. \A d \in Call \ {c} : call[d].run # r
  BY <1>1, <1>2, OthersElsewhere
<1>8. ASSUME NEW s \in Run \ {r} PROVE SerialRun(s)'
  <2>1. Working(s)' <=> Working(s)
    BY <1>1, <1>5, <1>6 DEF Working
  <2>2. SerialRun(s)
    BY DEF SerialInv
  <2>3. thread'[s] = thread[s] /\ shown \subseteq shown'
    BY <1>3
  <2>4. QED
    BY <1>3, <2>1, <2>2, <2>3, OtherRunIsSerial
<1>9. SerialRun(r)'
  <2>1. /\ DOMAIN queue'[r] = {"id", "status", "asked"}
        /\ m.asked # {} => queue'[r].status = "pending" /\ queue'[r].asked = m.asked
        /\ m.asked = {} => queue'[r].status # "pending"
    BY <1>2, <1>3 DEF Intervention, SerialRun
  <2>2. /\ m.asked # {} => runRow'[r].status = "waiting_human"
        /\ m.asked = {} => runRow'[r] = [status |-> "completed", metrics |-> m.metrics]
    BY <1>3
  <2>3. Agree(r)'
    BY <1>2, <1>3, <2>1, <2>2 DEF Agree
  <2>4. runRow'[r].status = "completed" => m.asked = {} /\ m.next = "END"
    BY <1>2, <2>2 DEF Settled
  <2>5. Shown(thread[r], r)'
    BY <1>2, <1>3 DEF SerialRun, Shown
  <2>6. Settled(thread[r])'
    BY <1>2, <1>3 DEF Settled
  <2>7. QED
    BY <1>2, <1>3, <2>1, <2>2, <2>3, <2>4, <2>5, <2>6 DEF SerialRun
<1>10. SerialCall(c)'
  BY <1>6 DEF SerialCall
<1>11. ASSUME NEW d \in Call \ {c} PROVE SerialCall(d)'
  BY <1>3, <1>5, OtherCallIsSerial DEF SerialInv
<1>12. Alone'
  <2>1. SUFFICES ASSUME NEW a \in Call, NEW b \in Call, call'[a].pc # "idle",
                        call'[b].run = call'[a].run
                 PROVE  a = b
    BY DEF Alone
  <2>2. a # c /\ call'[a] = call[a] /\ call[a].run \in Run
    BY <1>5, <1>6, <2>1 DEF ClearInv, SoundCall
  <2>3. b # c
    BY <1>6, <2>1, <2>2 DEF ConstantsAssumption
  <2>4. QED
    BY <1>5, <2>1, <2>2, <2>3 DEF SerialInv, Alone
<1>13. ASSUME NEW j \in Job PROVE RowStands(j)'
  <2>1. CASE StatusIn(m, j) = "absent"
    <3>1. jobRow'[j] = jobRow[j] /\ thread' = thread /\ RowStands(j)
      BY <1>3, <1>4, <2>1 DEF SerialInv
    <3>2. QED
      BY <3>1, SameRowStands
  <2>2. CASE StatusIn(m, j) # "absent"
    <3>1. jobRow'[j].run = r /\ jobRow'[j].status = StatusIn(m, j) /\ thread'[r] = m
      <4>1. jobRow'[j] = [run |-> r, status |-> StatusIn(m, j)]
        BY <1>4, <2>2
      <4>2. QED
        BY <1>2, <1>3, <4>1
    <3>2. /\ StatusIn(m, j) = "duplicate" <=> Duplicated(m, j)
          /\ StatusIn(m, j) # "duplicate" => RoutedTo(m, j, StatusIn(m, j))
      BY <2>2, StatusInFacts
    <3>3. m.next \in Deduped /\ (StatusIn(m, j) # "duplicate" => m.next = "END")
      BY <1>2, <3>2 DEF Settled, Deduped, Sound, RoutedTo
    <3>4. QED
      BY <1>2, <3>1, <3>2, <3>3 DEF RowStands, Duplicated, RoutedTo
  <2>3. QED
    BY <2>1, <2>2
<1>14. QED
  BY <1>3, <1>8, <1>9, <1>10, <1>11, <1>12, <1>13 DEF SerialInv

LEMMA StutterKeepsSerial ==
  ASSUME SerialInv, db' = db, thread' = thread, call' = call, shown' = shown
  PROVE  SerialInv'
<1>1. /\ runRow' = runRow /\ queue' = queue /\ jobRow' = jobRow /\ shown' = shown
      /\ thread' = thread /\ call' = call
  BY DEF db
<1>2. ASSUME NEW r \in Run PROVE SerialRun(r)'
  BY <1>1, OtherRunIsSerial DEF SerialInv, Working
<1>3. ASSUME NEW c \in Call PROVE SerialCall(c)'
  BY <1>1, OtherCallIsSerial DEF SerialInv
<1>4. Alone' /\ \A j \in Job : RowStands(j)'
  BY <1>1, SameRowStands DEF SerialInv, Alone
<1>5. QED
  BY <1>1, <1>2, <1>3, <1>4 DEF SerialInv

LEMMA NextKeepsSerial ==
  ASSUME ConstantsAssumption, Serial, "crash" \notin Faults, ClearInv, SerialInv, [Next]_vars
  PROVE  SerialInv'
<1>1. CASE \E c \in Call, r \in Run : StartRun(c, r) \/ Answer(c, r) \/ ResumeDirect(c, r)
  BY <1>1, StartKeepsSerial, AnswerKeepsSerial
<1>2. ASSUME NEW c \in Call, Proceed(c) PROVE SerialInv'
  <2>1. CASE Lookup(c) \/ Load(c)
    BY <2>1, LookupKeepsSerial, LoadKeepsSerial
  <2>2. CASE RunNode(c)
    BY <2>2, EarlyNodesKeepSerial, PolicyGuardKeepsSerial, FinalizeKeepsSerial
    DEF RunNode, EarlyNode
  <2>3. CASE PersistRunResult(c)
    BY <2>3, PersistKeepsSerial
  <2>4. QED
    BY <1>2, <2>1, <2>2, <2>3 DEF Proceed
<1>3. ~Crash
  BY DEF Crash
<1>4. CASE EditLimits
  BY <1>4, StutterKeepsSerial DEF EditLimits
<1>5. CASE UNCHANGED vars
  BY <1>5, StutterKeepsSerial DEF vars, db
<1>6. QED
  BY <1>1, <1>2, <1>3, <1>4, <1>5 DEF Next

(* The inductive invariant of the tables, for an operator who waits for     *)
(* each answer of a process that lives.                                     *)
THEOREM SerialInvariant ==
  ASSUME Serial, "crash" \notin Faults
  PROVE  Spec => []SerialInv
<1>1. Init => SerialInv
  BY InitIsSerial
<1>2. ClearInv /\ SerialInv /\ [Next]_vars => SerialInv'
  BY ConstantsAssumption, NextKeepsSerial
<1>3. QED
  BY <1>1, <1>2, ClearInvariant, PTL DEF Spec

(* human_intervention.py:3: once its calls returned, a paused run is in the *)
(* human-review queue with the jobs it is paused for, and no other run is.  *)
THEOREM PausedRunsAreQueuedHolds ==
  ASSUME Serial, "crash" \notin Faults
  PROVE  Spec => []PausedRunsAreQueued
<1>1. ASSUME ClearInv, SerialInv PROVE PausedRunsAreQueued
  <2>1. SUFFICES ASSUME NEW r \in Run, ~InFlight(r), thread[r].next # "absent"
                 PROVE  /\ thread[r].asked # {} <=> runRow[r].status = "waiting_human"
                        /\ thread[r].asked # {} => /\ queue[r].status = "pending"
                                                   /\ queue[r].asked = thread[r].asked
                        /\ thread[r].asked = {} => queue[r].status # "pending"
    BY DEF PausedRunsAreQueued
  <2>2. ~Working(r)
    BY <2>1 DEF InFlight, Working
  <2>3. QED
    BY <1>1, <2>1, <2>2 DEF SerialInv, SerialRun, Agree
<1>2. QED
  BY <1>1, ClearInvariant, SerialInvariant, PTL

(* README:329-333: a job the run leaves for human review was shown to the   *)
(* operator, whatever the limits are when the node runs again.              *)
THEOREM ReviewedJobsWereShownHolds ==
  ASSUME Serial, "crash" \notin Faults
  PROVE  Spec => []ReviewedJobsWereShown
<1>1. SerialInv => ReviewedJobsWereShown
  BY DEF SerialInv, SerialRun, Shown, ReviewedJobsWereShown
<1>2. QED
  BY <1>1, SerialInvariant, PTL

(* persistence.py:94-113: whichever run wrote it last, the row of a job     *)
(* tells what that run says of it, a kept job that was met again included.  *)
THEOREM RowsTellTheirRunHolds ==
  ASSUME Serial, "crash" \notin Faults
  PROVE  Spec => []RowsTellTheirRun
<1>1. SerialInv => RowsTellTheirRun
  BY DEF SerialInv, RowStands, Duplicated, RoutedTo, RowsTellTheirRun
<1>2. QED
  BY <1>1, SerialInvariant, PTL

(* Resuming a finished run writes what its row says already.                *)
LEMMA CompletedRowStays ==
  ASSUME ClearInv, SerialInv, [Next]_vars, NEW r \in Run, runRow[r].status = "completed"
  PROVE  runRow'[r] = runRow[r]
<1>1. ASSUME NEW c \in Call, PersistRunResult(c) PROVE runRow'[r] = runRow[r]
  <2>1. CASE call[c].run # r
    BY <1>1, <2>1 DEF PersistRunResult, SerialInv
  <2>2. CASE call[c].run = r
    <3>1. call[c].mem = thread[r] /\ Settled(thread[r])
      BY <1>1, <2>2 DEF PersistRunResult, SerialInv, SerialCall
    <3>2. /\ thread[r].next = "END"
          /\ runRow[r] = [status |-> "completed", metrics |-> thread[r].metrics]
      BY DEF SerialInv, SerialRun
    <3>3. thread[r].asked = {}
      BY <3>1, <3>2 DEF Settled
    <3>4. runRow'[r] = [status |-> "completed", metrics |-> thread[r].metrics]
      BY <1>1, <2>2, <3>1, <3>3 DEF PersistRunResult, SerialInv
    <3>5. QED
      BY <3>2, <3>4
  <2>3. QED
    BY <2>1, <2>2
<1>2. CASE runRow' = runRow
  BY <1>2
<1>3. runRow' = runRow \/ \E c \in Call : PersistRunResult(c)
  <2>1. ASSUME NEW c \in Call, NEW s \in Run,
               StartRun(c, s) \/ Answer(c, s) \/ ResumeDirect(c, s)
        PROVE  runRow' = runRow
    BY <2>1 DEF StartRun, Answer, ResumeDirect, Send, db
  <2>2. ASSUME NEW c \in Call, RunNode(c) PROVE runRow' = runRow
    <3>1. ASSUME NEW update, NEW next, Complete(c, update, next) PROVE runRow' = runRow
      BY <3>1 DEF Complete, db
    <3>2. CASE LoadCandidateProfile(c) \/ LoadSearchPolicy(c) \/ NormalizeJobs(c)
               \/ DedupeJobs(c) \/ Finalize(c)
      BY <3>1, <3>2 DEF LoadCandidateProfile, LoadSearchPolicy, NormalizeJobs, DedupeJobs, Finalize
    <3>3. CASE DiscoverPortals(c)
      BY <3>1, <3>3 DEF DiscoverPortals
    <3>4. CASE ScoreJobs(c)
      BY <3>1, <3>4 DEF ScoreJobs
    <3>5. CASE PolicyGuard(c)
      BY <3>1, <3>5 DEF PolicyGuard, db
    <3>6. QED
      BY <2>2, <3>2, <3>3, <3>4, <3>5 DEF RunNode
  <2>3. ASSUME NEW c \in Call, Lookup(c) \/ Load(c) PROVE runRow' = runRow
    BY <2>3 DEF Lookup, Load, db
  <2>4. CASE Crash \/ EditLimits \/ UNCHANGED vars
    BY <2>4 DEF Crash, EditLimits, vars, db
  <2>5. QED
    BY <2>1, <2>2, <2>3, <2>4 DEF Next, Proceed
<1>4. QED
  BY <1>1, <1>2, <1>3

(* A completed run stays completed, with the metrics it reported.           *)
THEOREM CompletedIsFinalHolds ==
  ASSUME Serial, "crash" \notin Faults
  PROVE  Spec => CompletedIsFinal
<1>1. ClearInv /\ SerialInv /\ [Next]_vars =>
        [\A r \in Run : runRow[r].status = "completed" => runRow'[r] = runRow[r]]_runRow
  BY CompletedRowStays
<1>2. QED
  BY <1>1, ClearInvariant, SerialInvariant, PTL DEF Spec, CompletedIsFinal

-----------------------------------------------------------------------------
(* A job is scored once, and the decisions *)

(* One run hears of one opportunity under an id: what portals answer, the   *)
(* same portal twice included, does not change a posting's company, title   *)
(* family or location.                                                      *)
OneOpportunityPerId ==
  \A list \in PortalLists : \A i, k \in DOMAIN list :
    \A a \in Boards[list[i]], b \in Boards[list[k]] :
      (i = k => a = b) =>
        \A x \in DOMAIN a, y \in DOMAIN b :
          a[x].ok /\ b[y].ok /\ a[x].job = b[y].job => a[x].key = b[y].key

Once(list) == \A x, y \in DOMAIN list : list[x].job = list[y].job => x = y

Unmistaken(list, kept) ==
  \A x, y \in DOMAIN list :
    (x \in kept /\ y \in kept /\ list[x].job = list[y].job) => list[x].key = list[y].key

BeforeDedupe == {"absent", "load_candidate_profile", "load_search_policy", "discover_portal",
                 "normalize_jobs", "dedupe_jobs"}

(* The lists of a checkpoint before node next know one opportunity per id,  *)
(* and those the dedupe leaves name a job once.                             *)
Distinct(m, next) ==
  /\ next = "discover_portal" => m.portals \in PortalLists
  /\ Unmistaken(m.discovered, {x \in DOMAIN m.discovered : m.discovered[x].ok})
  /\ Unmistaken(m.jobs, DOMAIN m.jobs)
  /\ next \notin BeforeDedupe => Once(m.jobs)
  /\ Once(m.scored)

DistinctInv == \A r \in Run : Distinct(thread[r], thread[r].next)

LEMMA InitIsDistinct == Init => DistinctInv
<1> SUFFICES ASSUME Init PROVE DistinctInv
  OBVIOUS
<1>1. \A r \in Run : thread[r] = NoCheckpoint
  BY DEF Init
<1>2. Distinct(NoCheckpoint, NoCheckpoint.next)
  BY DEF Distinct, Once, Unmistaken, NoCheckpoint, BeforeDedupe
<1>3. QED
  BY <1>1, <1>2 DEF DistinctInv

(* One checkpoint is written.                                               *)
LEMMA CheckpointKeepsDistinct ==
  ASSUME DistinctInv, NEW r \in Run, NEW n, thread'[r] = n, Distinct(n, n.next),
         \A s \in Run \ {r} : thread'[s] = thread[s]
  PROVE  DistinctInv'
<1> SUFFICES ASSUME NEW s \in Run PROVE Distinct(thread[s], thread[s].next)'
  BY DEF DistinctInv
<1>1. CASE s = r
  BY <1>1 DEF Distinct, Once, Unmistaken
<1>2. CASE s # r
  BY <1>2 DEF DistinctInv, Distinct, Once, Unmistaken
<1>3. QED
  BY <1>1, <1>2

LEMMA CompleteKeepsDistinct ==
  ASSUME ClearInv, SerialInv, DistinctInv, NEW c \in Call, NEW node, At(c, node),
         NEW update, NEW next, Complete(c, update, next), DOMAIN update = Fields,
         Distinct(update, next)
  PROVE  DistinctInv'
<1> DEFINE n == [update EXCEPT !.next = next, !.asked = {}]
           label == IF next = "END" THEN "persist" ELSE "run"
<1>1. PICK r : r = call[c].run
  OBVIOUS
<1>2. r \in Run
  BY <1>1 DEF At, ClearInv, SoundCall
<1>3. /\ n.next = next /\ n.portals = update.portals /\ n.discovered = update.discovered
      /\ n.jobs = update.jobs /\ n.scored = update.scored
  BY DEF Fields
<1>4. WriteCheckpoint(c, r, n, label)
  BY <1>1 DEF Complete
<1> HIDE DEF n, label
<1>5. thread'[r] = n /\ \A s \in Run \ {r} : thread'[s] = thread[s]
  BY <1>2, <1>4 DEF WriteCheckpoint, ClearInv
<1>6. Distinct(n, n.next)
  BY <1>3 DEF Distinct
<1>7. QED
  BY <1>2, <1>5, <1>6, CheckpointKeepsDistinct

(* What the portals of a list answer knows one opportunity per id.          *)
LEMMA DiscoveredUnmistaken ==
  ASSUME ConstantsAssumption, OneOpportunityPerId, NEW portals \in PortalLists,
         NEW listing \in Seq(Seq(Postings)), DOMAIN listing = DOMAIN portals,
         \A i \in DOMAIN portals : listing[i] \in Boards[portals[i]] \cup {<<>>},
         NEW found, found = FlattenSeq(listing),
         NEW x \in DOMAIN found, NEW y \in DOMAIN found,
         found[x].ok, found[y].ok, found[x].job = found[y].job
  PROVE  found[x].key = found[y].key
<1>1. PICK u, v : Sources(found, listing, Len(listing), u, v)
  BY FlattenFacts
<1>2. DOMAIN listing = 1 .. Len(listing)
  OBVIOUS
<1>3. /\ u[x] \in DOMAIN portals /\ v[x] \in DOMAIN listing[u[x]]
      /\ found[x] = listing[u[x]][v[x]]
      /\ u[y] \in DOMAIN portals /\ v[y] \in DOMAIN listing[u[y]]
      /\ found[y] = listing[u[y]][v[y]]
  BY <1>1, <1>2 DEF Sources
<1>4. \A l : l = <<>> => DOMAIN l = {}
  OBVIOUS
<1>5. listing[u[x]] \in Boards[portals[u[x]]] /\ listing[u[y]] \in Boards[portals[u[y]]]
  BY <1>3, <1>4, Zenon
<1>6. u[x] = u[y] => listing[u[x]] = listing[u[y]]
  OBVIOUS
<1>7. PICK i \in DOMAIN portals, k \in DOMAIN portals : i = u[x] /\ k = u[y]
  BY <1>3
<1>8. PICK a, b : /\ a = listing[i] /\ b = listing[k]
                  /\ a \in Boards[portals[i]] /\ b \in Boards[portals[k]]
                  /\ i = k => a = b
  BY <1>5, <1>6, <1>7
<1>9. \A p \in DOMAIN a, q \in DOMAIN b :
        a[p].ok /\ b[q].ok /\ a[p].job = b[q].job => a[p].key = b[q].key
  BY <1>8 DEF OneOpportunityPerId
<1>10. /\ v[x] \in DOMAIN a /\ v[y] \in DOMAIN b
       /\ found[x] = a[v[x]] /\ found[y] = b[v[y]]
  BY <1>3, <1>7, <1>8
<1>11. QED
  BY <1>9, <1>10

LEMMA PickedOnce ==
  ASSUME NEW S, NEW list \in Seq(S), NEW at,
         \A x, y \in DOMAIN list \cap at : list[x].job = list[y].job => x = y
  PROVE  Once(Pick(list, at))
<1>1. PICK u : /\ \A x \in DOMAIN Pick(list, at) :
                    u[x] \in DOMAIN list \cap at /\ Pick(list, at)[x] = list[u[x]]
               /\ \A x, y \in DOMAIN Pick(list, at) : u[x] = u[y] => x = y
  BY PickFacts
<1>2. QED
  BY <1>1 DEF Once

(* What is picked from a list that knows one opportunity per id does too.   *)
LEMMA PickedUnmistaken ==
  ASSUME NEW S, NEW list \in Seq(S), NEW at, Unmistaken(list, DOMAIN list \cap at)
  PROVE  Unmistaken(Pick(list, at), DOMAIN Pick(list, at))
<1>1. PICK u : \A x \in DOMAIN Pick(list, at) :
                 u[x] \in DOMAIN list \cap at /\ Pick(list, at)[x] = list[u[x]]
  BY PickFacts
<1>2. QED
  BY <1>1 DEF Unmistaken

LEMMA EarlyNodesKeepDistinct ==
  ASSUME ConstantsAssumption, OneOpportunityPerId, TypeOK, ClearInv, SerialInv, DistinctInv,
         NEW c \in Call, EarlyNode(c)
  PROVE  DistinctInv'
<1> DEFINE m == call[c].mem
<1>1. m \in Checkpoints /\ Distinct(m, m.next) /\ DOMAIN m = Fields
  <2>1. call[c].pc = "run"
    BY DEF EarlyNode, LoadCandidateProfile, LoadSearchPolicy, DiscoverPortals, NormalizeJobs,
           DedupeJobs, ScoreJobs, At
  <2>2. call[c].run \in Run /\ m = thread[call[c].run] /\ DOMAIN m = Fields
    BY <2>1 DEF ClearInv, SoundCall, Sound, SerialInv, SerialCall
  <2>3. QED
    BY <2>2 DEF TypeOK, DistinctInv
<1>2. /\ m.portals \in Seq(Portal) /\ m.discovered \in Seq(Postings) /\ m.jobs \in Seq(Postings)
  BY <1>1 DEF Checkpoints
<1>3. CASE LoadCandidateProfile(c)
  <2>1. PICK found : Complete(c, [m EXCEPT !.profile = found], "load_search_policy")
    BY <1>3 DEF LoadCandidateProfile
  <2>2. PICK u : u = [m EXCEPT !.profile = found]
    OBVIOUS
  <2>3. /\ DOMAIN u = Fields /\ u.discovered = m.discovered
        /\ u.jobs = m.jobs /\ u.scored = m.scored
        /\ Complete(c, u, "load_search_policy") /\ At(c, "load_candidate_profile")
    BY <1>1, <1>3, <2>1, <2>2 DEF Fields, LoadCandidateProfile
  <2>4. Distinct(u, "load_search_policy")
    BY <1>1, <2>3 DEF Distinct, BeforeDedupe
  <2>5. QED
    BY <2>3, <2>4, CompleteKeepsDistinct
<1>4. CASE LoadSearchPolicy(c)
  <2>1. PICK list \in PortalLists : Complete(c, [m EXCEPT !.portals = list], "discover_portal")
    BY <1>4 DEF LoadSearchPolicy
  <2>2. PICK u : u = [m EXCEPT !.portals = list]
    OBVIOUS
  <2>3. /\ DOMAIN u = Fields /\ u.portals = list /\ u.discovered = m.discovered
        /\ u.jobs = m.jobs /\ u.scored = m.scored
        /\ Complete(c, u, "discover_portal") /\ At(c, "load_search_policy")
    BY <1>1, <1>4, <2>1, <2>2 DEF Fields, LoadSearchPolicy
  <2>4. Distinct(u, "discover_portal")
    BY <1>1, <2>3 DEF Distinct, BeforeDedupe
  <2>5. QED
    BY <2>3, <2>4, CompleteKeepsDistinct
<1>5. CASE DiscoverPortals(c)
  <2>1. PICK listing \in [DOMAIN m.portals -> (UNION {Boards[p] : p \in Portal}) \cup {<<>>}] :
          /\ \A i \in DOMAIN m.portals : listing[i] \in Boards[m.portals[i]] \cup {<<>>}
          /\ Complete(c, [m EXCEPT !.discovered = FlattenSeq(listing)], "normalize_jobs")
    BY <1>5 DEF DiscoverPortals
  <2>2. PICK found, u : found = FlattenSeq(listing) /\ u = [m EXCEPT !.discovered = found]
    OBVIOUS
  <2>3. /\ DOMAIN u = Fields /\ u.discovered = found /\ u.jobs = m.jobs /\ u.scored = m.scored
        /\ Complete(c, u, "normalize_jobs") /\ At(c, "discover_portal")
    BY <1>1, <1>5, <2>1, <2>2 DEF Fields, DiscoverPortals
  <2>4. listing \in Seq(Seq(Postings)) /\ DOMAIN listing = DOMAIN m.portals
    <3>1. \A p \in Portal : Boards[p] \in SUBSET Seq(Postings)
      BY DEF ConstantsAssumption
    <3>2. \A i \in DOMAIN m.portals : m.portals[i] \in Portal
      BY <1>2
    <3>3. \A i \in DOMAIN m.portals : listing[i] \in Seq(Postings)
      <4>1. <<>> \in Seq(Postings)
        OBVIOUS
      <4> HIDE DEF m
      <4>2. QED
        BY <2>1, <3>1, <3>2, <4>1, Zenon
    <3>4. listing = [i \in DOMAIN m.portals |-> listing[i]]
      BY <2>1
    <3>5. DOMAIN m.portals = 1 .. Len(m.portals) /\ Len(m.portals) \in Nat
      BY <1>2
    <3> HIDE DEF m
    <3>6. DOMAIN listing = DOMAIN m.portals
      BY <2>1
    <3>7. listing \in [1 .. Len(m.portals) -> Seq(Postings)]
      BY <3>3, <3>4, <3>5
    <3>8. QED
      BY <3>5, <3>6, <3>7
  <2>5. m.portals \in PortalLists
    BY <1>1, <2>3 DEF Distinct, At
  <2> HIDE DEF m
  <2>6. ASSUME NEW x \in DOMAIN found, NEW y \in DOMAIN found,
               found[x].ok, found[y].ok, found[x].job = found[y].job
        PROVE  found[x].key = found[y].key
    BY <2>1, <2>2, <2>4, <2>5, <2>6, DiscoveredUnmistaken
  <2>7. Distinct(u, "normalize_jobs")
    BY <1>1, <2>3, <2>6 DEF Distinct, Unmistaken, BeforeDedupe
  <2>8. QED
    BY <2>3, <2>7, CompleteKeepsDistinct
<1>6. CASE NormalizeJobs(c)
  <2>1. PICK at : at = {i \in DOMAIN m.discovered : m.discovered[i].ok}
    OBVIOUS
  <2>2. PICK list, u : list = Pick(m.discovered, at) /\ u = [m EXCEPT !.jobs = list]
    OBVIOUS
  <2>3. /\ DOMAIN u = Fields /\ u.discovered = m.discovered /\ u.jobs = list
        /\ u.scored = m.scored
        /\ Complete(c, u, "dedupe_jobs") /\ At(c, "normalize_jobs")
    BY <1>1, <1>6, <2>1, <2>2 DEF Fields, NormalizeJobs
  <2>4. Unmistaken(list, DOMAIN list)
    <3>1. Unmistaken(m.discovered, DOMAIN m.discovered \cap at)
      BY <1>1, <2>1 DEF Distinct, Unmistaken
    <3> HIDE DEF m
    <3>2. QED
      BY <1>2, <2>2, <3>1, PickedUnmistaken
  <2>5. Distinct(u, "dedupe_jobs")
    BY <1>1, <2>3, <2>4 DEF Distinct, BeforeDedupe
  <2>6. QED
    BY <2>3, <2>5, CompleteKeepsDistinct
<1>7. CASE DedupeJobs(c)
  <2>1. PICK at, repeats :
          /\ at = {i \in DOMAIN m.jobs :
                    (\E k \in 1 .. i - 1 : m.jobs[k].key = m.jobs[i].key) = FALSE}
          /\ repeats = Repeats(m.jobs, TRUE)
    OBVIOUS
  <2>2. PICK list, u : /\ list = Pick(m.jobs, at)
                       /\ u = [m EXCEPT !.jobs = list, !.duplicates = repeats]
    OBVIOUS
  <2>3. Repeats(m.jobs, FALSE) = list
    BY <2>1, <2>2 DEF Repeats
  <2>4. Complete(c, u, "score_jobs") /\ At(c, "dedupe_jobs")
    BY <1>7, <2>1, <2>2, <2>3 DEF DedupeJobs
  <2>5. /\ DOMAIN u = Fields /\ u.discovered = m.discovered /\ u.jobs = list
        /\ u.scored = m.scored
    BY <1>1, <2>2 DEF Fields
  <2>6. Unmistaken(m.jobs, DOMAIN m.jobs) /\ DOMAIN m.jobs = 1 .. Len(m.jobs)
    BY <1>1, <1>2 DEF Distinct
  <2>7. ASSUME NEW x \in DOMAIN m.jobs \cap at, NEW y \in DOMAIN m.jobs \cap at,
               m.jobs[x].job = m.jobs[y].job
        PROVE  x = y
    <3>1. m.jobs[x].key = m.jobs[y].key
      BY <2>6, <2>7 DEF Unmistaken
    <3>2. x \in Int /\ y \in Int /\ x >= 1 /\ y >= 1
      BY <2>6
    <3>3. ~ x < y
      BY <2>1, <3>1, <3>2
    <3>4. ~ y < x
      BY <2>1, <3>1, <3>2
    <3>5. QED
      BY <3>2, <3>3, <3>4
  <2>8. Once(list) /\ Unmistaken(list, DOMAIN list)
    <3>1. Unmistaken(m.jobs, DOMAIN m.jobs \cap at)
      BY <2>6 DEF Unmistaken
    <3> HIDE DEF m
    <3>2. Once(list)
      BY <1>2, <2>2, <2>7, PickedOnce
    <3>3. QED
      BY <1>2, <2>2, <3>1, <3>2, PickedUnmistaken
  <2>9. Distinct(u, "score_jobs")
    BY <1>1, <2>5, <2>8 DEF Distinct
  <2>10. QED
    BY <2>4, <2>5, <2>9, CompleteKeepsDistinct
<1>8. CASE ScoreJobs(c)
  <2>1. PICK rating, scored :
          /\ rating \in [DOMAIN m.jobs -> Ratings]
          /\ scored = IF m.profile
                        THEN [i \in DOMAIN m.jobs |->
                                [job |-> m.jobs[i].job,
                                 recommendation |-> rating[i].recommendation,
                                 verdict |-> rating[i].verdict]]
                        ELSE <<>>
          /\ Complete(c, [m EXCEPT !.scored = scored], "policy_guard")
    BY <1>8 DEF ScoreJobs
  <2>2. PICK u : u = [m EXCEPT !.scored = scored]
    OBVIOUS
  <2>3. /\ DOMAIN u = Fields /\ u.discovered = m.discovered /\ u.jobs = m.jobs
        /\ u.scored = scored
        /\ Complete(c, u, "policy_guard") /\ At(c, "score_jobs")
    BY <1>1, <1>8, <2>1, <2>2 DEF Fields, ScoreJobs
  <2>4. Once(m.jobs)
    BY <1>1, <2>3 DEF Distinct, At, BeforeDedupe
  <2>5. Once(scored)
    <3>1. DOMAIN scored \subseteq DOMAIN m.jobs
      BY <2>1
    <3>2. \A i \in DOMAIN scored : scored[i].job = m.jobs[i].job
      BY <2>1
    <3>3. QED
      BY <2>4, <3>1, <3>2 DEF Once
  <2>6. Distinct(u, "policy_guard")
    BY <1>1, <2>3, <2>4, <2>5 DEF Distinct
  <2>7. QED
    BY <2>3, <2>6, CompleteKeepsDistinct
<1>9. QED
  BY <1>3, <1>4, <1>5, <1>6, <1>7, <1>8 DEF EarlyNode

LEMMA LateNodesKeepDistinct ==
  ASSUME TypeOK, ClearInv, SerialInv, DistinctInv, NEW c \in Call, PolicyGuard(c) \/ Finalize(c)
  PROVE  DistinctInv'
<1>1. PICK m, r : m = call[c].mem /\ r = call[c].run
  OBVIOUS
<1>2. /\ r \in Run /\ m = thread[r] /\ DOMAIN m = Fields /\ Distinct(m, m.next)
      /\ call[c].pc = "run" /\ call[c].latest /\ m.next \in {"policy_guard", "finalize"}
  BY <1>1 DEF PolicyGuard, Finalize, At, ClearInv, SoundCall, Sound, SerialInv, SerialCall, DistinctInv
<1>3. CASE Finalize(c)
  <2>1. PICK metrics : Complete(c, [m EXCEPT !.metrics = metrics], "END")
    BY <1>1, <1>3 DEF Finalize
  <2>2. PICK u : u = [m EXCEPT !.metrics = metrics]
    OBVIOUS
  <2>3. /\ DOMAIN u = Fields /\ u.discovered = m.discovered
        /\ u.jobs = m.jobs /\ u.scored = m.scored
        /\ Complete(c, u, "END") /\ At(c, "finalize")
    BY <1>2, <1>3, <2>1, <2>2 DEF Fields, Finalize
  <2>4. Distinct(u, "END")
    BY <1>2, <2>3 DEF Distinct, BeforeDedupe
  <2>5. QED
    BY <2>3, <2>4, CompleteKeepsDistinct
<1>4. CASE /\ At(c, "policy_guard")
           /\ Complete(c, [m EXCEPT !.routed = RouteAll(m, call[c].pay)], "finalize")
  <2>1. PICK u : u = [m EXCEPT !.routed = RouteAll(m, call[c].pay)]
    OBVIOUS
  <2>2. /\ DOMAIN u = Fields /\ u.discovered = m.discovered
        /\ u.jobs = m.jobs /\ u.scored = m.scored
        /\ Complete(c, u, "finalize")
    BY <1>2, <1>4, <2>1 DEF Fields
  <2>3. Distinct(u, "finalize")
    BY <1>2, <2>2 DEF Distinct, BeforeDedupe
  <2>4. QED
    BY <1>4, <2>2, <2>3, CompleteKeepsDistinct
<1>5. ASSUME NEW paused, Pauses(c, m, r, paused) PROVE DistinctInv'
  <2>1. /\ paused.next = m.next /\ paused.portals = m.portals
        /\ paused.discovered = m.discovered /\ paused.jobs = m.jobs
        /\ paused.scored = m.scored
    BY <1>2, <1>5 DEF Pauses, Fields
  <2>2. thread'[r] = paused /\ \A s \in Run \ {r} : thread'[s] = thread[s]
    BY <1>2, <1>5 DEF Pauses, ClearInv
  <2>3. Distinct(paused, paused.next)
    BY <1>2, <2>1 DEF Distinct
  <2>4. QED
    BY <1>2, <2>2, <2>3, CheckpointKeepsDistinct
<1>6. PICK paused : paused = [m EXCEPT !.asked = JobsAt(m, Review(m))]
  OBVIOUS
<1>7. CASE PolicyGuard(c)
  <2>1. \/ /\ At(c, "policy_guard")
           /\ Complete(c, [m EXCEPT !.routed = RouteAll(m, call[c].pay)], "finalize")
        \/ Pauses(c, m, r, paused)
    BY <1>1, <1>6, <1>7 DEF PolicyGuard, Pauses
  <2>2. QED
    BY <1>4, <1>5, <2>1
<1>8. QED
  BY <1>3, <1>7

LEMMA StutterKeepsDistinct ==
  ASSUME DistinctInv, thread' = thread
  PROVE  DistinctInv'
BY DEF DistinctInv, Distinct, Once, Unmistaken

LEMMA NextKeepsDistinct ==
  ASSUME ConstantsAssumption, OneOpportunityPerId, TypeOK, ClearInv, SerialInv, DistinctInv,
         [Next]_vars
  PROVE  DistinctInv'
<1>1. ASSUME NEW c \in Call, NEW r \in Run, StartRun(c, r) PROVE DistinctInv'
  <2>1. PICK n : n = [NoCheckpoint EXCEPT !.next = "load_candidate_profile"]
    OBVIOUS
  <2>2. Distinct(n, n.next)
    BY <2>1 DEF Distinct, Once, Unmistaken, NoCheckpoint, BeforeDedupe
  <2>3. thread'[r] = n /\ \A s \in Run \ {r} : thread'[s] = thread[s]
    BY <1>1, <2>1 DEF StartRun, WriteCheckpoint, ClearInv
  <2>4. QED
    BY <2>2, <2>3, CheckpointKeepsDistinct
<1>2. ASSUME NEW c \in Call, NEW r \in Run, Answer(c, r) \/ ResumeDirect(c, r) PROVE DistinctInv'
  BY <1>2, StutterKeepsDistinct DEF Answer, ResumeDirect, Send
<1>3. ASSUME NEW c \in Call, Proceed(c) PROVE DistinctInv'
  <2>1. CASE Lookup(c) \/ Load(c) \/ PersistRunResult(c)
    BY <2>1, StutterKeepsDistinct DEF Lookup, Load, PersistRunResult
  <2>2. CASE RunNode(c)
    BY <2>2, EarlyNodesKeepDistinct, LateNodesKeepDistinct DEF RunNode, EarlyNode
  <2>3. QED
    BY <1>3, <2>1, <2>2 DEF Proceed
<1>4. CASE Crash \/ EditLimits \/ UNCHANGED vars
  BY <1>4, StutterKeepsDistinct DEF Crash, EditLimits, vars
<1>5. QED
  BY <1>1, <1>2, <1>3, <1>4 DEF Next

(* The inductive invariant of the lists: a run scores a job once, although  *)
(* a portal enabled twice, or two boards, list it again.                    *)
THEOREM DistinctInvariant ==
  ASSUME Serial, "crash" \notin Faults, OneOpportunityPerId
  PROVE  Spec => []DistinctInv
<1>1. Init => DistinctInv
  BY InitIsDistinct
<1>2. TypeOK /\ ClearInv /\ SerialInv /\ DistinctInv /\ [Next]_vars => DistinctInv'
  BY ConstantsAssumption, NextKeepsDistinct
<1>3. QED
  BY <1>1, <1>2, TypeCorrect, ClearInvariant, SerialInvariant, PTL DEF Spec

-----------------------------------------------------------------------------
(* What the operator decided *)

Honoured(m, j, choice) ==
  /\ m.next \in {"finalize", "END"}
  /\ \A i \in DOMAIN m.routed : m.scored[i].job = j => m.routed[i] = choice

(* The decision is under way.                                               *)
Carries(c, r, j, choice) ==
  /\ call[c].run = r /\ call[c].pc \in {"lookup", "load", "run"} /\ call[c].resumes
  /\ j \in DOMAIN call[c].pay /\ call[c].pay[j] = choice

(* A call decides about what its run asks; its record waits for it.         *)
Fitting(c, r) ==
  call[c].run = r =>
    /\ call[c].pc \in {"lookup", "load", "run"} => DOMAIN call[c].pay \subseteq thread[r].asked
    /\ call[c].pc = "lookup" => queue[r].status = "pending" /\ queue[r].id = call[c].view

HonourRun(r) ==
  /\ thread[r].asked # {} => thread[r].asked = JobsAt(thread[r], Review(thread[r]))
  /\ \A j \in Job, choice \in Answers : <<r, j, choice>> \in said =>
       Honoured(thread[r], j, choice) \/ \E c \in Call : Carries(c, r, j, choice)
  /\ \A c \in Call : Fitting(c, r)

HonourInv == \A r \in Run : HonourRun(r)

LEMMA InitIsHonoured == ConstantsAssumption /\ Init => HonourInv
<1> SUFFICES ASSUME ConstantsAssumption, Init, NEW r \in Run PROVE HonourRun(r)
  BY DEF HonourInv
<1>1. thread[r].asked = {} /\ said = {}
  BY DEF Init, NoCheckpoint
<1>2. \A c \in Call : call[c].run = NoRun
  BY DEF Init, Idle
<1>3. QED
  BY <1>1, <1>2 DEF HonourRun, Fitting, ConstantsAssumption

(* Under the same limits the same jobs are under review.                    *)
LEMMA ReviewIsStable ==
  ASSUME NEW m, limits' = limits
  PROVE  Review(m)' = Review(m)
BY DEF Review, Destination

(* The call is as it was, as far as its answer goes.                        *)
Unmoved(d) ==
  /\ call'[d].run = call[d].run /\ call'[d].pc = call[d].pc /\ call'[d].view = call[d].view
  /\ call'[d].resumes = call[d].resumes /\ call'[d].pay = call[d].pay

(* A step of one call on one run.                                           *)
LEMMA OneRunKeepsHonour ==
  ASSUME ConstantsAssumption, HonourInv, NEW c \in Call, NEW r \in Run, limits' = limits,
         call[c].run \in {NoRun, r}, call'[c].run \in {NoRun, r},
         \A d \in Call \ {c} : Unmoved(d),
         \A s \in Run \ {r} : thread'[s] = thread[s] /\ queue'[s] = queue[s],
         \A s \in Run \ {r}, j \in Job, choice \in Answers :
           <<s, j, choice>> \in said' => <<s, j, choice>> \in said,
         HonourRun(r)'
  PROVE  HonourInv'
<1> SUFFICES ASSUME NEW s \in Run \ {r} PROVE HonourRun(s)'
  BY DEF HonourInv
<1>1. HonourRun(s)
  BY DEF HonourInv
<1>2. call[c].run # s /\ call'[c].run # s
  BY DEF ConstantsAssumption
<1>3. PICK m : m = thread[s] /\ m = thread'[s]
  OBVIOUS
<1>4. JobsAt(m, Review(m))' = JobsAt(m, Review(m))
  BY ReviewIsStable DEF JobsAt
<1>5. (thread[s].asked # {} => thread[s].asked = JobsAt(thread[s], Review(thread[s])))'
  <2>1. m.asked # {} => m.asked = JobsAt(m, Review(m))
    BY <1>1, <1>3 DEF HonourRun
  <2>2. (m.asked # {} => m.asked = JobsAt(m, Review(m)))'
    BY <1>4, <2>1
  <2>3. QED
    BY <1>3, <2>2 DEF JobsAt, Review
<1>6. ASSUME NEW d \in Call PROVE Fitting(d, s)'
  <2>1. CASE d = c
    BY <1>2, <2>1 DEF Fitting
  <2>2. CASE d # c
    BY <1>1, <2>2 DEF HonourRun, Fitting, Unmoved
  <2>3. QED
    BY <2>1, <2>2
<1>7. ASSUME NEW j \in Job, NEW choice \in Answers, <<s, j, choice>> \in said'
      PROVE  Honoured(thread[s], j, choice)' \/ \E d \in Call : Carries(d, s, j, choice)'
  <2>1. CASE Honoured(thread[s], j, choice)
    BY <2>1 DEF Honoured
  <2>2. ASSUME NEW d \in Call, Carries(d, s, j, choice)
        PROVE  Carries(d, s, j, choice)'
    <3>1. d # c
      BY <1>2, <2>2 DEF Carries
    <3>2. QED
      BY <2>2, <3>1 DEF Carries, Unmoved
  <2>3. QED
    BY <1>1, <1>7, <2>1, <2>2 DEF HonourRun
<1>8. QED
  BY <1>5, <1>6, <1>7 DEF HonourRun

(* A checkpoint is written by the only call of its run.                     *)
LEMMA WriteKeepsHonour ==
  ASSUME ConstantsAssumption, ClearInv, HonourInv, NEW c \in Call, NEW r \in Run, NEW n, NEW label,
         WriteCheckpoint(c, r, n, label), UNCHANGED <<queue, said, limits>>, n.asked = {},
         label \in {"run", "persist"}, call[c].run \in {NoRun, r},
         \A d \in Call \ {c} : call[d].run # r,
         \A j \in Job, choice \in Answers : <<r, j, choice>> \in said => Honoured(n, j, choice)
  PROVE  HonourInv'
<1>w. /\ DOMAIN thread' = Run /\ thread'[r] = n
      /\ \A s \in Run \ {r} : thread'[s] = thread[s]
      /\ DOMAIN call' = Call
      /\ call'[c] = [pc |-> label, run |-> r, resumes |-> FALSE, pay |-> Nothing,
                     view |-> 0, mem |-> n, latest |-> TRUE]
      /\ \A d \in Call \ {c} :
           /\ DOMAIN call'[d] = DOMAIN call[d]
           /\ call'[d].pc = call[d].pc /\ call'[d].run = call[d].run
           /\ call'[d].resumes = call[d].resumes /\ call'[d].pay = call[d].pay
           /\ call'[d].view = call[d].view /\ call'[d].mem = call[d].mem
           /\ call'[d].latest = (call[d].latest /\ call[d].run # r)
  BY Written, Zenon
<1>1. /\ thread'[r] = n /\ \A s \in Run \ {r} : thread'[s] = thread[s]
      /\ \A d \in Call \ {c} : Unmoved(d)
  BY <1>w DEF Unmoved
<1>2. call'[c].run = r /\ call'[c].pc = label /\ call'[c].pay = Nothing
  BY <1>w
<1>3. ASSUME NEW d \in Call PROVE Fitting(d, r)'
  <2>1. CASE d = c
    BY <1>2, <2>1, NothingIsDecided DEF Fitting
  <2>2. CASE d # c
    BY <1>1, <2>2 DEF Fitting, Unmoved
  <2>3. QED
    BY <2>1, <2>2
<1>4. HonourRun(r)'
  BY <1>1, <1>3 DEF HonourRun, Honoured
<1>5. QED
  BY <1>1, <1>2, <1>4, OneRunKeepsHonour

(* Of a run that no answer is under way for and that has not been routed,   *)
(* nothing was decided.                                                     *)
LEMMA NothingSaid ==
  ASSUME HonourInv, NEW r \in Run, thread[r].next \notin {"finalize", "END"},
         \A c \in Call : call[c].run = r => ~call[c].resumes \/ call[c].pc \notin {"lookup", "load", "run"},
         NEW j \in Job, NEW choice \in Answers
  PROVE  <<r, j, choice>> \notin said
BY DEF HonourInv, HonourRun, Honoured, Carries

LEMMA StartKeepsHonour ==
  ASSUME ConstantsAssumption, ClearInv, SerialInv, HonourInv, NEW c \in Call, NEW r \in Run,
         StartRun(c, r)
  PROVE  HonourInv'
<1>1. PICK n : n = [NoCheckpoint EXCEPT !.next = "load_candidate_profile"]
  OBVIOUS
<1>2. /\ call[c].pc = "idle" /\ thread[r].next = "absent" /\ WriteCheckpoint(c, r, n, "run")
      /\ UNCHANGED <<queue, said, limits>> /\ n.asked = {}
  BY <1>1 DEF StartRun, db, NoCheckpoint
<1>3. call[c].run = NoRun
  BY <1>2 DEF SerialInv, SerialCall
<1>4. ASSUME NEW d \in Call PROVE call[d].run # r
  <2>1. call[d].pc = "idle" => call[d].run = NoRun
    BY DEF SerialInv, SerialCall
  <2>2. call[d].pc # "idle" => thread[call[d].run].next # "absent"
    BY DEF SerialInv, SerialCall
  <2>3. QED
    BY <1>2, <2>1, <2>2 DEF ConstantsAssumption
<1>5. \A j \in Job, choice \in Answers : <<r, j, choice>> \notin said
  BY <1>2, <1>4, NothingSaid
<1>6. QED
  BY <1>2, <1>3, <1>4, <1>5, WriteKeepsHonour

(* An answer is sent: to jobs the run asks about, by the only call on it.   *)
LEMMA SendKeepsHonour ==
  ASSUME ConstantsAssumption, ClearInv, SerialInv, HonourInv, Serial, NEW c \in Call, NEW r \in Run,
         NEW decisions, NEW label \in {"lookup", "load"}, NEW view,
         Send(c, r, decisions, label, view), DOMAIN decisions \subseteq thread[r].asked,
         label = "lookup" => queue[r].status = "pending" /\ queue[r].id = view
  PROVE  HonourInv'
<1>1. /\ call' = [call EXCEPT ![c].pc = label, ![c].run = r, ![c].resumes = TRUE,
                              ![c].pay = decisions, ![c].view = view]
      /\ said' = said \cup {<<r, j, decisions[j]>> : j \in DOMAIN decisions}
      /\ UNCHANGED <<queue, thread, limits>> /\ call[c].pc = "idle" /\ ~InFlight(r)
  BY DEF Send, db
<1>2. /\ call'[c].pc = label /\ call'[c].run = r /\ call'[c].resumes = TRUE
      /\ call'[c].pay = decisions /\ call'[c].view = view
      /\ \A d \in Call \ {c} : call'[d] = call[d]
  BY <1>1 DEF ClearInv, SoundCall
<1>3. \A d \in Call : call[d].run # r
  BY <1>1 DEF InFlight
<1>4. call[c].run = NoRun
  BY <1>1 DEF SerialInv, SerialCall
<1>5. PICK m : m = thread[r] /\ m = thread'[r]
  BY <1>1
<1>6. (thread[r].asked # {} => thread[r].asked = JobsAt(thread[r], Review(thread[r])))'
  <2>1. m.asked # {} => m.asked = JobsAt(m, Review(m))
    BY <1>5 DEF HonourInv, HonourRun
  <2>2. JobsAt(m, Review(m))' = JobsAt(m, Review(m))
    BY <1>1, ReviewIsStable DEF JobsAt
  <2>3. (m.asked # {} => m.asked = JobsAt(m, Review(m)))'
    BY <2>1, <2>2
  <2>4. QED
    BY <1>5, <2>3 DEF JobsAt, Review
<1>7. ASSUME NEW j \in Job, NEW choice \in Answers, <<r, j, choice>> \in said'
      PROVE  Honoured(thread[r], j, choice)' \/ \E d \in Call : Carries(d, r, j, choice)'
  <2>1. CASE <<r, j, choice>> \in said
    <3>1. Honoured(thread[r], j, choice)
      BY <1>3, <2>1 DEF HonourInv, HonourRun, Carries
    <3>2. QED
      BY <1>1, <3>1 DEF Honoured
  <2>2. CASE <<r, j, choice>> \notin said
    <3>1. j \in DOMAIN decisions /\ decisions[j] = choice
      BY <1>1, <1>7, <2>2
    <3>2. Carries(c, r, j, choice)'
      BY <1>2, <3>1 DEF Carries
    <3>3. QED
      BY <3>2
  <2>3. QED
    BY <2>1, <2>2
<1>8. ASSUME NEW d \in Call PROVE Fitting(d, r)'
  <2>1. CASE d = c
    BY <1>1, <1>2, <2>1 DEF Fitting
  <2>2. CASE d # c
    BY <1>2, <1>3, <2>2 DEF Fitting
  <2>3. QED
    BY <2>1, <2>2
<1>9. HonourRun(r)'
  BY <1>6, <1>7, <1>8 DEF HonourRun
<1>10. \A d \in Call \ {c} : Unmoved(d)
  BY <1>2 DEF Unmoved
<1>11. \A s \in Run \ {r}, j \in Job, choice \in Answers :
         <<s, j, choice>> \in said' => <<s, j, choice>> \in said
  BY <1>1
<1>12. QED
  BY <1>1, <1>2, <1>4, <1>9, <1>10, <1>11, OneRunKeepsHonour

LEMMA DecidedAboutThese ==
  ASSUME NEW jobs, NEW decisions \in Decided(jobs)
  PROVE  DOMAIN decisions \subseteq jobs
<1>1. PICK s \in SUBSET jobs : decisions \in [s -> Answers]
  BY DEF Decided, DecisionsFor
<1>2. QED
  BY <1>1

LEMMA AnswerKeepsHonour ==
  ASSUME ConstantsAssumption, ClearInv, SerialInv, HonourInv, Serial, NEW c \in Call, NEW r \in Run,
         Answer(c, r) \/ ResumeDirect(c, r)
  PROVE  HonourInv'
<1>1. CASE Answer(c, r)
  <2>1. PICK decisions \in Decided(queue[r].asked) : Send(c, r, decisions, "lookup", queue[r].id)
    BY <1>1 DEF Answer
  <2>2. /\ queue[r].status = "pending" /\ SerialRun(r) /\ ~Working(r)
    BY <1>1, <2>1 DEF Answer, Send, InFlight, Working, SerialInv
  <2>3. queue[r].asked = thread[r].asked
    BY <2>2 DEF SerialRun, Agree
  <2>4. DOMAIN decisions \subseteq thread[r].asked
    BY <2>1, <2>3, DecidedAboutThese
  <2>5. QED
    BY <2>1, <2>2, <2>4, SendKeepsHonour
<1>2. CASE ResumeDirect(c, r)
  <2>1. CASE \E decisions \in Decided(thread[r].asked) : Send(c, r, decisions, "load", 0)
    <3>1. PICK decisions \in Decided(thread[r].asked) : Send(c, r, decisions, "load", 0)
      BY <2>1
    <3>2. DOMAIN decisions \subseteq thread[r].asked
      BY <3>1, DecidedAboutThese
    <3>3. QED
      BY <3>1, <3>2, SendKeepsHonour
  <2>2. CASE Send(c, r, Nothing, "load", 0)
    BY <2>2, NothingIsDecided, SendKeepsHonour
  <2>3. QED
    BY <1>2, <2>1, <2>2 DEF ResumeDirect
<1>3. QED
  BY <1>1, <1>2

(* A call moves on, with what it carries, or having nothing to carry.       *)
LEMMA MoveKeepsHonour ==
  ASSUME ConstantsAssumption, HonourInv, NEW c \in Call, NEW r \in Run,
         UNCHANGED <<thread, said, limits>>, call[c].run = r, call'[c].run \in {NoRun, r},
         \A d \in Call \ {c} : call'[d] = call[d] /\ call[d].run # r,
         \A s \in Run \ {r} : queue'[s] = queue[s],
         \A j \in Job, choice \in Answers :
           Carries(c, r, j, choice) => Carries(c, r, j, choice)',
         Fitting(c, r)'
  PROVE  HonourInv'
<1>1. PICK m : m = thread[r] /\ m = thread'[r]
  OBVIOUS
<1>2. (thread[r].asked # {} => thread[r].asked = JobsAt(thread[r], Review(thread[r])))'
  <2>1. m.asked # {} => m.asked = JobsAt(m, Review(m))
    BY <1>1 DEF HonourInv, HonourRun
  <2>2. JobsAt(m, Review(m))' = JobsAt(m, Review(m))
    BY ReviewIsStable DEF JobsAt
  <2>3. (m.asked # {} => m.asked = JobsAt(m, Review(m)))'
    BY <2>1, <2>2
  <2>4. QED
    BY <1>1, <2>3 DEF JobsAt, Review
<1>3. ASSUME NEW j \in Job, NEW choice \in Answers, <<r, j, choice>> \in said'
      PROVE  Honoured(thread[r], j, choice)' \/ \E d \in Call : Carries(d, r, j, choice)'
  <2>1. Honoured(thread[r], j, choice) => Honoured(thread[r], j, choice)'
    BY DEF Honoured
  <2>2. ASSUME NEW d \in Call, Carries(d, r, j, choice) PROVE d = c
    BY <2>2 DEF Carries
  <2>3. QED
    BY <1>3, <2>1, <2>2 DEF HonourInv, HonourRun
<1>4. ASSUME NEW d \in Call PROVE Fitting(d, r)'
  <2>1. CASE d = c
    BY <2>1
  <2>2. CASE d # c
    BY <2>2 DEF Fitting
  <2>3. QED
    BY <2>1, <2>2
<1>5. HonourRun(r)'
  BY <1>2, <1>3, <1>4 DEF HonourRun
<1>6. \A d \in Call \ {c} : Unmoved(d)
  BY DEF Unmoved
<1>7. QED
  BY <1>5, <1>6, OneRunKeepsHonour

(* The record an answer was given to is still there.                        *)
LEMMA LookupKeepsHonour ==
  ASSUME ConstantsAssumption, ClearInv, SerialInv, HonourInv, NEW c \in Call, Lookup(c)
  PROVE  HonourInv'
<1>1. PICK r : r = call[c].run
  OBVIOUS
<1>2. r \in Run /\ call[c].pc = "lookup" /\ UNCHANGED <<queue, thread, said, limits>>
  BY <1>1 DEF Lookup, ClearInv, SoundCall, db
<1>3. Fitting(c, r)
  BY <1>2 DEF HonourInv, HonourRun
<1>4. call' = [call EXCEPT ![c].pc = "load"]
  BY <1>1, <1>2, <1>3 DEF Lookup, Fitting
<1>5. /\ call'[c].pc = "load" /\ call'[c].run = r /\ call'[c].resumes = call[c].resumes
      /\ call'[c].pay = call[c].pay /\ \A d \in Call \ {c} : call'[d] = call[d]
  BY <1>1, <1>4 DEF ClearInv, SoundCall
<1>6. \A d \in Call \ {c} : call[d].run # r
  BY <1>1, <1>2, OthersElsewhere
<1>7. Fitting(c, r)'
  BY <1>1, <1>2, <1>3, <1>5 DEF Fitting
<1>8. \A j \in Job, choice \in Answers :
        Carries(c, r, j, choice) => Carries(c, r, j, choice)'
  BY <1>5 DEF Carries
<1>9. QED
  BY <1>1, <1>2, <1>5, <1>6, <1>7, <1>8, MoveKeepsHonour

(* An answer is not lost on a run that has ended.                           *)
LEMMA LoadKeepsHonour ==
  ASSUME ConstantsAssumption, ClearInv, SerialInv, HonourInv, NEW c \in Call, Load(c)
  PROVE  HonourInv'
<1>1. PICK r, m, pc : /\ r = call[c].run /\ m = thread[r]
                      /\ pc = IF m.next = "END" THEN "persist" ELSE "run"
  OBVIOUS
<1>2. /\ r \in Run /\ call[c].pc = "load" /\ UNCHANGED <<queue, thread, said, limits>>
      /\ call' = [call EXCEPT ![c].pc = pc, ![c].mem = m, ![c].latest = TRUE]
  BY <1>1 DEF Load, ClearInv, SoundCall, db
<1>3. /\ call'[c].pc = pc /\ call'[c].run = r /\ call'[c].resumes = call[c].resumes
      /\ call'[c].pay = call[c].pay /\ \A d \in Call \ {c} : call'[d] = call[d]
  BY <1>1, <1>2 DEF ClearInv, SoundCall
<1>4. \A d \in Call \ {c} : call[d].run # r
  BY <1>1, <1>2, OthersElsewhere
<1>5. DOMAIN call[c].pay \subseteq thread[r].asked
  BY <1>1, <1>2 DEF HonourInv, HonourRun, Fitting
<1>6. pc = "persist" => DOMAIN call[c].pay = {}
  <2>1. ~Working(r) /\ SerialRun(r) /\ m.next # "absent"
    BY <1>1, <1>2, <1>4 DEF Working, SerialInv, SerialCall
  <2>2. Settled(m)
    BY <1>1, <2>1 DEF SerialRun
  <2>3. pc = "persist" => m.asked = {}
    BY <1>1, <2>2 DEF Settled
  <2>4. QED
    BY <1>1, <1>5, <2>3
<1>7. Fitting(c, r)'
  <2>1. call'[c].pc # "lookup"
    BY <1>1, <1>3
  <2>2. DOMAIN call'[c].pay \subseteq thread'[r].asked
    BY <1>2, <1>3, <1>5
  <2>3. QED
    BY <2>1, <2>2 DEF Fitting
<1>8. \A j \in Job, choice \in Answers :
        Carries(c, r, j, choice) => Carries(c, r, j, choice)'
  BY <1>1, <1>3, <1>6 DEF Carries
<1>9. QED
  BY <1>1, <1>2, <1>3, <1>4, <1>7, <1>8, MoveKeepsHonour

LEMMA PersistKeepsHonour ==
  ASSUME ConstantsAssumption, ClearInv, SerialInv, HonourInv, NEW c \in Call, PersistRunResult(c)
  PROVE  HonourInv'
<1>1. PICK r : r = call[c].run
  OBVIOUS
<1>2. /\ r \in Run /\ call[c].pc = "persist" /\ UNCHANGED <<thread, said, limits>>
      /\ \A s \in Run \ {r} : queue'[s] = queue[s]
  BY <1>1 DEF PersistRunResult, ClearInv, SoundCall, SerialInv
<1>3. call'[c] = Idle /\ \A d \in Call \ {c} : call'[d] = call[d]
  BY DEF PersistRunResult, Return, ClearInv
<1>4. call'[c].run = NoRun
  BY <1>3 DEF Idle
<1>5. \A d \in Call \ {c} : call[d].run # r
  BY <1>1, <1>2, OthersElsewhere
<1>6. Fitting(c, r)'
  BY <1>2, <1>4 DEF Fitting, ConstantsAssumption
<1>7. \A j \in Job, choice \in Answers : ~Carries(c, r, j, choice)
  BY <1>2 DEF Carries
<1>8. QED
  BY <1>1, <1>2, <1>3, <1>4, <1>5, <1>6, <1>7, MoveKeepsHonour

(* A node completes with what the operator decided, if anything.            *)
LEMMA CompleteKeepsHonour ==
  ASSUME ConstantsAssumption, ClearInv, SerialInv, HonourInv, NEW c \in Call, NEW node, At(c, node),
         NEW update, NEW next, Complete(c, update, next), DOMAIN update = Fields,
         \A j \in Job, choice \in Answers : <<call[c].run, j, choice>> \in said =>
           /\ next \in {"finalize", "END"}
           /\ \A i \in DOMAIN update.routed :
                update.scored[i].job = j => update.routed[i] = choice
  PROVE  HonourInv'
<1> DEFINE n == [update EXCEPT !.next = next, !.asked = {}]
           label == IF next = "END" THEN "persist" ELSE "run"
<1>1. PICK r : r = call[c].run
  OBVIOUS
<1>2. r \in Run /\ call[c].pc = "run"
  BY <1>1 DEF At, ClearInv, SoundCall
<1>3. n.next = next /\ n.asked = {} /\ n.routed = update.routed /\ n.scored = update.scored
  BY DEF Fields
<1>4. WriteCheckpoint(c, r, n, label) /\ UNCHANGED <<queue, said, limits>>
  BY <1>1 DEF Complete, db
<1>5. label \in {"run", "persist"}
  OBVIOUS
<1> HIDE DEF n, label
<1>6. \A j \in Job, choice \in Answers : <<r, j, choice>> \in said => Honoured(n, j, choice)
  BY <1>1, <1>3 DEF Honoured
<1>7. \A d \in Call \ {c} : call[d].run # r
  BY <1>1, <1>2, OthersElsewhere
<1>8. QED
  BY <1>1, <1>2, <1>3, <1>4, <1>5, <1>6, <1>7, WriteKeepsHonour

LEMMA EarlyNodesKeepHonour ==
  ASSUME ConstantsAssumption, ClearInv, SerialInv, HonourInv, NEW c \in Call, EarlyNode(c)
  PROVE  HonourInv'
<1>1. /\ DOMAIN call[c].mem = Fields
      /\ \A i \in DOMAIN call[c].mem.scored : call[c].mem.scored[i].verdict \in Verdicts
  BY DEF ClearInv, SoundCall, Sound
<1>2. PICK node, next, update :
        {node, next} \subseteq Nodes \ {"finalize"} /\ Quiet(c, node, update, next)
  BY <1>1, EarlyNodesAreQuiet
<1>3. node # "policy_guard"
  BY <1>2 DEF EarlyNode, LoadCandidateProfile, LoadSearchPolicy, DiscoverPortals, NormalizeJobs,
              DedupeJobs, ScoreJobs, Quiet, At
<1>4. /\ call[c].pc = "run" /\ call[c].run \in Run /\ ~call[c].resumes
      /\ thread[call[c].run].next \notin {"finalize", "END"}
  BY <1>2, <1>3 DEF Quiet, At, ClearInv, SoundCall, SerialInv, SerialCall, Nodes
<1>5. \A d \in Call \ {c} : call[d].run # call[c].run
  BY <1>4, OthersElsewhere
<1>6. \A j \in Job, choice \in Answers : <<call[c].run, j, choice>> \notin said
  BY <1>4, <1>5, NothingSaid
<1>7. QED
  BY <1>2, <1>6, CompleteKeepsHonour DEF Quiet

LEMMA FinalizeKeepsHonour ==
  ASSUME ConstantsAssumption, ClearInv, SerialInv, HonourInv, NEW c \in Call, Finalize(c)
  PROVE  HonourInv'
<1>1. PICK m, r : m = call[c].mem /\ r = call[c].run
  OBVIOUS
<1>2. /\ DOMAIN m = Fields /\ r \in Run /\ m = thread[r] /\ call[c].pc = "run"
      /\ m.next = "finalize" /\ ~call[c].resumes
  BY <1>1 DEF ClearInv, SoundCall, Sound, SerialInv, SerialCall, Finalize, At
<1>3. PICK metrics : Complete(c, [m EXCEPT !.metrics = metrics], "END")
  BY <1>1 DEF Finalize
<1>4. PICK u : u = [m EXCEPT !.metrics = metrics]
  OBVIOUS
<1>5. /\ DOMAIN u = Fields /\ u.routed = m.routed /\ u.scored = m.scored
      /\ Complete(c, u, "END") /\ At(c, "finalize")
  BY <1>2, <1>3, <1>4 DEF Fields, Finalize
<1>6. \A d \in Call \ {c} : call[d].run # r
  BY <1>1, <1>2, OthersElsewhere
<1>7. \A j \in Job, choice \in Answers : <<r, j, choice>> \in said => Honoured(m, j, choice)
  BY <1>1, <1>2, <1>6 DEF HonourInv, HonourRun, Carries
<1>8. QED
  BY <1>1, <1>5, <1>7, CompleteKeepsHonour DEF Honoured

(* The decisions are carried out: what was asked about is under review      *)
(* still, and no other entry has the job.                                   *)
LEMMA PolicyGuardKeepsHonour ==
  ASSUME ConstantsAssumption, ClearInv, SerialInv, DistinctInv, HonourInv,
         NEW c \in Call, PolicyGuard(c)
  PROVE  HonourInv'
<1>1. PICK m, r, pay, paused :
        /\ m = call[c].mem /\ r = call[c].run /\ pay = call[c].pay
        /\ paused = [m EXCEPT !.asked = JobsAt(m, Review(m))]
  OBVIOUS
<1>2. /\ At(c, "policy_guard") /\ call[c].pc = "run" /\ DOMAIN m = Fields /\ r \in Run
      /\ m = thread[r] /\ m.next = "policy_guard" /\ call[c].latest
      /\ call[c].resumes => m.asked # {}
  BY <1>1 DEF PolicyGuard, ClearInv, SoundCall, Sound, SerialInv, SerialCall, At
<1>3. \A d \in Call \ {c} : call[d].run # r
  BY <1>1, <1>2, OthersElsewhere
<1>4. CASE Complete(c, [m EXCEPT !.routed = RouteAll(m, pay)], "finalize")
  <2>1. PICK u : u = [m EXCEPT !.routed = RouteAll(m, pay)]
    OBVIOUS
  <2>2. /\ DOMAIN u = Fields /\ u.routed = RouteAll(m, pay) /\ u.scored = m.scored
        /\ Complete(c, u, "finalize")
    BY <1>2, <1>4, <2>1 DEF Fields
  <2>3. ASSUME NEW j \in Job, NEW choice \in Answers, <<r, j, choice>> \in said,
               NEW i \in DOMAIN RouteAll(m, pay), m.scored[i].job = j
        PROVE  RouteAll(m, pay)[i] = choice
    <3>1. Carries(c, r, j, choice)
      BY <1>2, <1>3, <2>3 DEF HonourInv, HonourRun, Honoured, Carries
    <3>2. j \in DOMAIN pay /\ pay[j] = choice /\ m.asked # {}
      BY <1>1, <1>2, <3>1 DEF Carries
    <3>3. j \in m.asked
      BY <1>1, <1>2, <3>2 DEF HonourInv, HonourRun, Fitting
    <3>4. j \in JobsAt(m, Review(m))
      BY <1>2, <3>2, <3>3 DEF HonourInv, HonourRun
    <3>5. PICK k \in Review(m) : m.scored[k].job = j
      BY <3>4 DEF JobsAt
    <3>6. i \in DOMAIN m.scored /\ k \in DOMAIN m.scored
      BY <3>5 DEF RouteAll, Review
    <3>7. Once(m.scored)
      BY <1>2 DEF DistinctInv, Distinct
    <3>8. i = k
      BY <2>3, <3>5, <3>6, <3>7 DEF Once
    <3>9. QED
      BY <2>3, <3>2, <3>5, <3>6, <3>8 DEF RouteAll
  <2>4. QED
    BY <1>1, <1>2, <2>2, <2>3, CompleteKeepsHonour
<1>5. CASE /\ ~call[c].resumes
           /\ Pauses(c, m, r, paused) /\ UNCHANGED <<queue, limits, said>>
  <2>1. /\ paused.asked = JobsAt(m, Review(m)) /\ paused.scored = m.scored
        /\ thread'[r] = paused /\ \A s \in Run \ {r} : thread'[s] = thread[s]
    BY <1>1, <1>2, <1>5 DEF Pauses, Fields, ClearInv
  <2>2. /\ call'[c].pc = "persist" /\ call'[c].run = r
        /\ \A d \in Call \ {c} : call'[d] = call[d]
    BY <1>1, <1>5 DEF Pauses, ClearInv, SoundCall
  <2>3. \A j \in Job, choice \in Answers : <<r, j, choice>> \notin said
    BY <1>2, <1>3, <1>5, NothingSaid
  <2>4. JobsAt(paused, Review(paused))' = JobsAt(m, Review(m))
    <3>1. Review(paused) = Review(m)
      BY <2>1 DEF Review
    <3>2. Review(paused)' = Review(paused)
      BY <1>5, ReviewIsStable
    <3>3. QED
      BY <2>1, <3>1, <3>2 DEF JobsAt
  <2>5. (thread[r].asked # {} => thread[r].asked = JobsAt(thread[r], Review(thread[r])))'
    <3>1. (paused.asked = JobsAt(paused, Review(paused)))'
      BY <2>1, <2>4
    <3>2. QED
      BY <2>1, <3>1 DEF JobsAt, Review
  <2>6. ASSUME NEW d \in Call PROVE Fitting(d, r)'
    <3>1. CASE d = c
      BY <2>2, <3>1 DEF Fitting
    <3>2. CASE d # c
      BY <1>3, <2>2, <3>2 DEF Fitting
    <3>3. QED
      BY <3>1, <3>2
  <2>7. HonourRun(r)'
    BY <1>5, <2>3, <2>5, <2>6 DEF HonourRun
  <2>8. \A d \in Call \ {c} : Unmoved(d)
    BY <2>2 DEF Unmoved
  <2>9. QED
    BY <1>1, <1>2, <1>5, <2>1, <2>2, <2>7, <2>8, OneRunKeepsHonour
<1>6. \/ Complete(c, [m EXCEPT !.routed = RouteAll(m, pay)], "finalize")
      \/ /\ ~call[c].resumes
         /\ Pauses(c, m, r, paused) /\ UNCHANGED <<queue, limits, said>>
  BY <1>1 DEF PolicyGuard, Pauses, db
<1>7. QED
  BY <1>4, <1>5, <1>6

LEMMA StutterKeepsHonour ==
  ASSUME ConstantsAssumption, HonourInv,
         UNCHANGED <<queue, thread, call, limits, said>>
  PROVE  HonourInv'
<1> SUFFICES ASSUME NEW r \in Run PROVE HonourRun(r)'
  BY DEF HonourInv
<1>1. PICK m : m = thread[r] /\ m = thread'[r]
  OBVIOUS
<1>2. (thread[r].asked # {} => thread[r].asked = JobsAt(thread[r], Review(thread[r])))'
  <2>1. m.asked # {} => m.asked = JobsAt(m, Review(m))
    BY <1>1 DEF HonourInv, HonourRun
  <2>2. JobsAt(m, Review(m))' = JobsAt(m, Review(m))
    BY ReviewIsStable DEF JobsAt
  <2>3. (m.asked # {} => m.asked = JobsAt(m, Review(m)))'
    BY <2>1, <2>2
  <2>4. QED
    BY <1>1, <2>3 DEF JobsAt, Review
<1>3. QED
  BY <1>2 DEF HonourInv, HonourRun, Honoured, Carries, Fitting

LEMMA NextKeepsHonour ==
  ASSUME ConstantsAssumption, Serial, "crash" \notin Faults, "limits" \notin Faults,
         ClearInv, SerialInv, DistinctInv, HonourInv, [Next]_vars
  PROVE  HonourInv'
<1>1. CASE \E c \in Call, r \in Run : StartRun(c, r) \/ Answer(c, r) \/ ResumeDirect(c, r)
  BY <1>1, StartKeepsHonour, AnswerKeepsHonour
<1>2. ASSUME NEW c \in Call, Proceed(c) PROVE HonourInv'
  <2>1. CASE Lookup(c) \/ Load(c)
    BY <2>1, LookupKeepsHonour, LoadKeepsHonour
  <2>2. CASE RunNode(c)
    BY <2>2, EarlyNodesKeepHonour, PolicyGuardKeepsHonour, FinalizeKeepsHonour
    DEF RunNode, EarlyNode
  <2>3. CASE PersistRunResult(c)
    BY <2>3, PersistKeepsHonour
  <2>4. QED
    BY <1>2, <2>1, <2>2, <2>3 DEF Proceed
<1>3. ~Crash /\ ~EditLimits
  BY DEF Crash, EditLimits
<1>4. CASE UNCHANGED vars
  BY <1>4, StutterKeepsHonour DEF vars
<1>5. QED
  BY <1>1, <1>2, <1>3, <1>4 DEF Next

(* The inductive invariant of the decisions: each is under way to a run     *)
(* that is paused for its job, or carried out.                              *)
THEOREM HonourInvariant ==
  ASSUME Serial, "crash" \notin Faults, "limits" \notin Faults, OneOpportunityPerId
  PROVE  Spec => []HonourInv
<1>1. Init => HonourInv
  BY ConstantsAssumption, InitIsHonoured
<1>2. ClearInv /\ SerialInv /\ DistinctInv /\ HonourInv /\ [Next]_vars => HonourInv'
  BY ConstantsAssumption, NextKeepsHonour
<1>3. QED
  BY <1>1, <1>2, ClearInvariant, SerialInvariant, DistinctInvariant, PTL DEF Spec

(* ARCHITECTURE.md:183-186: whatever pauses, retries and other runs come in *)
(* between, a job the operator decided on is where the operator said.       *)
THEOREM DecisionsHonouredHolds ==
  ASSUME Serial, "crash" \notin Faults, "limits" \notin Faults, OneOpportunityPerId
  PROVE  Spec => []DecisionsHonoured
<1>1. ASSUME TypeOK, ClearInv, SerialInv, HonourInv PROVE DecisionsHonoured
  <2>1. SUFFICES ASSUME NEW r \in Run, NEW i \in DOMAIN thread[r].routed, NEW choice \in Answers,
                        <<r, thread[r].scored[i].job, choice>> \in said
                 PROVE  thread[r].routed[i] = choice
    BY DEF DecisionsHonoured
  <2>2. PICK j \in Job : j = thread[r].scored[i].job
    BY <1>1, <2>1 DEF TypeOK
  <2>3. thread[r].next \in {"finalize", "END"}
    BY <1>1, <2>1 DEF ClearInv, Sound
  <2>4. ASSUME NEW c \in Call, Carries(c, r, j, choice) PROVE FALSE
    <3>1. SerialCall(c) /\ call[c].run = r /\ call[c].resumes /\ j \in DOMAIN call[c].pay
      BY <1>1, <2>4 DEF SerialInv, Carries
    <3>2. call[c].pc # "run"
      BY <2>3, <3>1 DEF SerialCall
    <3>3. call[c].pc \in {"lookup", "load"}
      BY <2>4, <3>2 DEF Carries
    <3>4. ~Working(r)
      BY <1>1, <3>1, <3>3, OthersElsewhere DEF Working
    <3>5. Settled(thread[r])
      BY <1>1, <2>3, <3>4 DEF SerialInv, SerialRun
    <3>6. thread[r].asked = {}
      BY <2>3, <3>5 DEF Settled
    <3>7. Fitting(c, r)
      BY <1>1 DEF HonourInv, HonourRun
    <3>8. QED
      BY <3>1, <3>3, <3>6, <3>7 DEF Fitting
  <2>5. QED
    BY <1>1, <2>1, <2>2, <2>4 DEF HonourInv, HonourRun, Honoured
<1>2. QED
  BY <1>1, TypeCorrect, ClearInvariant, SerialInvariant, HonourInvariant, PTL

-----------------------------------------------------------------------------
(* What a run tells who starts it: the refinement of RunLifecycle *)

Counted(m) ==
  /\ m.metrics.queued = Count(m, "queue")
  /\ m.metrics.rejected = Count(m, "reject")
  /\ m.metrics.human_review_pending = Count(m, "human_review")

(* A checkpoint asks at policy_guard only and once, and counts at the end.  *)
Told(m, r) ==
  /\ m.asked # {} => m.next = "policy_guard"
  /\ m.next \notin {"finalize", "END"} => \A j \in Job : <<r, j>> \in shown <=> j \in m.asked
  /\ m.next # "END" => m.metrics = NoMetrics
  /\ m.next = "END" => Counted(m)

(* Who works on a run that asks brings an answer.                           *)
Answering(c, r) ==
  /\ call[c].run = r /\ call[c].pc \in {"lookup", "load", "run"}
  /\ thread[r].asked # {}
  => call[c].resumes /\ DOMAIN call[c].pay # {}

RunTold(r) ==
  /\ Told(thread[r], r)
  /\ runRow[r].status # "completed" => runRow[r].metrics = NoMetrics
  /\ \A c \in Call : Answering(c, r)

ToldInv == \A r \in Run : RunTold(r)

LEMMA InitIsTold == ConstantsAssumption /\ Init => ToldInv
<1> SUFFICES ASSUME ConstantsAssumption, Init, NEW r \in Run PROVE RunTold(r)
  BY DEF ToldInv
<1>1. /\ thread[r].next = "absent" /\ thread[r].asked = {} /\ thread[r].metrics = NoMetrics
      /\ shown = {} /\ runRow[r].metrics = NoMetrics
  BY DEF Init, NoCheckpoint
<1>2. QED
  BY <1>1 DEF RunTold, Told, Answering

(* A step of one call on one run.                                           *)
LEMMA OneRunKeepsTold ==
  ASSUME ConstantsAssumption, ToldInv, NEW c \in Call, NEW r \in Run,
         call[c].run \in {NoRun, r}, call'[c].run \in {NoRun, r},
         \A d \in Call \ {c} : Unmoved(d),
         \A s \in Run \ {r} : thread'[s] = thread[s] /\ runRow'[s] = runRow[s],
         \A s \in Run \ {r}, j \in Job : <<s, j>> \in shown' <=> <<s, j>> \in shown,
         RunTold(r)'
  PROVE  ToldInv'
<1> SUFFICES ASSUME NEW s \in Run \ {r} PROVE RunTold(s)'
  BY DEF ToldInv
<1>1. RunTold(s) /\ thread'[s] = thread[s] /\ runRow'[s] = runRow[s]
  BY DEF ToldInv
<1>2. Told(thread[s], s)'
  BY <1>1 DEF RunTold, Told, Counted, Count
<1>3. ASSUME NEW d \in Call PROVE Answering(d, s)'
  <2>1. CASE d = c
    BY <2>1 DEF Answering, ConstantsAssumption
  <2>2. CASE d # c
    BY <1>1, <2>2 DEF RunTold, Answering, Unmoved
  <2>3. QED
    BY <2>1, <2>2
<1>4. QED
  BY <1>1, <1>2, <1>3 DEF RunTold

(* A checkpoint that asks nothing is written.                               *)
LEMMA WriteKeepsTold ==
  ASSUME ConstantsAssumption, ClearInv, ToldInv, NEW c \in Call, NEW r \in Run, NEW n, NEW label,
         WriteCheckpoint(c, r, n, label), UNCHANGED <<runRow, shown>>, n.asked = {},
         call[c].run \in {NoRun, r}, Told(n, r)
  PROVE  ToldInv'
<1>w. /\ DOMAIN thread' = Run /\ thread'[r] = n
      /\ \A s \in Run \ {r} : thread'[s] = thread[s]
      /\ DOMAIN call' = Call
      /\ call'[c] = [pc |-> label, run |-> r, resumes |-> FALSE, pay |-> Nothing,
                     view |-> 0, mem |-> n, latest |-> TRUE]
      /\ \A d \in Call \ {c} :
           /\ DOMAIN call'[d] = DOMAIN call[d]
           /\ call'[d].pc = call[d].pc /\ call'[d].run = call[d].run
           /\ call'[d].resumes = call[d].resumes /\ call'[d].pay = call[d].pay
           /\ call'[d].view = call[d].view /\ call'[d].mem = call[d].mem
           /\ call'[d].latest = (call[d].latest /\ call[d].run # r)
  BY Written, Zenon
<1>1. /\ thread'[r] = n /\ \A s \in Run \ {r} : thread'[s] = thread[s]
      /\ \A d \in Call \ {c} : Unmoved(d)
  BY <1>w DEF Unmoved
<1>2. call'[c].run = r
  BY <1>w
<1>3. Told(thread[r], r)'
  BY <1>1 DEF Told, Counted, Count
<1>4. \A d \in Call : Answering(d, r)'
  BY <1>1 DEF Answering
<1>5. (runRow[r].status # "completed" => runRow[r].metrics = NoMetrics)'
  BY DEF ToldInv, RunTold
<1>6. RunTold(r)'
  BY <1>3, <1>4, <1>5 DEF RunTold
<1>7. QED
  BY <1>1, <1>2, <1>6, OneRunKeepsTold

LEMMA StartKeepsTold ==
  ASSUME ConstantsAssumption, ClearInv, SerialInv, ToldInv, NEW c \in Call, NEW r \in Run,
         StartRun(c, r)
  PROVE  ToldInv'
<1>1. PICK n : n = [NoCheckpoint EXCEPT !.next = "load_candidate_profile"]
  OBVIOUS
<1>2. /\ call[c].pc = "idle" /\ thread[r].next = "absent" /\ WriteCheckpoint(c, r, n, "run")
      /\ UNCHANGED <<runRow, shown>>
      /\ n.next = "load_candidate_profile" /\ n.asked = {} /\ n.metrics = NoMetrics
  BY <1>1 DEF StartRun, db, NoCheckpoint
<1>3. call[c].run = NoRun
  BY <1>2 DEF SerialInv, SerialCall
<1>4. Told(n, r)
  BY <1>2 DEF ToldInv, RunTold, Told
<1>5. QED
  BY <1>2, <1>3, <1>4, WriteKeepsTold

LEMMA SendKeepsTold ==
  ASSUME ConstantsAssumption, ClearInv, SerialInv, ToldInv, Serial, NEW c \in Call, NEW r \in Run,
         NEW decisions, NEW label \in {"lookup", "load"}, NEW view,
         Send(c, r, decisions, label, view), thread[r].asked # {} => DOMAIN decisions # {}
  PROVE  ToldInv'
<1>1. /\ call' = [call EXCEPT ![c].pc = label, ![c].run = r, ![c].resumes = TRUE,
                              ![c].pay = decisions, ![c].view = view]
      /\ UNCHANGED <<runRow, thread, shown>> /\ call[c].pc = "idle" /\ ~InFlight(r)
  BY DEF Send, db
<1>2. /\ call'[c].pc = label /\ call'[c].run = r /\ call'[c].resumes = TRUE
      /\ call'[c].pay = decisions /\ \A d \in Call \ {c} : call'[d] = call[d]
  BY <1>1 DEF ClearInv, SoundCall
<1>3. call[c].run = NoRun
  BY <1>1 DEF SerialInv, SerialCall
<1>4. ASSUME NEW d \in Call PROVE Answering(d, r)'
  <2>1. CASE d = c
    BY <1>1, <1>2, <2>1 DEF Answering
  <2>2. CASE d # c
    BY <1>1, <1>2, <2>2 DEF Answering, InFlight
  <2>3. QED
    BY <2>1, <2>2
<1>5. RunTold(r)'
  BY <1>1, <1>4 DEF ToldInv, RunTold, Told, Counted, Count
<1>6. \A d \in Call \ {c} : Unmoved(d)
  BY <1>2 DEF Unmoved
<1>7. QED
  BY <1>1, <1>2, <1>3, <1>5, <1>6, OneRunKeepsTold

LEMMA DecidedAboutSome ==
  ASSUME NEW jobs, jobs # {}, NEW decisions \in Decided(jobs)
  PROVE  DOMAIN decisions # {}
<1>1. PICK s \in (SUBSET jobs) \ {{}} : decisions \in [s -> Answers]
  BY DEF Decided, DecisionsFor
<1>2. QED
  BY <1>1

LEMMA AnswerKeepsTold ==
  ASSUME ConstantsAssumption, ClearInv, SerialInv, ToldInv, Serial, NEW c \in Call, NEW r \in Run,
         Answer(c, r) \/ ResumeDirect(c, r)
  PROVE  ToldInv'
<1>1. CASE Answer(c, r)
  <2>1. PICK decisions \in Decided(queue[r].asked) : Send(c, r, decisions, "lookup", queue[r].id)
    BY <1>1 DEF Answer
  <2>2. SerialRun(r) /\ ~Working(r)
    BY <2>1 DEF Send, InFlight, Working, SerialInv
  <2>3. thread[r].asked # {} => queue[r].asked = thread[r].asked
    BY <1>1, <2>2 DEF Answer, SerialRun, Agree
  <2>4. QED
    BY <2>1, <2>3, DecidedAboutSome, SendKeepsTold
<1>2. CASE ResumeDirect(c, r)
  <2>1. CASE /\ thread[r].asked # {}
             /\ \E decisions \in Decided(thread[r].asked) : Send(c, r, decisions, "load", 0)
    BY <2>1, DecidedAboutSome, SendKeepsTold
  <2>2. CASE thread[r].asked = {} /\ Send(c, r, Nothing, "load", 0)
    BY <2>2, SendKeepsTold
  <2>3. QED
    BY <1>2, <2>1, <2>2 DEF ResumeDirect
<1>3. QED
  BY <1>1, <1>2

(* A call moves on, on a checkpoint that stays.                             *)
LEMMA MoveKeepsTold ==
  ASSUME ConstantsAssumption, ToldInv, NEW c \in Call, NEW r \in Run,
         UNCHANGED <<thread, shown>>, call[c].run = r, call'[c].run \in {NoRun, r},
         \A d \in Call \ {c} : call'[d] = call[d],
         \A s \in Run \ {r} : runRow'[s] = runRow[s],
         runRow'[r].status # "completed" => runRow'[r].metrics = NoMetrics,
         Answering(c, r)'
  PROVE  ToldInv'
<1>1. ASSUME NEW d \in Call PROVE Answering(d, r)'
  <2>1. CASE d = c
    BY <2>1
  <2>2. CASE d # c
    BY <2>2 DEF ToldInv, RunTold, Answering
  <2>3. QED
    BY <2>1, <2>2
<1>2. RunTold(r)'
  <2>1. RunTold(r) /\ thread' = thread /\ shown' = shown
    BY DEF ToldInv
  <2>2. Told(thread[r], r)'
    BY <2>1 DEF RunTold, Told, Counted, Count
  <2>3. QED
    BY <1>1, <2>2 DEF RunTold
<1>3. \A d \in Call \ {c} : Unmoved(d)
  BY DEF Unmoved
<1>4. QED
  BY <1>2, <1>3, OneRunKeepsTold

LEMMA LookupKeepsTold ==
  ASSUME ConstantsAssumption, ClearInv, ToldInv, NEW c \in Call, Lookup(c)
  PROVE  ToldInv'
<1>1. PICK r : r = call[c].run
  OBVIOUS
<1>2. r \in Run /\ call[c].pc = "lookup" /\ UNCHANGED <<runRow, thread, shown>>
  BY <1>1 DEF Lookup, ClearInv, SoundCall, db
<1>3. Answering(c, r) /\ (runRow[r].status # "completed" => runRow[r].metrics = NoMetrics)
  BY <1>2 DEF ToldInv, RunTold
<1>4. CASE call' = [call EXCEPT ![c].pc = "load"]
  <2>1. /\ call'[c].pc = "load" /\ call'[c].run = r /\ call'[c].resumes = call[c].resumes
        /\ call'[c].pay = call[c].pay /\ \A d \in Call \ {c} : call'[d] = call[d]
    BY <1>1, <1>4 DEF ClearInv, SoundCall
  <2>2. Answering(c, r)'
    BY <1>1, <1>2, <1>3, <2>1 DEF Answering
  <2>3. QED
    BY <1>1, <1>2, <1>3, <2>1, <2>2, MoveKeepsTold
<1>5. CASE Return(c)
  <2>1. call'[c].run = NoRun /\ \A d \in Call \ {c} : call'[d] = call[d]
    BY <1>5 DEF Return, Idle, ClearInv
  <2>2. Answering(c, r)'
    BY <1>2, <2>1 DEF Answering, ConstantsAssumption
  <2>3. QED
    BY <1>1, <1>2, <1>3, <2>1, <2>2, MoveKeepsTold
<1>6. QED
  BY <1>4, <1>5 DEF Lookup

LEMMA LoadKeepsTold ==
  ASSUME ConstantsAssumption, ClearInv, ToldInv, NEW c \in Call, Load(c)
  PROVE  ToldInv'
<1>1. PICK r, m, pc : /\ r = call[c].run /\ m = thread[r]
                      /\ pc = IF m.next = "END" THEN "persist" ELSE "run"
  OBVIOUS
<1>2. /\ r \in Run /\ call[c].pc = "load" /\ UNCHANGED <<runRow, thread, shown>>
      /\ call' = [call EXCEPT ![c].pc = pc, ![c].mem = m, ![c].latest = TRUE]
  BY <1>1 DEF Load, ClearInv, SoundCall, db
<1>3. /\ call'[c].pc = pc /\ call'[c].run = r /\ call'[c].resumes = call[c].resumes
      /\ call'[c].pay = call[c].pay /\ \A d \in Call \ {c} : call'[d] = call[d]
  BY <1>1, <1>2 DEF ClearInv, SoundCall
<1>4. Answering(c, r) /\ (runRow[r].status # "completed" => runRow[r].metrics = NoMetrics)
  BY <1>2 DEF ToldInv, RunTold
<1>5. Answering(c, r)'
  BY <1>1, <1>2, <1>3, <1>4 DEF Answering
<1>6. QED
  BY <1>1, <1>2, <1>3, <1>4, <1>5, MoveKeepsTold

LEMMA PersistKeepsTold ==
  ASSUME ConstantsAssumption, ClearInv, SerialInv, ToldInv, NEW c \in Call, PersistRunResult(c)
  PROVE  ToldInv'
<1>1. PICK r, m : r = call[c].run /\ m = call[c].mem
  OBVIOUS
<1>2. /\ r \in Run /\ call[c].pc = "persist" /\ UNCHANGED <<thread, shown>>
      /\ runRow' = [runRow EXCEPT ![r] =
                      [status  |-> IF m.asked # {} THEN "waiting_human" ELSE "completed",
                       metrics |-> m.metrics]]
  BY <1>1 DEF PersistRunResult, ClearInv, SoundCall
<1>3. call'[c].run = NoRun /\ \A d \in Call \ {c} : call'[d] = call[d]
  BY DEF PersistRunResult, Return, Idle, ClearInv
<1>4. m = thread[r] /\ Told(m, r)
  BY <1>1, <1>2 DEF SerialInv, SerialCall, ToldInv, RunTold
<1>5. runRow'[r].status # "completed" => runRow'[r].metrics = NoMetrics
  BY <1>2, <1>4 DEF Told, SerialInv
<1>6. \A s \in Run \ {r} : runRow'[s] = runRow[s]
  BY <1>2 DEF SerialInv
<1>7. Answering(c, r)'
  BY <1>2, <1>3 DEF Answering, ConstantsAssumption
<1>8. QED
  BY <1>1, <1>2, <1>3, <1>5, <1>6, <1>7, MoveKeepsTold

(* A node completes: Told is left to show of what it wrote.                 *)
LEMMA CompleteKeepsTold ==
  ASSUME ConstantsAssumption, ClearInv, ToldInv, NEW c \in Call, NEW node, At(c, node),
         NEW update, NEW next, Complete(c, update, next), DOMAIN update = Fields,
         \A n : /\ n.next = next /\ n.asked = {} /\ n.routed = update.routed
                /\ n.metrics = update.metrics
                => Told(n, call[c].run)
  PROVE  ToldInv'
<1> DEFINE n == [update EXCEPT !.next = next, !.asked = {}]
           label == IF next = "END" THEN "persist" ELSE "run"
<1>1. PICK r : r = call[c].run
  OBVIOUS
<1>2. r \in Run
  BY <1>1 DEF At, ClearInv, SoundCall
<1>3. n.next = next /\ n.asked = {} /\ n.routed = update.routed /\ n.metrics = update.metrics
  BY DEF Fields
<1>4. WriteCheckpoint(c, r, n, label) /\ UNCHANGED <<runRow, shown>>
  BY <1>1 DEF Complete, db
<1> HIDE DEF n, label
<1>5. Told(n, r)
  BY <1>1, <1>3
<1>6. QED
  BY <1>1, <1>2, <1>3, <1>4, <1>5, WriteKeepsTold

LEMMA EarlyNodesKeepTold ==
  ASSUME ConstantsAssumption, ClearInv, SerialInv, ToldInv, NEW c \in Call, EarlyNode(c)
  PROVE  ToldInv'
<1>1. /\ DOMAIN call[c].mem = Fields
      /\ \A i \in DOMAIN call[c].mem.scored : call[c].mem.scored[i].verdict \in Verdicts
  BY DEF ClearInv, SoundCall, Sound
<1>2. PICK node, next, update :
        {node, next} \subseteq Nodes \ {"finalize"} /\ Quiet(c, node, update, next)
  BY <1>1, EarlyNodesAreQuiet
<1>3. node # "policy_guard"
  BY <1>2 DEF EarlyNode, LoadCandidateProfile, LoadSearchPolicy, DiscoverPortals, NormalizeJobs,
              DedupeJobs, ScoreJobs, Quiet, At
<1>4. PICK m, r : m = call[c].mem /\ r = call[c].run
  OBVIOUS
<1>5. r \in Run /\ m = thread[r] /\ m.next = node /\ next # "END" /\ node # "END"
  BY <1>2, <1>4 DEF Quiet, At, ClearInv, SoundCall, SerialInv, SerialCall, Nodes
<1>6. Told(m, r)
  BY <1>5 DEF ToldInv, RunTold
<1>7. m.asked = {} /\ m.metrics = NoMetrics /\ \A j \in Job : <<r, j>> \notin shown
  BY <1>2, <1>3, <1>5, <1>6 DEF Told
<1>8. ASSUME NEW n, n.next = next, n.asked = {}, n.metrics = update.metrics PROVE Told(n, r)
  BY <1>2, <1>4, <1>5, <1>7, <1>8 DEF Told, Quiet
<1>9. QED
  BY <1>2, <1>4, <1>8, CompleteKeepsTold DEF Quiet

LEMMA FinalizeKeepsTold ==
  ASSUME ConstantsAssumption, ClearInv, SerialInv, ToldInv, NEW c \in Call, Finalize(c)
  PROVE  ToldInv'
<1>1. PICK m, r : m = call[c].mem /\ r = call[c].run
  OBVIOUS
<1>2. DOMAIN m = Fields /\ At(c, "finalize")
  BY <1>1 DEF ClearInv, SoundCall, Sound, Finalize
<1>3. PICK metrics :
        /\ metrics.queued = Count(m, "queue") /\ metrics.rejected = Count(m, "reject")
        /\ metrics.human_review_pending = Count(m, "human_review")
        /\ Complete(c, [m EXCEPT !.metrics = metrics], "END")
  BY <1>1 DEF Finalize
<1>4. PICK u : u = [m EXCEPT !.metrics = metrics]
  OBVIOUS
<1>5. /\ DOMAIN u = Fields /\ u.routed = m.routed /\ u.metrics = metrics
      /\ Complete(c, u, "END")
  BY <1>2, <1>3, <1>4 DEF Fields
<1>6. ASSUME NEW n, n.next = "END", n.asked = {}, n.routed = m.routed, n.metrics = metrics
      PROVE  Told(n, r)
  <2>1. \A target : Count(n, target) = Count(m, target)
    BY <1>6 DEF Count
  <2>2. Counted(n)
    BY <1>3, <1>6, <2>1 DEF Counted
  <2>3. QED
    BY <1>6, <2>2 DEF Told
<1>7. QED
  BY <1>1, <1>2, <1>5, <1>6, CompleteKeepsTold

(* The node goes on, or asks for what is under review.                      *)
LEMMA PolicyGuardKeepsTold ==
  ASSUME ConstantsAssumption, ClearInv, SerialInv, ToldInv, NEW c \in Call, PolicyGuard(c)
  PROVE  ToldInv'
<1>1. PICK m, r, pay, paused :
        /\ m = call[c].mem /\ r = call[c].run /\ pay = call[c].pay
        /\ paused = [m EXCEPT !.asked = JobsAt(m, Review(m))]
  OBVIOUS
<1>2. /\ At(c, "policy_guard") /\ call[c].pc = "run" /\ DOMAIN m = Fields /\ r \in Run
      /\ m = thread[r] /\ m.next = "policy_guard" /\ call[c].latest
  BY <1>1 DEF PolicyGuard, ClearInv, SoundCall, Sound, SerialInv, SerialCall, At
<1>3. Told(m, r) /\ Answering(c, r) /\ (runRow[r].status # "completed" => runRow[r].metrics = NoMetrics)
  BY <1>2 DEF ToldInv, RunTold
<1>4. CASE Complete(c, [m EXCEPT !.routed = RouteAll(m, pay)], "finalize")
  <2>1. PICK u : u = [m EXCEPT !.routed = RouteAll(m, pay)]
    OBVIOUS
  <2>2. DOMAIN u = Fields /\ u.metrics = m.metrics /\ Complete(c, u, "finalize")
    BY <1>2, <1>4, <2>1 DEF Fields
  <2>3. ASSUME NEW n, n.next = "finalize", n.asked = {}, n.metrics = m.metrics PROVE Told(n, r)
    BY <1>2, <1>3, <2>3 DEF Told
  <2>4. \A n : n.next = "finalize" /\ n.asked = {} /\ n.metrics = u.metrics => Told(n, r)
    BY <2>2, <2>3
  <2>5. QED
    BY <1>1, <1>2, <2>2, <2>4, CompleteKeepsTold
<1>5. CASE ~call[c].resumes /\ Pauses(c, m, r, paused)
  <2>1. m.asked = {}
    BY <1>1, <1>2, <1>3, <1>5 DEF Answering
  <2>2. /\ paused.asked = JobsAt(m, Review(m)) /\ paused.next = "policy_guard"
        /\ paused.metrics = m.metrics
        /\ thread'[r] = paused /\ \A s \in Run \ {r} : thread'[s] = thread[s]
    BY <1>1, <1>2, <1>5 DEF Pauses, Fields, ClearInv
  <2>3. /\ call'[c].pc = "persist" /\ call'[c].run = r
        /\ \A d \in Call \ {c} : call'[d] = call[d]
    BY <1>1, <1>5 DEF Pauses, ClearInv, SoundCall
  <2>4. /\ shown' = shown \cup {<<r, j>> : j \in paused.asked}
        /\ runRow' = runRow
    BY <1>5 DEF Pauses, db
  <2>5. \A j \in Job : <<r, j>> \in shown' <=> j \in paused.asked
    BY <1>2, <1>3, <2>1, <2>4 DEF Told
  <2>6. Told(thread[r], r)'
    BY <1>2, <1>3, <2>2, <2>5 DEF Told
  <2>7. ASSUME NEW d \in Call PROVE Answering(d, r)'
    <3>1. CASE d = c
      BY <2>3, <3>1 DEF Answering
    <3>2. CASE d # c
      BY <1>1, <1>2, <2>3, <3>2, OthersElsewhere DEF Answering
    <3>3. QED
      BY <3>1, <3>2
  <2>8. RunTold(r)'
    BY <1>3, <2>4, <2>6, <2>7 DEF RunTold
  <2>9. \A d \in Call \ {c} : Unmoved(d)
    BY <2>3 DEF Unmoved
  <2>10. \A s \in Run \ {r}, j \in Job : <<s, j>> \in shown' <=> <<s, j>> \in shown
    BY <2>4
  <2>11. \A s \in Run \ {r} : thread'[s] = thread[s] /\ runRow'[s] = runRow[s]
    BY <2>2, <2>4
  <2>12. r \in Run /\ call[c].run = r /\ call'[c].run = r
    BY <1>1, <1>2, <2>3
  <2>13. QED
    BY <2>8, <2>9, <2>10, <2>11, <2>12, OneRunKeepsTold
<1>6. \/ Complete(c, [m EXCEPT !.routed = RouteAll(m, pay)], "finalize")
      \/ ~call[c].resumes /\ Pauses(c, m, r, paused)
  BY <1>1 DEF PolicyGuard, Pauses, db
<1>7. QED
  BY <1>4, <1>5, <1>6

LEMMA StutterKeepsTold ==
  ASSUME ToldInv, UNCHANGED <<runRow, thread, call, shown>>
  PROVE  ToldInv'
<1> SUFFICES ASSUME NEW r \in Run PROVE RunTold(r)'
  BY DEF ToldInv
<1>1. Told(thread[r], r)'
  BY DEF ToldInv, RunTold, Told, Counted, Count
<1>2. QED
  BY <1>1 DEF ToldInv, RunTold, Answering

LEMMA NextKeepsTold ==
  ASSUME ConstantsAssumption, Serial, "crash" \notin Faults,
         ClearInv, SerialInv, ToldInv, [Next]_vars
  PROVE  ToldInv'
<1>1. CASE \E c \in Call, r \in Run : StartRun(c, r) \/ Answer(c, r) \/ ResumeDirect(c, r)
  BY <1>1, StartKeepsTold, AnswerKeepsTold
<1>2. ASSUME NEW c \in Call, Proceed(c) PROVE ToldInv'
  <2>1. CASE Lookup(c) \/ Load(c)
    BY <2>1, LookupKeepsTold, LoadKeepsTold
  <2>2. CASE RunNode(c)
    BY <2>2, EarlyNodesKeepTold, PolicyGuardKeepsTold, FinalizeKeepsTold
    DEF RunNode, EarlyNode
  <2>3. CASE PersistRunResult(c)
    BY <2>3, PersistKeepsTold
  <2>4. QED
    BY <1>2, <2>1, <2>2, <2>3 DEF Proceed
<1>3. ~Crash
  BY DEF Crash
<1>4. CASE EditLimits \/ UNCHANGED vars
  BY <1>4, StutterKeepsTold DEF EditLimits, vars, db
<1>5. QED
  BY <1>1, <1>2, <1>3, <1>4 DEF Next

(* A run asks once, at policy_guard, is worked on by an answer while it     *)
(* asks, and counts its lists at the end, for an operator who waits and a   *)
(* process that lives.                                                      *)
THEOREM ToldInvariant ==
  ASSUME Serial, "crash" \notin Faults
  PROVE  Spec => []ToldInv
<1>1. Init => ToldInv
  BY ConstantsAssumption, InitIsTold
<1>2. ClearInv /\ SerialInv /\ ToldInv /\ [Next]_vars => ToldInv'
  BY ConstantsAssumption, NextKeepsTold
<1>3. QED
  BY <1>1, <1>2, ClearInvariant, SerialInvariant, PTL DEF Spec

(* Where the lists put a job: each is scored once.                          *)
LEMMA OutcomeAt ==
  ASSUME NEW m, DOMAIN m.routed \subseteq DOMAIN m.scored, Once(m.scored),
         NEW i \in DOMAIN m.routed, m.scored[i].job \in Job
  PROVE  OutcomeOf(m)[m.scored[i].job] = m.routed[i]
<1>1. Routes(m, m.scored[i].job) = {m.routed[i]}
  BY DEF Routes, Once
<1>2. QED
  BY <1>1 DEF OutcomeOf

LEMMA OutcomeFrom ==
  ASSUME NEW m, NEW j \in Job
  PROVE  \/ OutcomeOf(m)[j] = "none"
         \/ \E i \in DOMAIN m.routed : m.scored[i].job = j /\ OutcomeOf(m)[j] = m.routed[i]
<1>1. CASE Routes(m, j) = {}
  BY <1>1 DEF OutcomeOf
<1>2. CASE Routes(m, j) # {}
  <2>1. OutcomeOf(m)[j] \in Routes(m, j)
    BY <1>2 DEF OutcomeOf
  <2>2. QED
    BY <2>1 DEF Routes
<1>3. QED
  BY <1>1, <1>2

LEMMA UnroutedOutcome ==
  ASSUME NEW m, DOMAIN m.routed = {}
  PROVE  OutcomeOf(m) = [j \in Job |-> "none"]
<1>1. \A j : Routes(m, j) = {}
  BY DEF Routes
<1>2. QED
  BY <1>1 DEF OutcomeOf

LEMMA OutcomeIsTyped ==
  ASSUME NEW m \in Checkpoints
  PROVE  OutcomeOf(m) \in [Job -> Lifecycle!Destinations]
<1>1. m.routed \in Seq(Targets)
  BY DEF Checkpoints
<1>2. \A i \in DOMAIN m.routed : m.routed[i] \in Targets
  BY <1>1
<1>3. Targets \cup {"none"} = Lifecycle!Destinations
  BY DEF Targets, Lifecycle!Destinations
<1>4. \A j \in Job : OutcomeOf(m)[j] \in Lifecycle!Destinations
  BY <1>2, <1>3, OutcomeFrom
<1>5. QED
  BY <1>4 DEF OutcomeOf

(* finalize counts positions of a list; they are as many as the jobs.       *)
LEMMA CountIsWent ==
  ASSUME NEW m \in Checkpoints, DOMAIN m.routed \subseteq DOMAIN m.scored, Once(m.scored),
         NEW target \in Targets
  PROVE  Count(m, target) = Cardinality({j \in Job : OutcomeOf(m)[j] = target})
<1> DEFINE S == {i \in DOMAIN m.routed : m.routed[i] = target}
           T == {j \in Job : OutcomeOf(m)[j] = target}
           f == [i \in S |-> m.scored[i].job]
<1>1. m.routed \in Seq(Targets) /\ m.scored \in Seq(ScoredJobs)
  BY DEF Checkpoints
<1>2. \A i \in DOMAIN m.scored : m.scored[i].job \in Job
  <2>1. \A i \in DOMAIN m.scored : m.scored[i] \in ScoredJobs
    BY <1>1
  <2>2. QED
    BY <2>1 DEF ScoredJobs
<1>3. IsFiniteSet(S)
  <2>1. DOMAIN m.routed = 1 .. Len(m.routed) /\ Len(m.routed) \in Nat
    BY <1>1
  <2>2. IsFiniteSet(DOMAIN m.routed)
    BY <2>1, FS_Interval
  <2>3. QED
    BY <2>2, FS_Subset
<1>4. f \in [S -> T]
  BY <1>2, OutcomeAt
<1>5. \A i, k \in S : f[i] = f[k] => i = k
  BY DEF Once
<1>6. ASSUME NEW j \in T PROVE \E i \in S : f[i] = j
  <2>1. target # "none"
    BY DEF Targets
  <2>2. PICK i \in DOMAIN m.routed : m.scored[i].job = j /\ OutcomeOf(m)[j] = m.routed[i]
    BY <2>1, OutcomeFrom
  <2>3. QED
    BY <2>2
<1> HIDE DEF S, T, f
<1>7. f \in Injection(S, T)
  BY <1>4, <1>5 DEF Injection, IsInjective
<1>8. f \in Surjection(S, T)
  BY <1>4, <1>6 DEF Surjection
<1>9. ExistsBijection(S, T)
  BY <1>7, <1>8 DEF ExistsBijection, Bijection
<1>10. Cardinality(T) = Cardinality(S)
  BY <1>3, <1>9, FS_Bijection
<1>11. QED
  BY <1>10 DEF Count, S, T

LEMMA PhaseFacts ==
  ASSUME NEW m
  PROVE  /\ m.next = "absent" => PhaseOf(m) = "none"
         /\ m.next \in {"finalize", "END"} => PhaseOf(m) = "settled"
         /\ m.next \notin {"absent", "finalize", "END"} =>
              PhaseOf(m) = IF m.asked # {} THEN "asking" ELSE "searching"
BY DEF PhaseOf

(* A step on one run leaves what is read of the others.                     *)
LEMMA ReadAt ==
  ASSUME NEW r \in Run, \A s \in Run \ {r} : thread'[s] = thread[s]
  PROVE  /\ Phase' = [Phase EXCEPT ![r] = PhaseOf(thread'[r])]
         /\ Outcome' = [Outcome EXCEPT ![r] = OutcomeOf(thread'[r])]
         /\ PhaseOf(thread'[r]) = PhaseOf(thread[r]) => Phase' = Phase
         /\ OutcomeOf(thread'[r]) = OutcomeOf(thread[r]) => Outcome' = Outcome
         /\ Phase[r] = PhaseOf(thread[r]) /\ Outcome[r] = OutcomeOf(thread[r])
BY DEF Phase, Outcome

LEMMA UnreadStutters ==
  ASSUME UNCHANGED <<runRow, thread, said, shown>>
  PROVE  UNCHANGED Lifecycle!vars
BY DEF Lifecycle!vars, Phase, Outcome, Row

LEMMA StartSimulates ==
  ASSUME ClearInv, NEW c \in Call, NEW r \in Run, StartRun(c, r)
  PROVE  Lifecycle!Start(r)
<1>1. PICK n : n = [NoCheckpoint EXCEPT !.next = "load_candidate_profile"]
  OBVIOUS
<1>2. /\ thread[r].next = "absent" /\ WriteCheckpoint(c, r, n, "run")
      /\ UNCHANGED <<runRow, said, shown>>
      /\ n.next = "load_candidate_profile" /\ n.asked = {} /\ DOMAIN n.routed = {}
  BY <1>1 DEF StartRun, db, NoCheckpoint
<1>3. thread'[r] = n /\ \A s \in Run \ {r} : thread'[s] = thread[s]
  BY <1>2 DEF WriteCheckpoint, ClearInv
<1>4. DOMAIN thread[r].routed = {}
  BY <1>2 DEF ClearInv, Sound
<1>5. OutcomeOf(n) = OutcomeOf(thread[r])
  BY <1>2, <1>4, UnroutedOutcome
<1>6. PhaseOf(thread[r]) = "none" /\ PhaseOf(n) = "searching"
  BY <1>2, PhaseFacts
<1>7. Phase[r] = "none" /\ Phase' = [Phase EXCEPT ![r] = "searching"] /\ Outcome' = Outcome
  BY <1>3, <1>5, <1>6, ReadAt
<1>8. Row' = Row
  BY <1>2 DEF Row
<1>9. QED
  BY <1>2, <1>7, <1>8 DEF Lifecycle!Start

(* The jobs a call may decide about have not been decided about.            *)
LEMMA SendSimulates ==
  ASSUME TypeOK, ClearInv, SerialInv, HonourInv, ToldInv, Serial, NEW c \in Call, NEW r \in Run,
         thread[r].asked # {}, NEW decisions \in Decided(thread[r].asked), NEW label, NEW view,
         Send(c, r, decisions, label, view)
  PROVE  Lifecycle!Answer(r)
<1>1. /\ said' = said \cup {<<r, j, decisions[j]>> : j \in DOMAIN decisions}
      /\ UNCHANGED <<runRow, thread, shown>> /\ ~InFlight(r)
  BY DEF Send, db
<1>2. SerialRun(r) /\ ~Working(r) /\ Told(thread[r], r) /\ HonourRun(r)
  BY <1>1 DEF InFlight, Working, SerialInv, ToldInv, RunTold, HonourInv
<1>3. thread[r].next = "policy_guard" /\ \A j \in Job : <<r, j>> \in shown <=> j \in thread[r].asked
  BY <1>2 DEF Told
<1>4. runRow[r].status = "waiting_human"
  BY <1>2, <1>3 DEF SerialRun, Agree
<1>5. Phase[r] = "asking" /\ Row[r].status = "waiting_human"
  BY <1>3, <1>4 DEF Phase, PhaseOf, Row, RowOf
<1>6. \A j \in Job, choice \in Answers : <<r, j, choice>> \notin said
  BY <1>1, <1>2, <1>3 DEF InFlight, HonourRun, Honoured, Carries
<1>7. ~Lifecycle!Answered(r)
  BY <1>6 DEF Lifecycle!Answered, Lifecycle!Choices, Answers
<1>8. PICK jobs \in (SUBSET thread[r].asked) \ {{}} : decisions \in [jobs -> Answers]
  BY DEF Decided, DecisionsFor
<1>9. thread[r].asked \subseteq Job
  BY DEF TypeOK, Checkpoints
<1>10. jobs \in (SUBSET {j \in Job : <<r, j>> \in shown}) \ {{}}
  BY <1>3, <1>8, <1>9
<1>11. /\ decisions \in [jobs -> Lifecycle!Choices]
       /\ said' = said \cup {<<r, j, decisions[j]>> : j \in jobs}
  BY <1>1, <1>8 DEF Lifecycle!Choices, Answers
<1>12. UNCHANGED <<Phase, shown, Outcome, Row>>
  BY <1>1 DEF Phase, Outcome, Row
<1>13. QED
  BY <1>5, <1>7, <1>10, <1>11, <1>12 DEF Lifecycle!Answer

LEMMA AnswerSimulates ==
  ASSUME TypeOK, ClearInv, SerialInv, HonourInv, ToldInv, Serial, NEW c \in Call, NEW r \in Run,
         Answer(c, r) \/ ResumeDirect(c, r)
  PROVE  [Lifecycle!Next]_Lifecycle!vars
<1>1. Lifecycle!Answer(r) => Lifecycle!Next
  BY DEF Lifecycle!Next
<1>2. CASE Answer(c, r)
  <2>1. PICK decisions \in Decided(queue[r].asked) : Send(c, r, decisions, "lookup", queue[r].id)
    BY <1>2 DEF Answer
  <2>2. SerialRun(r) /\ ~Working(r) /\ queue[r].status = "pending"
    BY <1>2, <2>1 DEF Answer, Send, InFlight, Working, SerialInv
  <2>3. thread[r].asked # {} /\ queue[r].asked = thread[r].asked
    BY <2>2 DEF SerialRun, Agree
  <2>4. QED
    BY <1>1, <2>1, <2>3, SendSimulates
<1>3. CASE ResumeDirect(c, r)
  <2>1. CASE /\ thread[r].asked # {}
             /\ \E decisions \in Decided(thread[r].asked) : Send(c, r, decisions, "load", 0)
    BY <1>1, <2>1, SendSimulates
  <2>2. CASE Send(c, r, Nothing, "load", 0)
    <3>1. UNCHANGED <<runRow, thread, said, shown>>
      BY <2>2, NothingIsDecided DEF Send, db
    <3>2. QED
      BY <3>1, UnreadStutters
  <2>3. QED
    BY <1>3, <2>1, <2>2 DEF ResumeDirect
<1>4. QED
  BY <1>2, <1>3

(* What a completed node wrote.                                             *)
LEMMA Completed ==
  ASSUME ClearInv, NEW c \in Call, NEW node, At(c, node), NEW update, NEW next,
         Complete(c, update, next), DOMAIN update = Fields
  PROVE  /\ thread'[call[c].run].next = next /\ thread'[call[c].run].asked = {}
         /\ thread'[call[c].run].routed = update.routed
         /\ thread'[call[c].run].scored = update.scored
         /\ \A s \in Run \ {call[c].run} : thread'[s] = thread[s]
         /\ UNCHANGED <<runRow, said, shown>>
<1> DEFINE n == [update EXCEPT !.next = next, !.asked = {}]
<1>1. call[c].run \in Run /\ DOMAIN thread = Run
  BY DEF At, ClearInv, SoundCall
<1>2. /\ n.next = next /\ n.asked = {} /\ n.routed = update.routed /\ n.scored = update.scored
  BY DEF Fields
<1>3. thread' = [thread EXCEPT ![call[c].run] = n] /\ UNCHANGED <<runRow, said, shown>>
  BY DEF Complete, WriteCheckpoint, db
<1> HIDE DEF n
<1>4. QED
  BY <1>1, <1>2, <1>3

LEMMA EarlyNodesStutter ==
  ASSUME ConstantsAssumption, ClearInv, SerialInv, ToldInv, NEW c \in Call, EarlyNode(c)
  PROVE  UNCHANGED Lifecycle!vars
<1>1. /\ DOMAIN call[c].mem = Fields
      /\ \A i \in DOMAIN call[c].mem.scored : call[c].mem.scored[i].verdict \in Verdicts
  BY DEF ClearInv, SoundCall, Sound
<1>2. PICK node, next, update :
        {node, next} \subseteq Nodes \ {"finalize"} /\ Quiet(c, node, update, next)
  BY <1>1, EarlyNodesAreQuiet
<1>3. node # "policy_guard"
  BY <1>2 DEF EarlyNode, LoadCandidateProfile, LoadSearchPolicy, DiscoverPortals, NormalizeJobs,
              DedupeJobs, ScoreJobs, Quiet, At
<1>4. PICK m, r : m = call[c].mem /\ r = call[c].run
  OBVIOUS
<1>5. /\ r \in Run /\ m = thread[r] /\ m.next = node
      /\ {node, next} \cap {"absent", "finalize", "END"} = {}
  BY <1>2, <1>4 DEF Quiet, At, ClearInv, SoundCall, SerialInv, SerialCall, Nodes
<1>6. Told(m, r) /\ DOMAIN m.routed = {}
  BY <1>1, <1>4, <1>5 DEF ToldInv, RunTold, ClearInv, Sound
<1>7. /\ thread'[r].next = next /\ thread'[r].asked = {} /\ thread'[r].routed = m.routed
      /\ \A s \in Run \ {r} : thread'[s] = thread[s]
      /\ UNCHANGED <<runRow, said, shown>>
  BY <1>2, <1>4, Completed DEF Quiet
<1>8. PhaseOf(thread[r]) = "searching" /\ PhaseOf(thread'[r]) = "searching"
  BY <1>3, <1>5, <1>6, <1>7, PhaseFacts DEF Told
<1>9. OutcomeOf(thread'[r]) = OutcomeOf(thread[r])
  BY <1>5, <1>6, <1>7, UnroutedOutcome
<1>10. Phase' = Phase /\ Outcome' = Outcome
  BY <1>5, <1>7, <1>8, <1>9, ReadAt
<1>11. QED
  BY <1>7, <1>10 DEF Lifecycle!vars, Row

LEMMA FinalizeStutters ==
  ASSUME ClearInv, SerialInv, NEW c \in Call, Finalize(c)
  PROVE  UNCHANGED Lifecycle!vars
<1>1. PICK m, r : m = call[c].mem /\ r = call[c].run
  OBVIOUS
<1>2. /\ DOMAIN m = Fields /\ r \in Run /\ m = thread[r] /\ m.next = "finalize"
      /\ At(c, "finalize")
  BY <1>1 DEF ClearInv, SoundCall, Sound, SerialInv, SerialCall, Finalize, At
<1>3. PICK metrics : Complete(c, [m EXCEPT !.metrics = metrics], "END")
  BY <1>1 DEF Finalize
<1>4. PICK u : u = [m EXCEPT !.metrics = metrics]
  OBVIOUS
<1>5. /\ DOMAIN u = Fields /\ u.routed = m.routed /\ u.scored = m.scored
      /\ Complete(c, u, "END")
  BY <1>2, <1>3, <1>4 DEF Fields
<1>6. /\ thread'[r].next = "END" /\ thread'[r].routed = m.routed /\ thread'[r].scored = m.scored
      /\ \A s \in Run \ {r} : thread'[s] = thread[s]
      /\ UNCHANGED <<runRow, said, shown>>
  BY <1>1, <1>2, <1>5, Completed
<1>7. PhaseOf(thread[r]) = "settled" /\ PhaseOf(thread'[r]) = "settled"
  BY <1>2, <1>6, PhaseFacts
<1>8. OutcomeOf(thread'[r]) = OutcomeOf(thread[r])
  BY <1>2, <1>6 DEF OutcomeOf, Routes
<1>9. Phase' = Phase /\ Outcome' = Outcome
  BY <1>2, <1>6, <1>7, <1>8, ReadAt
<1>10. QED
  BY <1>6, <1>9 DEF Lifecycle!vars, Row

(* What was said of a run that has not settled is what its call carries.    *)
LEMMA SaidIsCarried ==
  ASSUME ClearInv, SerialInv, HonourInv, NEW c \in Call, At(c, "policy_guard"),
         NEW j \in Job, NEW choice \in Answers
  PROVE  <<call[c].run, j, choice>> \in said <=> j \in DOMAIN call[c].pay /\ call[c].pay[j] = choice
<1>1. PICK r : r = call[c].run
  OBVIOUS
<1>2. r \in Run /\ call[c].pc = "run" /\ thread[r].next = "policy_guard"
  BY <1>1 DEF At, ClearInv, SoundCall, SerialInv, SerialCall
<1>3. \A d \in Call \ {c} : call[d].run # r
  BY <1>1, <1>2, OthersElsewhere
<1>4. <<r, j, choice>> \in said => \E d \in Call : Carries(d, r, j, choice)
  BY <1>2 DEF HonourInv, HonourRun, Honoured
<1>5. j \in DOMAIN call[c].pay /\ call[c].pay[j] = choice => <<r, j, choice>> \in said
  BY <1>1 DEF ClearInv, SoundCall
<1>6. QED
  BY <1>1, <1>3, <1>4, <1>5 DEF Carries

LEMMA PauseSimulates ==
  ASSUME TypeOK, ClearInv, SerialInv, ToldInv, NEW c \in Call, NEW m, NEW r, NEW paused,
         ~call[c].resumes, Pauses(c, m, r, paused), UNCHANGED said
  PROVE  Lifecycle!Ask(r)
<1>1. /\ call[c].pc = "run" /\ DOMAIN m = Fields /\ r \in Run /\ m = call[c].mem /\ r = call[c].run
      /\ m = thread[r] /\ m.next = "policy_guard" /\ call[c].latest /\ DOMAIN thread = Run
  BY DEF Pauses, ClearInv, SoundCall, Sound, SerialInv, SerialCall, At
<1>2. Told(m, r) /\ Answering(c, r) /\ DOMAIN m.routed = {}
  BY <1>1 DEF ToldInv, RunTold, ClearInv, Sound
<1>3. m.asked = {}
  BY <1>1, <1>2 DEF Answering
<1>4. /\ Review(m) # {} /\ paused = [m EXCEPT !.asked = JobsAt(m, Review(m))]
      /\ thread' = [thread EXCEPT ![r] = paused] /\ runRow' = runRow
      /\ shown' = shown \cup {<<r, j>> : j \in paused.asked}
  BY <1>1 DEF Pauses, db
<1>5. /\ paused.asked = JobsAt(m, Review(m)) /\ paused.next = "policy_guard"
      /\ paused.routed = m.routed
  BY <1>1, <1>4 DEF Fields
<1>6. thread'[r] = paused /\ \A s \in Run \ {r} : thread'[s] = thread[s]
  BY <1>1, <1>4
<1>7. paused.asked # {} /\ paused.asked \subseteq Job
  <2>1. m.scored \in Seq(ScoredJobs)
    BY <1>1 DEF TypeOK, Checkpoints
  <2>2. \A i \in DOMAIN m.scored : m.scored[i] \in ScoredJobs
    BY <2>1
  <2>3. \A i \in DOMAIN m.scored : m.scored[i].job \in Job
    BY <2>2 DEF ScoredJobs
  <2>4. QED
    BY <1>4, <1>5, <2>3 DEF JobsAt, Review
<1>8. PhaseOf(thread[r]) = "searching" /\ PhaseOf(thread'[r]) = "asking"
  BY <1>1, <1>3, <1>5, <1>6, <1>7, PhaseFacts
<1>9. OutcomeOf(thread'[r]) = OutcomeOf(thread[r])
  BY <1>1, <1>2, <1>5, <1>6, UnroutedOutcome
<1>10. /\ Phase[r] = "searching" /\ Phase' = [Phase EXCEPT ![r] = "asking"]
       /\ Outcome' = Outcome
  BY <1>1, <1>6, <1>8, <1>9, ReadAt
<1>11. \E jobs \in (SUBSET Job) \ {{}} : shown' = shown \cup {<<r, j>> : j \in jobs}
  BY <1>4, <1>7
<1>12. Row' = Row
  BY <1>4 DEF Row
<1>13. QED
  BY <1>10, <1>11, <1>12 DEF Lifecycle!Ask

(* The outcome follows the answer.                                          *)
LEMMA RoutedAsSaid ==
  ASSUME ConstantsAssumption, TypeOK, ClearInv, SerialInv, DistinctInv, HonourInv, ToldInv,
         NEW c \in Call, At(c, "policy_guard"), Review(call[c].mem) = {} \/ call[c].resumes,
         NEW n, n.scored = call[c].mem.scored, n.routed = RouteAll(call[c].mem, call[c].pay)
  PROVE  Lifecycle!Follows(call[c].run, OutcomeOf(n))
<1>1. PICK m, r, pay : m = call[c].mem /\ r = call[c].run /\ pay = call[c].pay
  OBVIOUS
<1>2. /\ call[c].pc = "run" /\ r \in Run /\ m = thread[r] /\ m.next = "policy_guard"
      /\ call[c].resumes => m.asked # {}
  BY <1>1 DEF ClearInv, SoundCall, SerialInv, SerialCall, At
<1>3. Told(m, r) /\ HonourRun(r) /\ Once(m.scored)
  BY <1>2 DEF ToldInv, RunTold, HonourInv, DistinctInv, Distinct
<1>4. \A i \in DOMAIN m.scored : m.scored[i].job \in Job
  <2>1. m.scored \in Seq(ScoredJobs)
    BY <1>2 DEF TypeOK, Checkpoints
  <2>2. \A i \in DOMAIN m.scored : m.scored[i] \in ScoredJobs
    BY <2>1
  <2>3. QED
    BY <2>2 DEF ScoredJobs
<1>5. m.asked # {} => m.asked = JobsAt(m, Review(m))
  BY <1>2, <1>3 DEF HonourRun
<1>6. DOMAIN pay \subseteq m.asked
  BY <1>1, <1>2, <1>3 DEF HonourRun, Fitting
<1>7. \A j \in DOMAIN pay : pay[j] \in Answers
  BY <1>1 DEF ClearInv, SoundCall
<1>8. \A j \in Job, choice \in Answers :
        <<r, j, choice>> \in said <=> j \in DOMAIN pay /\ pay[j] = choice
  BY <1>1, SaidIsCarried
<1>9. \A j \in Job : <<r, j>> \in shown <=> \E k \in Review(m) : m.scored[k].job = j
  <2>1. \A j \in Job : <<r, j>> \in shown <=> j \in m.asked
    BY <1>2, <1>3 DEF Told
  <2>2. m.asked = {} => Review(m) = {}
    BY <1>1, <1>2
  <2>3. m.asked = JobsAt(m, Review(m))
    BY <1>5, <2>2 DEF JobsAt
  <2>4. QED
    BY <2>1, <2>3 DEF JobsAt
<1>10. /\ n.scored = m.scored /\ DOMAIN n.routed = DOMAIN m.scored
       /\ \A i \in DOMAIN m.scored :
            n.routed[i] = IF i \in Review(m) /\ m.scored[i].job \in DOMAIN pay
                            THEN pay[m.scored[i].job] ELSE Destination(m.scored[i])
  BY <1>1 DEF RouteAll
<1>11. \A i \in DOMAIN m.scored : OutcomeOf(n)[m.scored[i].job] = n.routed[i]
  BY <1>3, <1>4, <1>10, OutcomeAt
<1>12. ASSUME NEW j \in Job, NEW choice \in Answers, <<r, j, choice>> \in said
       PROVE  OutcomeOf(n)[j] = choice
  <2>1. j \in DOMAIN pay /\ pay[j] = choice
    BY <1>8, <1>12
  <2>2. PICK k \in Review(m) : m.scored[k].job = j
    BY <1>5, <1>6, <2>1 DEF JobsAt
  <2>3. k \in DOMAIN m.scored
    BY <2>2 DEF Review
  <2>4. QED
    BY <1>10, <1>11, <2>1, <2>2, <2>3
<1>13. ASSUME NEW j \in Job, OutcomeOf(n)[j] = "human_review"
       PROVE  <<r, j>> \in shown /\ j \notin DOMAIN pay
  <2>1. PICK i \in DOMAIN n.routed : n.scored[i].job = j /\ n.routed[i] = "human_review"
    BY <1>13, OutcomeFrom
  <2>2. "human_review" \notin Answers
    BY DEF Answers
  <2>3. Destination(m.scored[i]) = "human_review"
    BY <1>7, <1>10, <2>1, <2>2
  <2>4. i \in Review(m)
    BY <1>10, <2>1, <2>3 DEF Review
  <2>5. QED
    BY <1>7, <1>9, <1>10, <2>1, <2>2, <2>4
<1>14. ASSUME NEW j \in Job, <<r, j>> \in shown, j \notin DOMAIN pay
       PROVE  OutcomeOf(n)[j] = "human_review"
  <2>1. PICK k \in Review(m) : m.scored[k].job = j
    BY <1>9, <1>14
  <2>2. k \in DOMAIN m.scored /\ Destination(m.scored[k]) = "human_review"
    BY <2>1 DEF Review
  <2>3. QED
    BY <1>10, <1>11, <1>14, <2>1, <2>2
<1>15. \A j \in Job : j \notin DOMAIN pay <=> \A choice \in Answers : <<r, j, choice>> \notin said
  BY <1>7, <1>8
<1>16. Lifecycle!Choices = Answers
  BY DEF Lifecycle!Choices, Answers
<1>17. QED
  BY <1>1, <1>12, <1>13, <1>14, <1>15, <1>16 DEF Lifecycle!Follows

LEMMA RouteSimulates ==
  ASSUME ConstantsAssumption, TypeOK, TypeOK', ClearInv, SerialInv, DistinctInv, HonourInv, ToldInv,
         NEW c \in Call, At(c, "policy_guard"), Review(call[c].mem) = {} \/ call[c].resumes,
         Complete(c, [call[c].mem EXCEPT !.routed = RouteAll(call[c].mem, call[c].pay)], "finalize")
  PROVE  Lifecycle!Settle(call[c].run)
<1>1. PICK m, r, pay : m = call[c].mem /\ r = call[c].run /\ pay = call[c].pay
  OBVIOUS
<1>2. /\ call[c].pc = "run" /\ DOMAIN m = Fields /\ r \in Run /\ m = thread[r]
      /\ m.next = "policy_guard"
  BY <1>1 DEF ClearInv, SoundCall, Sound, SerialInv, SerialCall, At
<1>3. PICK u : u = [m EXCEPT !.routed = RouteAll(m, pay)]
  OBVIOUS
<1>4. /\ DOMAIN u = Fields /\ u.routed = RouteAll(m, pay) /\ u.scored = m.scored
      /\ Complete(c, u, "finalize")
  BY <1>1, <1>2, <1>3 DEF Fields
<1>5. /\ thread'[r].next = "finalize" /\ thread'[r].routed = RouteAll(m, pay)
      /\ thread'[r].scored = m.scored
      /\ \A s \in Run \ {r} : thread'[s] = thread[s]
      /\ UNCHANGED <<runRow, said, shown>>
  BY <1>1, <1>4, Completed
<1>6. PICK n \in Checkpoints : n = thread'[r]
  BY <1>2 DEF TypeOK
<1>7. Lifecycle!Follows(r, OutcomeOf(n))
  BY <1>1, <1>5, <1>6, RoutedAsSaid
<1>8. OutcomeOf(n) \in [Job -> Lifecycle!Destinations]
  BY OutcomeIsTyped
<1>9. /\ Phase[r] = PhaseOf(m) /\ Phase' = [Phase EXCEPT ![r] = "settled"]
      /\ Outcome' = [Outcome EXCEPT ![r] = OutcomeOf(n)] /\ Row' = Row
  <2>1. PhaseOf(thread'[r]) = "settled"
    BY <1>5, PhaseFacts
  <2>2. QED
    BY <1>2, <1>5, <1>6, <2>1, ReadAt DEF Row
<1>10. CASE m.asked = {}
  <2>1. Phase[r] = "searching"
    BY <1>2, <1>9, <1>10, PhaseFacts
  <2>2. QED
    BY <1>1, <1>5, <1>7, <1>8, <1>9, <2>1 DEF Lifecycle!Settle
<1>11. CASE m.asked # {}
  <2>1. Phase[r] = "asking"
    BY <1>2, <1>9, <1>11, PhaseFacts
  <2>2. Answering(c, r) /\ HonourRun(r)
    BY <1>2 DEF ToldInv, RunTold, HonourInv
  <2>3. PICK j : j \in DOMAIN pay
    BY <1>1, <1>2, <1>11, <2>2 DEF Answering
  <2>4. j \in m.asked
    BY <1>1, <1>2, <2>2, <2>3 DEF HonourRun, Fitting
  <2>5. j \in Job
    BY <1>2, <2>4 DEF TypeOK, Checkpoints
  <2>6. pay[j] \in Answers /\ <<r, j, pay[j]>> \in said
    BY <1>1, <2>3 DEF ClearInv, SoundCall
  <2>7. Lifecycle!Answered(r)
    BY <2>5, <2>6 DEF Lifecycle!Answered, Lifecycle!Choices, Answers
  <2>8. QED
    BY <1>1, <1>5, <1>7, <1>8, <1>9, <2>1, <2>7 DEF Lifecycle!Settle
<1>12. QED
  BY <1>10, <1>11

LEMMA PolicyGuardSimulates ==
  ASSUME ConstantsAssumption, TypeOK, TypeOK', ClearInv, SerialInv, DistinctInv, HonourInv, ToldInv,
         NEW c \in Call, PolicyGuard(c)
  PROVE  Lifecycle!Next
<1>1. PICK m, r, pay, paused :
        /\ m = call[c].mem /\ r = call[c].run /\ pay = call[c].pay
        /\ paused = [m EXCEPT !.asked = JobsAt(m, Review(m))]
  OBVIOUS
<1>2. r \in Run /\ At(c, "policy_guard")
  BY <1>1 DEF PolicyGuard, ClearInv, SoundCall, At
<1>3. CASE /\ Review(m) = {} \/ call[c].resumes
           /\ Complete(c, [m EXCEPT !.routed = RouteAll(m, pay)], "finalize")
  <2>1. Lifecycle!Settle(r)
    BY <1>1, <1>2, <1>3, RouteSimulates
  <2>2. QED
    BY <1>2, <2>1 DEF Lifecycle!Next
<1>4. CASE ~call[c].resumes /\ Pauses(c, m, r, paused) /\ UNCHANGED said
  <2>1. Lifecycle!Ask(r)
    BY <1>4, PauseSimulates
  <2>2. QED
    BY <1>2, <2>1 DEF Lifecycle!Next
<1>5. \/ /\ Review(m) = {} \/ call[c].resumes
         /\ Complete(c, [m EXCEPT !.routed = RouteAll(m, pay)], "finalize")
      \/ ~call[c].resumes /\ Pauses(c, m, r, paused) /\ UNCHANGED said
  BY <1>1 DEF PolicyGuard, Pauses, db
<1>6. QED
  BY <1>3, <1>4, <1>5

(* RunLifecycle brings its own name for the cardinality of a set.           *)
LEMMA SameCardinality ==
  ASSUME NEW S
  PROVE  Lifecycle!Cardinality(S) = Cardinality(S)
BY DEF Lifecycle!Cardinality, Cardinality

LEMMA PersistRunSimulates ==
  ASSUME TypeOK, ClearInv, SerialInv, DistinctInv, ToldInv, NEW c \in Call, PersistRunResult(c)
  PROVE  [Lifecycle!Next]_Lifecycle!vars
<1>1. PICK r, m : r = call[c].run /\ m = call[c].mem
  OBVIOUS
<1>2. /\ r \in Run /\ call[c].pc = "persist" /\ UNCHANGED <<thread, said, shown>>
      /\ runRow' = [runRow EXCEPT ![r] =
                      [status  |-> IF m.asked # {} THEN "waiting_human" ELSE "completed",
                       metrics |-> m.metrics]]
  BY <1>1 DEF PersistRunResult, ClearInv, SoundCall
<1>3. m = thread[r] /\ Settled(m) /\ Told(m, r) /\ SerialRun(r) /\ m \in Checkpoints
  BY <1>1, <1>2 DEF SerialInv, SerialCall, ToldInv, RunTold, TypeOK
<1>4. runRow[r].status # "completed" => runRow[r].metrics = NoMetrics
  BY <1>2 DEF ToldInv, RunTold
<1>5. UNCHANGED <<Phase, Outcome, shown, said>> /\ Phase[r] = PhaseOf(m) /\ Outcome[r] = OutcomeOf(m)
  BY <1>2, <1>3 DEF Phase, Outcome
<1>6. ASSUME NEW record, RowOf(runRow'[r]) = record
      PROVE  Row' = [Row EXCEPT ![r] = record]
  <2>1. \A s \in Run \ {r} : runRow'[s] = runRow[s]
    BY <1>2 DEF TypeOK
  <2>2. QED
    BY <1>6, <2>1 DEF Row
<1>7. CASE m.asked # {}
  <2>1. m.next = "policy_guard" /\ m.metrics = NoMetrics
    BY <1>3, <1>7 DEF Settled, Told
  <2>2. runRow[r].metrics = NoMetrics
    BY <1>3, <1>4, <2>1 DEF SerialRun
  <2>3. runRow'[r].status = "waiting_human" /\ runRow'[r].metrics = NoMetrics
    BY <1>2, <1>7, <2>1 DEF TypeOK
  <2>4. RowOf(runRow'[r]) = [Row[r] EXCEPT !.status = "waiting_human"]
    <3>1. Row[r] = RowOf(runRow[r])
      BY <1>2 DEF Row
    <3>2. QED
      BY <2>2, <2>3, <3>1 DEF RowOf
  <2>5. Phase[r] = "asking"
    BY <1>5, <1>7, <2>1, PhaseFacts
  <2>6. Lifecycle!ShowQuestion(r)
    BY <1>5, <1>6, <2>4, <2>5 DEF Lifecycle!ShowQuestion
  <2>7. QED
    BY <1>2, <2>6 DEF Lifecycle!Next
<1>8. CASE m.asked = {} /\ runRow[r].status # "completed"
  <2>1. m.next = "END" /\ Counted(m)
    BY <1>3, <1>8 DEF Settled, Told
  <2>2. DOMAIN m.routed \subseteq DOMAIN m.scored /\ Once(m.scored)
    BY <1>2, <1>3 DEF ClearInv, Sound, DistinctInv, Distinct
  <2>3. \A target \in Targets : Count(m, target) = Lifecycle!Went(r, target)
    <3>1. ASSUME NEW target \in Targets
          PROVE  Count(m, target) = Cardinality({j \in Job : OutcomeOf(m)[j] = target})
      BY <1>3, <2>2, CountIsWent
    <3>2. Outcome[r] = OutcomeOf(m)
      BY <1>5
    <3>3. ASSUME NEW target
          PROVE  Lifecycle!Went(r, target) = Cardinality({j \in Job : OutcomeOf(m)[j] = target})
      <4>1. {j \in Job : Outcome[r][j] = target} = {j \in Job : OutcomeOf(m)[j] = target}
        BY <3>2
      <4>2. Lifecycle!Went(r, target) = Cardinality({j \in Job : Outcome[r][j] = target})
        BY SameCardinality DEF Lifecycle!Went
      <4>3. QED
        BY <4>1, <4>2, Zenon
    <3>4. QED
      BY <3>1, <3>3, Zenon
  <2>4. /\ m.metrics.queued = Lifecycle!Went(r, "queue")
        /\ m.metrics.rejected = Lifecycle!Went(r, "reject")
        /\ m.metrics.human_review_pending = Lifecycle!Went(r, "human_review")
    BY <2>1, <2>3 DEF Counted, Targets
  <2>5. runRow'[r] = [status |-> "completed", metrics |-> m.metrics]
    BY <1>2, <1>8 DEF TypeOK
  <2>6. RowOf(runRow'[r]) = [status               |-> "completed",
                             queued               |-> Lifecycle!Went(r, "queue"),
                             rejected             |-> Lifecycle!Went(r, "reject"),
                             human_review_pending |-> Lifecycle!Went(r, "human_review")]
    BY <2>4, <2>5 DEF RowOf
  <2>7. Phase[r] = "settled" /\ Row[r].status # "completed"
    BY <1>2, <1>5, <1>8, <2>1, PhaseFacts DEF Row, RowOf
  <2>8. Lifecycle!Report(r)
    BY <1>5, <1>6, <2>6, <2>7 DEF Lifecycle!Report
  <2>9. QED
    BY <1>2, <2>8 DEF Lifecycle!Next
<1>9. CASE m.asked = {} /\ runRow[r].status = "completed"
  <2>1. runRow[r] = [status |-> "completed", metrics |-> m.metrics]
    BY <1>3, <1>9 DEF SerialRun
  <2>2. runRow' = runRow
    BY <1>2, <1>9, <2>1 DEF TypeOK
  <2>3. QED
    BY <1>2, <2>2, UnreadStutters
<1>10. QED
  BY <1>7, <1>8, <1>9

LEMMA RunStep ==
  ASSUME ConstantsAssumption, Serial, "crash" \notin Faults, "limits" \notin Faults,
         TypeOK, TypeOK', ClearInv, SerialInv, DistinctInv, HonourInv, ToldInv, [Next]_vars
  PROVE  [Lifecycle!Next]_Lifecycle!vars
<1>1. ASSUME NEW c \in Call, NEW r \in Run, StartRun(c, r) PROVE Lifecycle!Next
  BY <1>1, StartSimulates DEF Lifecycle!Next
<1>2. CASE \E c \in Call, r \in Run : StartRun(c, r) \/ Answer(c, r) \/ ResumeDirect(c, r)
  BY <1>1, <1>2, AnswerSimulates
<1>3. ASSUME NEW c \in Call, Proceed(c) PROVE [Lifecycle!Next]_Lifecycle!vars
  <2>1. CASE Lookup(c) \/ Load(c)
    BY <2>1, UnreadStutters DEF Lookup, Load, db
  <2>2. CASE RunNode(c)
    BY <2>2, EarlyNodesStutter, FinalizeStutters, PolicyGuardSimulates DEF RunNode, EarlyNode
  <2>3. CASE PersistRunResult(c)
    BY <2>3, PersistRunSimulates
  <2>4. QED
    BY <1>3, <2>1, <2>2, <2>3 DEF Proceed
<1>4. ~Crash /\ ~EditLimits
  BY DEF Crash, EditLimits
<1>5. CASE UNCHANGED vars
  BY <1>5, UnreadStutters DEF vars, db
<1>6. QED
  BY <1>2, <1>3, <1>4, <1>5 DEF Next

LEMMA RunInit == Init => Lifecycle!Init
<1> SUFFICES ASSUME Init PROVE Lifecycle!Init
  OBVIOUS
<1>1. /\ \A r \in Run : thread[r] = NoCheckpoint
      /\ \A r \in Run : runRow[r] = [status |-> "absent", metrics |-> NoMetrics]
      /\ said = {} /\ shown = {}
  BY DEF Init
<1>2. DOMAIN NoCheckpoint.routed = {} /\ NoCheckpoint.next = "absent"
  BY DEF NoCheckpoint
<1>3. PhaseOf(NoCheckpoint) = "none" /\ OutcomeOf(NoCheckpoint) = [j \in Job |-> "none"]
  BY <1>2, PhaseFacts, UnroutedOutcome
<1>4. Phase = [r \in Run |-> "none"] /\ Outcome = [r \in Run |-> [j \in Job |-> "none"]]
  BY <1>1, <1>3 DEF Phase, Outcome
<1>5. Row = [r \in Run |-> Lifecycle!NoReport]
  BY <1>1 DEF Row, RowOf, NoMetrics, Lifecycle!NoReport
<1>6. QED
  BY <1>1, <1>4, <1>5 DEF Lifecycle!Init

(* service.py:90-140, nodes.py:196-283: for an operator who waits, a        *)
(* process that lives, unchanged limits and ids that mean one opportunity,  *)
(* a run asks at most once and is answered at most once, every job it asked *)
(* about goes where the answer says or is left for review, nothing else is  *)
(* left, and its row reports how many jobs went where, once.                *)
THEOREM ImplementsRunLifecycleHolds ==
  ASSUME Serial, "crash" \notin Faults, "limits" \notin Faults, OneOpportunityPerId
  PROVE  Spec => ImplementsRunLifecycle
<1>1. /\ TypeOK /\ TypeOK' /\ ClearInv /\ SerialInv /\ DistinctInv /\ HonourInv /\ ToldInv
      /\ [Next]_vars
      => [Lifecycle!Next]_Lifecycle!vars
  BY ConstantsAssumption, RunStep
<1>2. Spec => []DistinctInv
  BY DistinctInvariant
<1>3. Spec => []HonourInv
  BY HonourInvariant
<1>4. Spec => []SerialInv /\ []ToldInv
  BY SerialInvariant, ToldInvariant, PTL
<1>5. QED
  BY <1>1, <1>2, <1>3, <1>4, RunInit, TypeCorrect, ClearInvariant, PTL
     DEF Spec, ImplementsRunLifecycle, Lifecycle!Spec
=============================================================================
