--------------------------- MODULE ApplyFlowProofs ---------------------------
(***************************************************************************)
(* Proofs about ApplyFlow for any number of jobs, applications and         *)
(* concurrent calls, any challenge pages and any combination of faults.    *)
(*                                                                         *)
(* Consent travels: the operator's payload sits in a call, then among the  *)
(* answers of a checkpoint, then as `approved`, then as the graph's status *)
(* and at last in the applications row; every hop may be interrupted,      *)
(* repeated, or overtaken by another call.  The invariant says at each hop *)
(* that an approval is covered by consent.                                 *)
(***************************************************************************)
EXTENDS ApplyFlow, TLAPS, FiniteSetTheorems

(* Consent to application a under the histories s (said) and w (waived).   *)
Consent(s, w, a) == "approve" \in s[a] \/ a \in w

(* Every trace of an approval in graph state m is covered by consent.      *)
Covered(s, w, a, m) ==
  /\ m.approved => Consent(s, w, a)
  /\ m.status \in Approved => Consent(s, w, a)
  /\ \A i \in DOMAIN m.answers : m.answers[i] = "approve" => Consent(s, w, a)

CallInv(s, w, r) ==
  /\ r.pc \notin {"idle", "create"} => r.app \in App
  /\ r.pc \in {"idle", "create", "invoke"} => r.pay = "none"
  /\ r.pay = "approve" => Consent(s, w, r.app)
  /\ r.pc \in {"run", "persist"} => Covered(s, w, r.app, r.mem)

ConsentInv ==
  /\ TypeOK
  /\ \A c \in Call : CallInv(said, waived, call[c])
  /\ \A a \in App : Covered(said, waived, a, thread[a])
  /\ \A a \in App : row[a].status \in Approved => Consent(said, waived, a)

-----------------------------------------------------------------------------
(* Histories only grow, so what was covered stays covered.                 *)
LEMMA CoveredMonotone ==
  ASSUME NEW s1, NEW w1, NEW s2, NEW w2, NEW a, NEW m,
         s1[a] \subseteq s2[a], w1 \subseteq w2, Covered(s1, w1, a, m)
  PROVE  Covered(s2, w2, a, m)
BY DEF Covered, Consent

LEMMA CallInvMonotone ==
  ASSUME NEW s1, NEW w1, NEW s2, NEW w2, NEW r,
         s1[r.app] \subseteq s2[r.app], w1 \subseteq w2, CallInv(s1, w1, r)
  PROVE  CallInv(s2, w2, r)
BY DEF CallInv, Covered, Consent

(* The state before anything ran is covered.                               *)
LEMMA NoCheckpointOK ==
  /\ NoCheckpoint \in Checkpoints
  /\ \A s, w, a : Covered(s, w, a, NoCheckpoint)
BY DEF NoCheckpoint, Checkpoints, Covered, Successor, Approved, Outcomes, Questions, PageKinds

LEMMA IdleOK ==
  /\ Idle \in Calls
  /\ \A s, w : CallInv(s, w, Idle)
BY NoCheckpointOK DEF Idle, Calls, CallInv

(* The answers a running node reads are payloads, and an approval among    *)
(* them is covered.                                                        *)
LEMMA AnswersOK ==
  ASSUME ConsentInv, NEW c \in Call, call[c].pc = "run"
  PROVE  /\ Answers(c) \in Seq(Payloads)
         /\ \A i \in DOMAIN Answers(c) :
              Answers(c)[i] = "approve" => Consent(said, waived, call[c].app)
<1> DEFINE m == call[c].mem
<1>1. call[c] \in Calls /\ CallInv(said, waived, call[c])
  BY DEF ConsentInv, TypeOK
<1>2. m.answers \in Seq(Payloads) /\ Covered(said, waived, call[c].app, m)
  BY <1>1 DEF Calls, Checkpoints, CallInv
<1>3. CASE call[c].pay = "none"
  BY <1>2, <1>3 DEF Answers, Covered
<1>4. CASE call[c].pay # "none"
  <2>1. call[c].pay \in Payloads
    BY <1>1, <1>4 DEF Calls
  <2>2. Answers(c) = Append(m.answers, call[c].pay)
    BY <1>4 DEF Answers
  <2>3. Answers(c) \in Seq(Payloads)
    BY <1>2, <2>1, <2>2
  <2>4. ASSUME NEW i \in DOMAIN Answers(c), Answers(c)[i] = "approve"
        PROVE  Consent(said, waived, call[c].app)
    <3>1. CASE i = Len(m.answers) + 1
      BY <1>1, <1>2, <2>2, <2>4, <3>1 DEF CallInv
    <3>2. CASE i \in 1 .. Len(m.answers)
      BY <1>2, <2>1, <2>2, <2>4, <3>2 DEF Covered
    <3>3. QED
      BY <1>2, <2>1, <2>2, <3>1, <3>2
  <2>5. QED
    BY <2>3, <2>4
<1>5. QED
  BY <1>3, <1>4

-----------------------------------------------------------------------------
(* A step that leaves rows and threads alone and adds at most to what the  *)
(* operator said: enough to look at the calls.                             *)
LEMMA CallStep ==
  ASSUME ConsentInv, UNCHANGED <<row, thread, waived>>,
         queue' \in [App -> QueueRecords], mode' \in Modes, dryRun' \in BOOLEAN,
         said' \in [App -> SUBSET Decisions],
         \A a \in App : said[a] \subseteq said'[a],
         call' \in [Call -> Calls],
         \A c \in Call : CallInv(said', waived', call'[c])
  PROVE  ConsentInv'
<1>1. TypeOK'
  BY DEF ConsentInv, TypeOK
<1>2. ASSUME NEW a \in App
      PROVE  Covered(said', waived', a, thread'[a])
  BY CoveredMonotone DEF ConsentInv
<1>3. ASSUME NEW a \in App, row'[a].status \in Approved
      PROVE  Consent(said', waived', a)
  BY <1>3 DEF ConsentInv, Consent
<1>4. QED
  BY <1>1, <1>2, <1>3 DEF ConsentInv

(* One call changes to r, nothing else does.                               *)
LEMMA OneCallStep ==
  ASSUME ConsentInv, NEW c \in Call, NEW r \in Calls,
         call' = [call EXCEPT ![c] = r], CallInv(said, waived, r),
         UNCHANGED <<row, queue, thread, conf, hist>>
  PROVE  ConsentInv'
<1>1. call' \in [Call -> Calls] /\ \A d \in Call : CallInv(said', waived', call'[d])
  BY DEF ConsentInv, TypeOK, hist
<1>2. QED
  BY <1>1, CallStep DEF ConsentInv, TypeOK, conf, hist

(* A checkpoint covered by consent may be written by any call, over        *)
(* whatever other calls have written.                                      *)
LEMMA CheckpointStep ==
  ASSUME ConsentInv, NEW c \in Call, NEW m \in Checkpoints, NEW label \in {"run", "persist"},
         call[c].app \in App, WriteCheckpoint(c, m, label),
         UNCHANGED <<db, conf, said>>,
         waived \subseteq waived', waived' \in SUBSET App,
         Covered(said', waived', call[c].app, m)
  PROVE  ConsentInv'
<1> DEFINE a == call[c].app
<1>1. thread' \in [App -> Checkpoints] /\ \A b \in App : Covered(said', waived', b, thread'[b])
  <2>1. thread' = [thread EXCEPT ![a] = m]
    BY DEF WriteCheckpoint
  <2>2. \A b \in App : Covered(said', waived', b, thread[b])
    BY CoveredMonotone DEF ConsentInv
  <2>3. QED
    BY <2>1, <2>2 DEF ConsentInv, TypeOK
<1>2. ASSUME NEW d \in Call
      PROVE  call'[d] \in Calls /\ CallInv(said', waived', call'[d])
  <2>1. call[d] \in Calls /\ CallInv(said', waived', call[d])
    BY CallInvMonotone DEF ConsentInv, TypeOK
  <2>2. CASE d = c
    <3>1. call'[c] = [call[c] EXCEPT !.pc = label, !.pay = "none", !.mem = m, !.latest = TRUE]
      BY DEF WriteCheckpoint
    <3>2. call'[c] \in Calls
      BY <2>1, <2>2, <3>1 DEF Calls
    <3>3. /\ call'[c].pc = label
          /\ call'[c].app = a
          /\ call'[c].pay = "none"
          /\ call'[c].mem = m
      BY <2>1, <2>2, <3>1 DEF Calls
    <3>4. CallInv(said', waived', call'[c])
      BY <3>3 DEF CallInv
    <3>5. QED
      BY <2>2, <3>2, <3>4
  <2>3. CASE d # c
    <3>1. call'[d] = [call[d] EXCEPT !.latest = @ /\ call[d].app # a]
      BY <2>3 DEF WriteCheckpoint
    <3>2. call'[d] \in Calls
      BY <2>1, <3>1 DEF Calls
    <3>3. /\ call'[d].pc = call[d].pc
          /\ call'[d].app = call[d].app
          /\ call'[d].pay = call[d].pay
          /\ call'[d].mem = call[d].mem
      BY <2>1, <3>1 DEF Calls
    <3>4. QED
      BY <2>1, <3>2, <3>3 DEF CallInv
  <2>4. QED
    BY <2>2, <2>3
<1>3. call' \in [Call -> Calls]
  BY <1>2 DEF WriteCheckpoint
<1>4. TypeOK'
  BY <1>1, <1>3 DEF ConsentInv, TypeOK, db, conf
<1>5. \A b \in App : row'[b].status \in Approved => Consent(said', waived', b)
  BY DEF ConsentInv, Consent, db
<1>6. QED
  BY <1>1, <1>2, <1>4, <1>5 DEF ConsentInv

(* A node that returns an update covered by consent.                       *)
LEMMA CompleteStep ==
  ASSUME ConsentInv, NEW c \in Call, call[c].pc = "run", NEW update \in Checkpoints,
         update.next \in DOMAIN Successor,
         Complete(c, update),
         waived \subseteq waived', waived' \in SUBSET App,
         update.approved => Consent(said', waived', call[c].app),
         update.status \in Approved => Consent(said', waived', call[c].app)
  PROVE  ConsentInv'
<1> DEFINE next == Successor[update.next]
           m == [update EXCEPT !.next = next, !.answers = <<>>, !.waiting = "none"]
<1>1. call[c].app \in App
  BY DEF ConsentInv, CallInv
<1>2. next \in DOMAIN Successor \cup {"absent", "END"}
  BY DEF Successor
<1>3. m \in Checkpoints
  <2>1. <<>> \in Seq(Payloads)
    OBVIOUS
  <2>2. QED
    BY <1>2, <2>1 DEF Checkpoints
<1>4. m.approved = update.approved /\ m.status = update.status /\ m.answers = <<>>
  BY DEF Checkpoints
<1>5. Covered(said', waived', call[c].app, m)
  BY <1>4 DEF Covered
<1>6. WriteCheckpoint(c, m, IF next = "END" THEN "persist" ELSE "run")
      /\ UNCHANGED <<db, conf, said>>
  BY DEF Complete
<1>7. QED
  BY <1>1, <1>3, <1>5, <1>6, CheckpointStep

(* A node that stops at a question.                                        *)
LEMMA PauseStep ==
  ASSUME ConsentInv, NEW c \in Call, call[c].pc = "run",
         NEW list \in Seq(PageKinds \cup Questions), Pause(c, list)
  PROVE  ConsentInv'
<1> DEFINE a == call[c].app
<1>1. call[c] \in Calls /\ CallInv(said, waived, call[c]) /\ a \in App
  BY DEF ConsentInv, TypeOK, CallInv
<1>2. PICK k \in DOMAIN list :
        LET m == [call[c].mem EXCEPT !.answers = Answers(c), !.waiting = list[k]]
        IN /\ list[k] # "unrecognized"
           /\ call' = [call EXCEPT ![c].pc = "persist", ![c].pay = "none", ![c].mem = m]
           /\ thread' = IF call[c].latest THEN [thread EXCEPT ![a] = m] ELSE thread
  BY DEF Pause
<1> DEFINE m == [call[c].mem EXCEPT !.answers = Answers(c), !.waiting = list[k]]
           r == [call[c] EXCEPT !.pc = "persist", !.pay = "none", !.mem = m]
<1>3. list[k] \in Questions
  BY <1>2 DEF PageKinds, Questions
<1>4. m \in Checkpoints /\ Covered(said, waived, a, m)
  <2>1. call[c].mem \in Checkpoints /\ Covered(said, waived, a, call[c].mem)
    BY <1>1 DEF Calls, CallInv
  <2>2. m \in Checkpoints
    BY <1>3, <2>1, AnswersOK DEF Checkpoints
  <2>3. /\ m.approved = call[c].mem.approved
        /\ m.status = call[c].mem.status
        /\ m.answers = Answers(c)
    BY <2>1 DEF Checkpoints
  <2>4. QED
    BY <2>1, <2>2, <2>3, AnswersOK DEF Covered
<1>5. r \in Calls /\ CallInv(said, waived, r)
  <2>1. r \in Calls
    BY <1>1, <1>4 DEF Calls
  <2>2. r.pc = "persist" /\ r.pay = "none" /\ r.mem = m /\ r.app = a
    BY <1>1 DEF Calls
  <2>3. QED
    BY <1>1, <1>4, <2>1, <2>2 DEF CallInv
<1>6. call' = [call EXCEPT ![c] = r]
  BY <1>2 DEF ConsentInv, TypeOK
<1>7. UNCHANGED <<row, queue, mode, dryRun, said, waived>>
  BY DEF Pause, db, conf, hist
<1>8. call' \in [Call -> Calls] /\ \A d \in Call : CallInv(said', waived', call'[d])
  BY <1>5, <1>6, <1>7 DEF ConsentInv, TypeOK
<1>9. thread' \in [App -> Checkpoints] /\ \A b \in App : Covered(said', waived', b, thread'[b])
  BY <1>1, <1>2, <1>4, <1>7 DEF ConsentInv, TypeOK
<1>10. QED
  BY <1>7, <1>8, <1>9 DEF ConsentInv, TypeOK, Consent

-----------------------------------------------------------------------------
LEMMA ConsentInit == Init => ConsentInv
<1> SUFFICES ASSUME Init PROVE ConsentInv
  OBVIOUS
<1>1. TypeOK
  BY NoCheckpointOK, IdleOK DEF Init, TypeOK, Rows, QueueRecords
<1>2. \A a \in App : row[a].status \notin Approved
  BY DEF Init, Approved
<1>3. QED
  BY <1>1, <1>2, NoCheckpointOK, IdleOK DEF Init, ConsentInv

(* Requests and their bookkeeping.                                         *)
LEMMA CheckDuplicateStep ==
  ASSUME ConsentInv, NEW c \in Call, NEW j \in Job, CheckDuplicate(c, j)
  PROVE  ConsentInv'
<1> DEFINE r == [call[c] EXCEPT !.pc = "create", !.job = j]
<1>1. call[c] \in Calls /\ CallInv(said, waived, call[c]) /\ call[c].pc = "idle"
  BY DEF ConsentInv, TypeOK, CheckDuplicate
<1>2. r \in Calls /\ r.pc = "create" /\ r.pay = "none"
  BY <1>1 DEF Calls, CallInv
<1>3. CallInv(said, waived, r)
  BY <1>2 DEF CallInv
<1>4. call' = [call EXCEPT ![c] = r]
  BY DEF CheckDuplicate, ConsentInv, TypeOK
<1>5. QED
  BY <1>2, <1>3, <1>4, OneCallStep DEF CheckDuplicate, db

LEMMA CreateRowStep ==
  ASSUME ConsentInv, NEW c \in Call, CreateRow(c)
  PROVE  ConsentInv'
<1>1. PICK a \in App :
        /\ row' = [row EXCEPT ![a] = [job |-> call[c].job, status |-> "waiting_human",
                                      reason |-> "none"]]
        /\ call' = [call EXCEPT ![c].pc = "invoke", ![c].app = a]
  BY DEF CreateRow
<1> DEFINE r == [call[c] EXCEPT !.pc = "invoke", !.app = a]
<1>2. call[c] \in Calls /\ CallInv(said, waived, call[c]) /\ call[c].pc = "create"
  BY DEF ConsentInv, TypeOK, CreateRow
<1>3. r \in Calls /\ r.pc = "invoke" /\ r.pay = "none" /\ r.app = a
  BY <1>2 DEF Calls, CallInv
<1>4. CallInv(said, waived, r)
  BY <1>3 DEF CallInv
<1>5. call' = [call EXCEPT ![c] = r]
  BY <1>1 DEF ConsentInv, TypeOK
<1>6. row' \in [App -> Rows]
  BY <1>1, <1>2 DEF ConsentInv, TypeOK, Rows, Calls
<1>7. UNCHANGED <<queue, thread, mode, dryRun, said, waived>>
  BY DEF CreateRow, conf, hist
<1>8. \A b \in App : row'[b].status \in Approved => Consent(said, waived, b)
  BY <1>1 DEF ConsentInv, TypeOK, Approved
<1>9. TypeOK'
  BY <1>3, <1>5, <1>6, <1>7 DEF ConsentInv, TypeOK
<1>10. QED
  BY <1>4, <1>5, <1>7, <1>8, <1>9 DEF ConsentInv, TypeOK

LEMMA SendStep ==
  ASSUME ConsentInv, NEW c \in Call, NEW a \in App, NEW p \in Payloads,
         NEW label \in {"lookup", "load"}, NEW view \in Nat, Send(c, a, p, label, view)
  PROVE  ConsentInv'
<1> DEFINE r == [call[c] EXCEPT !.pc = label, !.app = a, !.pay = p, !.view = view]
<1>1. said' \in [App -> SUBSET Decisions] /\ \A b \in App : said[b] \subseteq said'[b]
  BY DEF Send, ConsentInv, TypeOK
<1>2. p = "approve" => "approve" \in said'[a]
  BY DEF Send, ConsentInv, TypeOK, Decisions
<1>3. call[c] \in Calls /\ r \in Calls
  BY DEF ConsentInv, TypeOK, Calls
<1>4. r.pc = label /\ r.app = a /\ r.pay = p
  BY <1>3 DEF Calls
<1>5. CallInv(said', waived', r)
  BY <1>2, <1>4 DEF CallInv, Consent
<1>6. call' = [call EXCEPT ![c] = r]
  BY DEF Send, ConsentInv, TypeOK
<1>7. UNCHANGED <<row, queue, thread, mode, dryRun, waived>>
  BY DEF Send, db, conf
<1>8. ASSUME NEW d \in Call
      PROVE  CallInv(said', waived', call'[d])
  <2>1. CASE d = c
    BY <1>5, <1>6, <2>1 DEF ConsentInv, TypeOK
  <2>2. CASE d # c
    <3>1. call'[d] = call[d]
      BY <1>6, <2>2 DEF ConsentInv, TypeOK
    <3>2. CASE call[d].app \in App
      BY <1>1, <1>7, <3>1, <3>2, CallInvMonotone DEF ConsentInv
    <3>3. CASE call[d].app \notin App
      BY <3>1, <3>3 DEF ConsentInv, CallInv
    <3>4. QED
      BY <3>2, <3>3
  <2>3. QED
    BY <2>1, <2>2
<1>9. QED
  BY <1>1, <1>3, <1>6, <1>7, <1>8, CallStep DEF ConsentInv, TypeOK

LEMMA LookupStep ==
  ASSUME ConsentInv, NEW c \in Call, Lookup(c)
  PROVE  ConsentInv'
<1>1. call[c] \in Calls /\ CallInv(said, waived, call[c]) /\ call[c].pc = "lookup"
  BY DEF ConsentInv, TypeOK, Lookup
<1>2. UNCHANGED <<row, queue, thread, conf, hist>>
  BY DEF Lookup, db
<1>3. CASE call' = [call EXCEPT ![c].pc = "load"]
  <2> DEFINE r == [call[c] EXCEPT !.pc = "load"]
  <2>1. r \in Calls /\ CallInv(said, waived, r)
    BY <1>1 DEF Calls, CallInv
  <2>2. call' = [call EXCEPT ![c] = r]
    BY <1>3 DEF ConsentInv, TypeOK
  <2>3. QED
    BY <1>2, <2>1, <2>2, OneCallStep
<1>4. CASE Return(c)
  BY <1>2, <1>4, IdleOK, OneCallStep DEF Return
<1>5. QED
  BY <1>3, <1>4 DEF Lookup

LEMMA LoadStep ==
  ASSUME ConsentInv, NEW c \in Call, Load(c)
  PROVE  ConsentInv'
<1> DEFINE m == thread[call[c].app]
           label == IF m.next = "END" THEN "persist" ELSE "run"
           r == [call[c] EXCEPT !.pc = label, !.mem = m, !.latest = TRUE]
<1>1. /\ call[c] \in Calls
      /\ CallInv(said, waived, call[c])
      /\ call[c].pc = "load"
      /\ call[c].app \in App
  BY DEF ConsentInv, TypeOK, Load, CallInv
<1>2. UNCHANGED <<row, queue, thread, conf, hist>>
  BY DEF Load, db
<1>3. CASE Return(c)
  BY <1>2, <1>3, IdleOK, OneCallStep DEF Return
<1>4. CASE call' = [call EXCEPT ![c].pc = label, ![c].mem = m, ![c].latest = TRUE]
  <2>1. m \in Checkpoints /\ Covered(said, waived, call[c].app, m)
    BY <1>1 DEF ConsentInv, TypeOK
  <2>2. r \in Calls /\ r.pc = label /\ r.app = call[c].app /\ r.pay = call[c].pay /\ r.mem = m
    BY <1>1, <2>1 DEF Calls
  <2>3. CallInv(said, waived, r)
    BY <1>1, <2>1, <2>2 DEF CallInv
  <2>4. call' = [call EXCEPT ![c] = r]
    BY <1>4 DEF ConsentInv, TypeOK
  <2>5. QED
    BY <1>2, <2>2, <2>3, <2>4, OneCallStep
<1>5. QED
  BY <1>3, <1>4 DEF Load

LEMMA InvokeStep ==
  ASSUME ConsentInv, NEW c \in Call, Invoke(c)
  PROVE  ConsentInv'
<1>1. PICK list \in PageLists, unknown \in BOOLEAN, strong \in BOOLEAN :
        WriteCheckpoint(c, [NoCheckpoint EXCEPT !.next = "detect_and_map_fields",
                              !.pages = list, !.form_unknown = unknown, !.strong = strong],
                        "run")
  BY DEF Invoke
<1> DEFINE m == [NoCheckpoint EXCEPT !.next = "detect_and_map_fields",
                   !.pages = list, !.form_unknown = unknown, !.strong = strong]
<1>2. m \in Checkpoints
  BY NoCheckpointOK, ConstantsAssumption DEF Checkpoints, Successor
<1>3. m.answers = <<>> /\ m.approved = FALSE /\ m.status = "none"
  BY DEF NoCheckpoint
<1>4. Covered(said', waived', call[c].app, m)
  BY <1>3 DEF Covered, Approved
<1>5. call[c].app \in App
  BY DEF Invoke, ConsentInv, CallInv
<1>6. QED
  BY <1>1, <1>2, <1>4, <1>5, CheckpointStep DEF Invoke, hist, ConsentInv, TypeOK

-----------------------------------------------------------------------------
(* Nodes.  What a running call may assume of the state in its memory.      *)
LEMMA RunningOK ==
  ASSUME ConsentInv, NEW c \in Call, NEW node \in DOMAIN Successor, At(c, node)
  PROVE  /\ call[c].pc = "run"
         /\ call[c].app \in App
         /\ call[c].mem \in Checkpoints
         /\ call[c].mem.next \in DOMAIN Successor
         /\ Covered(said, waived, call[c].app, call[c].mem)
BY DEF At, ConsentInv, TypeOK, Calls, CallInv

(* A node that keeps approval and status as they are.                      *)
LEMMA QuietNode ==
  ASSUME ConsentInv, NEW c \in Call, NEW node \in DOMAIN Successor, At(c, node),
         NEW update \in Checkpoints, Complete(c, update), UNCHANGED waived,
         update.next = call[c].mem.next,
         update.approved = call[c].mem.approved,
         update.status = call[c].mem.status
  PROVE  ConsentInv'
<1>1. UNCHANGED said /\ waived' \in SUBSET App
  BY DEF Complete, ConsentInv, TypeOK
<1>2. Covered(said', waived', call[c].app, call[c].mem)
  BY <1>1, RunningOK
<1>3. QED
  BY <1>1, <1>2, RunningOK, CompleteStep DEF Covered

LEMMA DetectAndMapFieldsStep ==
  ASSUME ConsentInv, NEW c \in Call, DetectAndMapFields(c)
  PROVE  ConsentInv'
<1>1. At(c, "detect_and_map_fields") /\ "detect_and_map_fields" \in DOMAIN Successor
  BY DEF DetectAndMapFields, Successor
<1>2. PICK unknown \in FormUnknown(call[c].mem) :
        \/ Pause(c, UnknownFields(unknown))
        \/ /\ Answered(c, UnknownFields(unknown))
           /\ Complete(c, [call[c].mem EXCEPT !.unresolved =
                              unknown /\ Answers(c)[1] # "fields"])
           /\ UNCHANGED waived
  BY DEF DetectAndMapFields
<1>3. CASE Pause(c, UnknownFields(unknown))
  <2>1. <<>> \in Seq(PageKinds \cup Questions)
    OBVIOUS
  <2>2. <<"UNKNOWN_REQUIRED_FIELD">> \in Seq(PageKinds \cup Questions)
    BY DEF Questions
  <2>3. UnknownFields(unknown) \in Seq(PageKinds \cup Questions)
    BY <2>1, <2>2 DEF UnknownFields
  <2>4. QED
    BY <1>1, <1>3, <2>3, RunningOK, PauseStep
<1>4. CASE /\ Complete(c, [call[c].mem EXCEPT !.unresolved =
                              unknown /\ Answers(c)[1] # "fields"])
           /\ UNCHANGED waived
  <2> DEFINE update == [call[c].mem EXCEPT !.unresolved =
                          unknown /\ Answers(c)[1] # "fields"]
  <2>1. (unknown /\ Answers(c)[1] # "fields") \in BOOLEAN
    OBVIOUS
  <2>2. /\ update \in Checkpoints
        /\ update.next = call[c].mem.next
        /\ update.approved = call[c].mem.approved
        /\ update.status = call[c].mem.status
    BY <1>1, <2>1, RunningOK DEF Checkpoints
  <2>3. QED
    BY <1>1, <1>4, <2>2, QuietNode
<1>5. QED
  BY <1>2, <1>3, <1>4

LEMMA FillAndValidateStep ==
  ASSUME ConsentInv, NEW c \in Call, FillAndValidate(c)
  PROVE  ConsentInv'
<1>1. At(c, "fill_and_validate") /\ "fill_and_validate" \in DOMAIN Successor
  BY DEF FillAndValidate, Successor
<1>2. QED
  BY <1>1, RunningOK, QuietNode DEF FillAndValidate

LEMMA CheckChallengesStep ==
  ASSUME ConsentInv, NEW c \in Call, CheckChallenges(c)
  PROVE  ConsentInv'
<1>1. At(c, "check_challenges") /\ "check_challenges" \in DOMAIN Successor
  BY DEF CheckChallenges, Successor
<1>2. PICK shown \in Shown(call[c].mem) :
        \/ Pause(c, shown)
        \/ /\ Complete(c, call[c].mem)
           /\ UNCHANGED waived
  BY DEF CheckChallenges
<1>3. shown \in Seq(PageKinds \cup Questions)
  <2>1. call[c].mem.pages \in Seq(PageKinds)
    BY <1>1, RunningOK DEF Checkpoints
  <2>2. shown \in Seq(PageKinds)
    BY <1>2, <2>1 DEF Shown
  <2>3. Len(shown) \in Nat /\ shown \in [1 .. Len(shown) -> PageKinds]
    BY <2>2
  <2>4. shown \in [1 .. Len(shown) -> PageKinds \cup Questions]
    BY <2>3
  <2>5. QED
    BY <2>3, <2>4
<1>4. QED
  BY <1>1, <1>2, <1>3, RunningOK, PauseStep, QuietNode

(* The one node that decides: by the mode, which is a waiver, or by the    *)
(* first answer, which is covered.                                         *)
LEMMA ManualApprovalStep ==
  ASSUME ConsentInv, NEW c \in Call, ManualApproval(c)
  PROVE  ConsentInv'
<1> DEFINE a == call[c].app
           m == call[c].mem
<1>1. At(c, "manual_approval") /\ "manual_approval" \in DOMAIN Successor
  BY DEF ManualApproval, Successor
<1>2. /\ call[c].pc = "run"
      /\ a \in App
      /\ m \in Checkpoints
      /\ m.next \in DOMAIN Successor
      /\ Covered(said, waived, a, m)
  BY <1>1, RunningOK
<1>3. CASE /\ Complete(c, [m EXCEPT !.approved = TRUE])
           /\ waived' = waived \cup {a}
  <2> DEFINE update == [m EXCEPT !.approved = TRUE]
  <2>1. update \in Checkpoints /\ update.next = m.next
    BY <1>2 DEF Checkpoints
  <2>2. Consent(said', waived', a)
    BY <1>3 DEF Consent
  <2>3. waived' \in SUBSET App
    BY <1>2, <1>3 DEF ConsentInv, TypeOK
  <2>4. QED
    BY <1>2, <1>3, <2>1, <2>2, <2>3, CompleteStep
<1>4. CASE Pause(c, ApprovalQuestion)
  <2>1. ApprovalQuestion \in Seq(PageKinds \cup Questions)
    BY DEF ApprovalQuestion, Questions
  <2>2. QED
    BY <1>2, <1>4, <2>1, PauseStep
<1>5. CASE /\ Answered(c, ApprovalQuestion)
           /\ Complete(c, [m EXCEPT !.approved = Answers(c)[1] = "approve"])
           /\ UNCHANGED waived
  <2> DEFINE approves == Answers(c)[1] = "approve"
             update == [m EXCEPT !.approved = approves]
  <2>1. 1 \in DOMAIN Answers(c)
    <3> DEFINE asked == {i \in 1 .. (Len(ApprovalQuestion) + 1) - 1 :
                           ApprovalQuestion[i] # "unrecognized"}
    <3>1. asked = {1}
      BY DEF ApprovalQuestion
    <3>2. Cardinality(asked) = 1
      <4> HIDE DEF asked
      <4> QED
        BY <3>1, FS_Singleton
    <3>3. AskedBefore(ApprovalQuestion, Len(ApprovalQuestion) + 1) = 1
      BY <3>2 DEF AskedBefore
    <3>4. 1 <= Len(Answers(c))
      BY <1>5, <3>3 DEF Answered
    <3>5. Answers(c) \in Seq(Payloads)
      BY <1>2, AnswersOK
    <3>6. QED
      BY <3>4, <3>5
  <2>2. approves => Consent(said, waived, a)
    BY <1>2, <2>1, AnswersOK
  <2>3. approves \in BOOLEAN
    OBVIOUS
  <2>4. /\ update \in Checkpoints
        /\ update.next = m.next
        /\ update.approved = approves
        /\ update.status = m.status
    BY <1>2, <2>3 DEF Checkpoints
  <2>5. UNCHANGED <<said, waived>> /\ waived' \in SUBSET App
    BY <1>5 DEF Complete, ConsentInv, TypeOK
  <2>6. /\ approves => Consent(said', waived', a)
        /\ update.status \in Approved => Consent(said', waived', a)
    BY <1>2, <2>2, <2>4, <2>5 DEF Covered
  <2>7. QED
    BY <1>2, <1>5, <2>4, <2>5, <2>6, CompleteStep
<1>6. QED
  BY <1>3, <1>4, <1>5 DEF ManualApproval

LEMMA FinalizeApplicationStep ==
  ASSUME ConsentInv, NEW c \in Call, FinalizeApplication(c)
  PROVE  ConsentInv'
<1> DEFINE m == call[c].mem
           update == [m EXCEPT !.status = FinalStatus(m)]
<1>1. At(c, "finalize_application") /\ "finalize_application" \in DOMAIN Successor
  BY DEF FinalizeApplication, Successor
<1>2. /\ call[c].pc = "run"
      /\ m \in Checkpoints
      /\ m.next \in DOMAIN Successor
      /\ Covered(said, waived, call[c].app, m)
  BY <1>1, RunningOK
<1>3. FinalStatus(m) \in Outcomes /\ (FinalStatus(m) \in Approved => m.approved)
  BY DEF FinalStatus, Outcomes, Approved
<1>4. /\ update \in Checkpoints
      /\ update.next = m.next
      /\ update.approved = m.approved
      /\ update.status = FinalStatus(m)
  BY <1>2, <1>3 DEF Checkpoints
<1>5. Complete(c, update) /\ UNCHANGED <<said, waived>> /\ waived' \in SUBSET App
  BY DEF FinalizeApplication, Complete, ConsentInv, TypeOK
<1>6. /\ update.approved => Consent(said', waived', call[c].app)
      /\ update.status \in Approved => Consent(said', waived', call[c].app)
  BY <1>2, <1>3, <1>4, <1>5 DEF Covered
<1>7. QED
  BY <1>2, <1>4, <1>5, <1>6, CompleteStep

-----------------------------------------------------------------------------
(* The rows only repeat what the graph state in the call's memory says.    *)
LEMMA PersistResultStep ==
  ASSUME ConsentInv, NEW c \in Call, PersistResult(c)
  PROVE  ConsentInv'
<1> DEFINE a == call[c].app
           m == call[c].mem
<1>1. /\ a \in App
      /\ m \in Checkpoints
      /\ Covered(said, waived, a, m)
  BY DEF PersistResult, RowStatus, ConsentInv, TypeOK, Calls, CallInv
<1>2. call' = [call EXCEPT ![c] = Idle] /\ UNCHANGED <<thread, mode, dryRun, said, waived>>
  BY DEF PersistResult, RowStatus, Return, conf, hist
<1>3. /\ row' \in [App -> Rows]
      /\ queue' \in [App -> QueueRecords]
      /\ \A b \in App : row'[b].status \in Approved => Consent(said, waived, b)
  <2>1. CASE m.waiting # "none"
    <3>1. m.waiting \in Questions
      BY <1>1, <2>1 DEF Checkpoints
    <3>2. /\ row'   = [row EXCEPT ![a].status = "waiting_human", ![a].reason = m.waiting]
          /\ queue' = [queue EXCEPT ![a] = Pending(@, m.waiting)]
      BY <2>1 DEF PersistResult, RowStatus
    <3>3. Pending(queue[a], m.waiting) \in QueueRecords
      BY <1>1, <3>1 DEF Pending, QueueRecords, ConsentInv, TypeOK
    <3>4. row' \in [App -> Rows] /\ queue' \in [App -> QueueRecords]
      BY <1>1, <3>1, <3>2, <3>3 DEF Rows, ConsentInv, TypeOK
    <3>5. QED
      BY <1>1, <3>2, <3>4 DEF Rows, ConsentInv, TypeOK, Approved
  <2>2. CASE m.waiting = "none"
    <3> DEFINE status == IF m.status = "none" THEN "completed" ELSE m.status
    <3>1. /\ row'   = [row EXCEPT ![a].status = status, ![a].reason = "none"]
          /\ queue' = [queue EXCEPT ![a] = Resolved(@)]
      BY <2>2 DEF PersistResult, RowStatus
    <3>2. status \in {"completed"} \cup Outcomes /\ (status \in Approved => Consent(said, waived, a))
      BY <1>1 DEF Checkpoints, Covered, Approved
    <3>3. Resolved(queue[a]) \in QueueRecords
      BY <1>1 DEF Resolved, QueueRecords, ConsentInv, TypeOK
    <3>4. row' \in [App -> Rows] /\ queue' \in [App -> QueueRecords]
      BY <1>1, <3>1, <3>2, <3>3 DEF Rows, ConsentInv, TypeOK
    <3>5. QED
      BY <1>1, <3>1, <3>2, <3>4 DEF Rows, ConsentInv, TypeOK
  <2>3. QED
    BY <2>1, <2>2
<1>4. QED
  BY <1>2, <1>3, IdleOK DEF ConsentInv, TypeOK

(* Faults drop calls; what the stores keep was covered before.             *)
LEMMA BrowserFailsStep ==
  ASSUME ConsentInv, NEW c \in Call, BrowserFails(c)
  PROVE  ConsentInv'
<1> DEFINE a == call[c].app
<1>1. call[c].pc = "run" /\ a \in App
  BY DEF BrowserFails, At, ConsentInv, CallInv
<1>2. thread' = thread \/ thread' = [thread EXCEPT ![a].answers = Answers(c)]
  BY DEF BrowserFails
<1>3. thread' \in [App -> Checkpoints] /\ \A b \in App : Covered(said, waived, b, thread'[b])
  <2>1. CASE thread' = thread
    BY <2>1 DEF ConsentInv, TypeOK
  <2>2. CASE thread' = [thread EXCEPT ![a].answers = Answers(c)]
    <3> DEFINE m == [thread[a] EXCEPT !.answers = Answers(c)]
    <3>1. thread[a] \in Checkpoints /\ Covered(said, waived, a, thread[a])
      BY <1>1 DEF ConsentInv, TypeOK
    <3>2. /\ m \in Checkpoints
          /\ m.approved = thread[a].approved
          /\ m.status = thread[a].status
          /\ m.answers = Answers(c)
      BY <1>1, <3>1, AnswersOK DEF Checkpoints
    <3>3. Covered(said, waived, a, m)
      BY <1>1, <3>1, <3>2, AnswersOK DEF Covered
    <3>4. thread' = [thread EXCEPT ![a] = m]
      BY <2>2 DEF ConsentInv, TypeOK
    <3>5. QED
      BY <3>2, <3>3, <3>4 DEF ConsentInv, TypeOK
  <2>3. QED
    BY <1>2, <2>1, <2>2
<1>4. call' = [call EXCEPT ![c] = Idle] /\ UNCHANGED <<row, queue, mode, dryRun, said, waived>>
  BY DEF BrowserFails, Return, db, conf, hist
<1>5. QED
  BY <1>3, <1>4, IdleOK DEF ConsentInv, TypeOK

LEMMA CrashStep ==
  ASSUME ConsentInv, Crash
  PROVE  ConsentInv'
<1>1. UNCHANGED <<row, queue, thread, mode, said, waived>> /\ dryRun' \in BOOLEAN
  BY DEF Crash, db, hist, ConsentInv, TypeOK
<1>2. call' = [c \in Call |-> Idle]
  BY DEF Crash
<1>3. QED
  BY <1>1, <1>2, IdleOK DEF ConsentInv, TypeOK

LEMMA EditModeStep ==
  ASSUME ConsentInv, EditMode
  PROVE  ConsentInv'
<1>1. mode' \in Modes /\ UNCHANGED <<row, queue, thread, call, dryRun, said, waived>>
  BY DEF EditMode, db, hist
<1>2. QED
  BY <1>1 DEF ConsentInv, TypeOK

-----------------------------------------------------------------------------
LEMMA ConsentStep == ConsentInv /\ [Next]_vars => ConsentInv'
<1> SUFFICES ASSUME ConsentInv, [Next]_vars PROVE ConsentInv'
  OBVIOUS
<1>1. ASSUME NEW c \in Call, NEW j \in Job, CheckDuplicate(c, j) PROVE ConsentInv'
  BY <1>1, CheckDuplicateStep
<1>2. ASSUME NEW c \in Call, NEW a \in App, NEW p \in Payloads, Answer(c, a, p)
      PROVE  ConsentInv'
  <2>1. queue[a].id \in Nat
    BY DEF ConsentInv, TypeOK, QueueRecords
  <2>2. QED
    BY <1>2, <2>1, SendStep DEF Answer
<1>3. ASSUME NEW c \in Call, NEW a \in App, NEW p \in Payloads, ResumeDirect(c, a, p)
      PROVE  ConsentInv'
  BY <1>3, SendStep DEF ResumeDirect
<1>4. ASSUME NEW c \in Call, RunNode(c) PROVE ConsentInv'
  BY <1>4, DetectAndMapFieldsStep, FillAndValidateStep, CheckChallengesStep,
     ManualApprovalStep, FinalizeApplicationStep DEF RunNode
<1>5. ASSUME NEW c \in Call, Proceed(c) PROVE ConsentInv'
  BY <1>4, <1>5, CreateRowStep, InvokeStep, LookupStep, LoadStep, PersistResultStep DEF Proceed
<1>6. ASSUME NEW c \in Call, BrowserFails(c) PROVE ConsentInv'
  BY <1>6, BrowserFailsStep
<1>7. CASE Crash
  BY <1>7, CrashStep
<1>8. CASE EditMode
  BY <1>8, EditModeStep
<1>9. CASE UNCHANGED vars
  BY <1>9 DEF vars, ConsentInv, TypeOK, CallInv, Covered, Consent
<1>10. QED
  BY <1>1, <1>2, <1>3, <1>5, <1>6, <1>7, <1>8, <1>9 DEF Next

(* Every reachable state covers every approval by consent.                 *)
THEOREM ConsentIsInvariant == Spec => []ConsentInv
<1>1. QED
  BY ConsentInit, ConsentStep, PTL DEF Spec

(* The stores and handlers stay within their types: no interleaving makes  *)
(* persist_application_result or interrupt() meet a state they were not    *)
(* written for.                                                            *)
THEOREM TypeCorrect == Spec => []TypeOK
<1>1. ConsentInv => TypeOK
  BY DEF ConsentInv
<1>2. QED
  BY <1>1, ConsentIsInvariant, PTL

(* SECURITY.md:18-19 for any number of jobs, calls, retries and crashes:   *)
(* no applications row shows submitted_mock or dry_run_ready unless the    *)
(* operator approved that application or approval.mode waived asking.      *)
THEOREM NoSubmitWithoutConsentHolds == Spec => []NoSubmitWithoutConsent
<1>1. ConsentInv => NoSubmitWithoutConsent
  BY DEF ConsentInv, NoSubmitWithoutConsent, Consent
<1>2. QED
  BY <1>1, ConsentIsInvariant, PTL

-----------------------------------------------------------------------------
(* The queue and the applications table.  Only CreateRow and PersistResult *)
(* write them, and each keeps the two in step by itself.                   *)
MirrorInv == TypeOK /\ QueueMirrorsRow

LEMMA MirrorCreateRow ==
  ASSUME MirrorInv, NEW c \in Call, CreateRow(c)
  PROVE  QueueMirrorsRow'
<1>1. PICK a \in App :
        /\ row[a].status = "absent"
        /\ row' = [row EXCEPT ![a] = [job |-> call[c].job, status |-> "waiting_human",
                                      reason |-> "none"]]
  BY DEF CreateRow
<1>2. queue' = queue
  BY DEF CreateRow
<1>3. queue[a].status # "pending"
  BY <1>1 DEF MirrorInv, QueueMirrorsRow
<1>4. QED
  BY <1>1, <1>2, <1>3 DEF MirrorInv, QueueMirrorsRow, TypeOK

LEMMA MirrorPersistResult ==
  ASSUME ConsentInv, MirrorInv, NEW c \in Call, PersistResult(c)
  PROVE  QueueMirrorsRow'
<1> DEFINE a == call[c].app
           m == call[c].mem
<1>1. a \in App /\ m \in Checkpoints
  BY DEF PersistResult, RowStatus, ConsentInv, TypeOK, Calls, CallInv
<1>2. CASE m.waiting # "none"
  <2>1. /\ row'   = [row EXCEPT ![a].status = "waiting_human", ![a].reason = m.waiting]
        /\ queue' = [queue EXCEPT ![a] = Pending(@, m.waiting)]
    BY <1>2 DEF PersistResult, RowStatus
  <2>2. QED
    BY <1>1, <1>2, <2>1 DEF MirrorInv, QueueMirrorsRow, TypeOK, Rows, Pending
<1>3. CASE m.waiting = "none"
  <2> DEFINE status == IF m.status = "none" THEN "completed" ELSE m.status
  <2>1. /\ row'   = [row EXCEPT ![a].status = status, ![a].reason = "none"]
        /\ queue' = [queue EXCEPT ![a] = Resolved(@)]
    BY <1>3 DEF PersistResult, RowStatus
  <2>2. Resolved(queue[a]).status # "pending"
    BY <1>1 DEF Resolved, MirrorInv, TypeOK, QueueRecords
  <2>3. status # "waiting_human"
    BY <1>1 DEF Checkpoints, Outcomes, Approved
  <2>4. row'[a].status = status /\ queue'[a] = Resolved(queue[a])
    BY <1>1, <2>1 DEF MirrorInv, TypeOK, Rows
  <2>5. \A b \in App \ {a} : row'[b] = row[b] /\ queue'[b] = queue[b]
    BY <2>1 DEF MirrorInv, TypeOK
  <2>6. QED
    BY <2>2, <2>3, <2>4, <2>5 DEF MirrorInv, QueueMirrorsRow
<1>4. QED
  BY <1>2, <1>3

LEMMA MirrorStep == ConsentInv /\ MirrorInv /\ [Next]_vars => QueueMirrorsRow'
<1> SUFFICES ASSUME ConsentInv, MirrorInv, [Next]_vars PROVE QueueMirrorsRow'
  OBVIOUS
<1>1. ASSUME UNCHANGED db PROVE QueueMirrorsRow'
  BY <1>1 DEF db, MirrorInv, QueueMirrorsRow
<1>2. ASSUME NEW c \in Call, RunNode(c) PROVE UNCHANGED db
  <2>1. ASSUME NEW list, Pause(c, list) PROVE UNCHANGED db
    BY <2>1 DEF Pause
  <2>2. ASSUME NEW update, Complete(c, update) PROVE UNCHANGED db
    BY <2>2 DEF Complete
  <2>3. CASE DetectAndMapFields(c)
    BY <2>1, <2>2, <2>3 DEF DetectAndMapFields
  <2>4. CASE FillAndValidate(c)
    BY <2>2, <2>4 DEF FillAndValidate
  <2>5. CASE CheckChallenges(c)
    BY <2>1, <2>2, <2>5 DEF CheckChallenges
  <2>6. CASE ManualApproval(c)
    BY <2>1, <2>2, <2>6 DEF ManualApproval
  <2>7. CASE FinalizeApplication(c)
    BY <2>2, <2>7 DEF FinalizeApplication
  <2>8. QED
    BY <1>2, <2>3, <2>4, <2>5, <2>6, <2>7 DEF RunNode
<1>3. ASSUME NEW c \in Call, Proceed(c) PROVE QueueMirrorsRow'
  <2>1. CASE CreateRow(c)
    BY <2>1, MirrorCreateRow
  <2>2. CASE Invoke(c) \/ Lookup(c) \/ Load(c)
    BY <1>1, <2>2 DEF Invoke, Lookup, Load
  <2>3. CASE RunNode(c)
    BY <1>1, <1>2, <2>3
  <2>4. CASE PersistResult(c)
    BY <2>4, MirrorPersistResult
  <2>5. QED
    BY <1>3, <2>1, <2>2, <2>3, <2>4 DEF Proceed
<1>4. ASSUME NEW c \in Call, \E j \in Job : CheckDuplicate(c, j) PROVE UNCHANGED db
  BY <1>4 DEF CheckDuplicate
<1>5. ASSUME NEW c \in Call, NEW a \in App, NEW p \in Payloads,
             Answer(c, a, p) \/ ResumeDirect(c, a, p)
      PROVE  UNCHANGED db
  BY <1>5 DEF Answer, ResumeDirect, Send
<1>6. ASSUME NEW c \in Call, BrowserFails(c) PROVE UNCHANGED db
  BY <1>6 DEF BrowserFails
<1>7. CASE Crash \/ EditMode
  BY <1>1, <1>7 DEF Crash, EditMode
<1>8. CASE UNCHANGED vars
  BY <1>1, <1>8 DEF vars, db
<1>9. QED
  BY <1>1, <1>3, <1>4, <1>5, <1>6, <1>7, <1>8 DEF Next

(* persistence.py:152-180: whatever results arrive late, twice or out of   *)
(* order, an application is in the human-review queue exactly while its    *)
(* row waits for a question, and with that question.                       *)
THEOREM QueueMirrorsRowHolds == Spec => []QueueMirrorsRow
<1>1. Init => QueueMirrorsRow
  BY DEF Init, QueueMirrorsRow
<1>2. ConsentInv /\ QueueMirrorsRow /\ [Next]_vars => QueueMirrorsRow'
  BY MirrorStep DEF MirrorInv, ConsentInv
<1>3. QED
  BY <1>1, <1>2, ConsentIsInvariant, PTL DEF Spec

-----------------------------------------------------------------------------
(* What is shown can be resumed.  Rows are shown by PersistResult only,    *)
(* a call gets there only after the first checkpoint of its thread, and no *)
(* step takes a checkpoint away.                                           *)
Started(a) == thread[a].next # "absent"

CallStarted(c) == call[c].pc \in {"run", "persist"} => Started(call[c].app)

ShownInv == ShownIsResumable /\ \A c \in Call : CallStarted(c)

(* A step that shows nothing of an application without a checkpoint.       *)
ShowsNothingNew ==
  \A a \in App :
    /\ Started(a) => Started(a)'
    /\ ~Started(a) =>
         /\ row'[a] = row[a] \/ (row'[a].reason = "none" /\ row'[a].status = "waiting_human")
         /\ queue'[a] = queue[a]

LEMMA ShownKept ==
  ASSUME ConsentInv, ShownInv, ShowsNothingNew, \A c \in Call : CallStarted(c)'
  PROVE  ShownInv'
<1>1. ASSUME NEW a \in App, ~Started(a)'
      PROVE  /\ row'[a].reason = "none"
             /\ row'[a].status \notin Outcomes \cup {"completed"}
             /\ queue'[a].status = "none"
  <2>1. ~Started(a)
    BY <1>1 DEF ShowsNothingNew
  <2>2. /\ row[a].reason = "none" /\ row[a].status \notin Outcomes \cup {"completed"}
        /\ queue[a].status = "none"
    BY <2>1 DEF ShownInv, ShownIsResumable, Started
  <2>3. QED
    BY <2>1, <2>2 DEF ShowsNothingNew, Outcomes, Approved
<1>2. ShownIsResumable'
  BY <1>1 DEF ShownIsResumable, Started
<1>3. QED
  BY <1>2 DEF ShownInv

(* A call that returns, or moves on without getting to run.                *)
LEMMA ShownQuiet ==
  ASSUME ConsentInv, ShownInv, ShowsNothingNew,
         \A c \in Call : \/ call'[c].pc \notin {"run", "persist"}
                         \/ /\ call[c].pc \in {"run", "persist"} /\ call'[c].app = call[c].app
  PROVE  ShownInv'
<1>1. ASSUME NEW c \in Call PROVE CallStarted(c)'
  <2>1. CASE call'[c].pc \in {"run", "persist"}
    <3>1. call[c].pc \in {"run", "persist"} /\ call'[c].app = call[c].app
      BY <2>1
    <3>2. Started(call[c].app) /\ call[c].app \in App
      BY <3>1 DEF ShownInv, CallStarted, ConsentInv, CallInv
    <3>3. Started(call[c].app)'
      BY <3>1, <3>2 DEF ShowsNothingNew, Started
    <3>4. QED
      BY <3>3 DEF CallStarted
  <2>2. CASE call'[c].pc \notin {"run", "persist"}
    BY <2>2 DEF CallStarted
  <2>3. QED
    BY <2>1, <2>2
<1>2. QED
  BY <1>1, ShownKept

(* A checkpoint starts its thread.                                         *)
LEMMA ShownWrite ==
  ASSUME ConsentInv, ShownInv, NEW c \in Call, call[c].app \in App, NEW m, NEW label,
         m.next # "absent", WriteCheckpoint(c, m, label), UNCHANGED db
  PROVE  ShownInv'
<1>1. PICK a \in App : a = call[c].app
  OBVIOUS
<1>2. thread'[a] = m /\ \A b \in App \ {a} : thread'[b] = thread[b]
  BY <1>1 DEF WriteCheckpoint, ConsentInv, TypeOK
<1>3. Started(a)' /\ \A b \in App : Started(b) => Started(b)'
  BY <1>2 DEF Started
<1>4. ShowsNothingNew
  BY <1>3 DEF ShowsNothingNew, db
<1>5. ASSUME NEW d \in Call PROVE CallStarted(d)'
  <2>1. call[d] \in Calls
    BY DEF ConsentInv, TypeOK
  <2>2. call'[d].app = call[d].app /\ (d # c => call'[d].pc = call[d].pc)
    <3>1. CASE d = c
      BY <2>1, <3>1 DEF WriteCheckpoint, Calls
    <3>2. CASE d # c
      BY <2>1, <3>2 DEF WriteCheckpoint, Calls
    <3>3. QED
      BY <3>1, <3>2
  <2>3. CASE d = c
    BY <1>1, <1>3, <2>2, <2>3 DEF CallStarted, Started
  <2>4. CASE d # c /\ call[d].pc \in {"run", "persist"}
    <3>1. Started(call[d].app) /\ call[d].app \in App
      BY <2>4 DEF ShownInv, CallStarted, ConsentInv, CallInv
    <3>2. QED
      BY <1>3, <2>2, <3>1 DEF CallStarted, Started
  <2>5. CASE d # c /\ call[d].pc \notin {"run", "persist"}
    BY <2>2, <2>5 DEF CallStarted
  <2>6. QED
    BY <2>3, <2>4, <2>5
<1>6. QED
  BY <1>4, <1>5, ShownKept

LEMMA ShownNode ==
  ASSUME ConsentInv, ShownInv, NEW c \in Call, RunNode(c)
  PROVE  ShownInv'
<1>1. call[c].pc = "run" /\ call[c].mem.next \in DOMAIN Successor
  BY DEF RunNode, DetectAndMapFields, FillAndValidate, CheckChallenges, ManualApproval,
     FinalizeApplication, At, Successor
<1>2. /\ call[c] \in Calls /\ call[c].mem \in Checkpoints /\ call[c].app \in App
      /\ Started(call[c].app)
  BY <1>1 DEF ConsentInv, TypeOK, CallInv, Calls, ShownInv, CallStarted
<1>3. ASSUME NEW update, update.next = call[c].mem.next, Complete(c, update)
      PROVE  ShownInv'
  <2> DEFINE next == Successor[update.next]
             m == [update EXCEPT !.next = next, !.answers = <<>>, !.waiting = "none"]
  <2>1. WriteCheckpoint(c, m, IF next = "END" THEN "persist" ELSE "run") /\ UNCHANGED db
    BY <1>3 DEF Complete
  <2>2. next # "absent"
    BY <1>1, <1>3 DEF Successor
  <2>3. m.next # "absent"
    BY <2>2, <1>3
  <2>4. QED
    BY <1>2, <2>1, <2>3, ShownWrite
<1>4. ASSUME NEW list, Pause(c, list) PROVE ShownInv'
  <2>1. PICK k \in DOMAIN list :
          LET m == [call[c].mem EXCEPT !.answers = Answers(c), !.waiting = list[k]]
          IN /\ call' = [call EXCEPT ![c].pc = "persist", ![c].pay = "none", ![c].mem = m]
             /\ thread' = IF call[c].latest THEN [thread EXCEPT ![call[c].app] = m] ELSE thread
    BY <1>4 DEF Pause
  <2> DEFINE m == [call[c].mem EXCEPT !.answers = Answers(c), !.waiting = list[k]]
  <2>2. m.next # "absent"
    BY <1>1, <1>2 DEF Checkpoints, Successor
  <2>3. \A a \in App : Started(a) => Started(a)'
    BY <2>1, <2>2 DEF Started, ConsentInv, TypeOK
  <2>4. ShowsNothingNew
    BY <1>4, <2>3 DEF Pause, db, ShowsNothingNew
  <2>5. \A d \in Call : \/ d # c /\ call'[d] = call[d]
                        \/ d = c /\ call'[d].app = call[d].app
    BY <2>1 DEF ConsentInv, TypeOK, Calls
  <2>6. QED
    BY <1>1, <2>4, <2>5, ShownQuiet
<1>5. CASE DetectAndMapFields(c)
  <2>1. ASSUME NEW unresolved
        PROVE  [call[c].mem EXCEPT !.unresolved = unresolved].next = call[c].mem.next
    BY <1>2 DEF Checkpoints
  <2>2. QED
    BY <1>3, <1>4, <1>5, <2>1 DEF DetectAndMapFields
<1>6. CASE FillAndValidate(c) \/ CheckChallenges(c)
  BY <1>3, <1>4, <1>6 DEF FillAndValidate, CheckChallenges
<1>7. CASE ManualApproval(c)
  <2>1. ASSUME NEW approved
        PROVE  [call[c].mem EXCEPT !.approved = approved].next = call[c].mem.next
    BY <1>2 DEF Checkpoints
  <2>2. QED
    BY <1>3, <1>4, <1>7, <2>1 DEF ManualApproval
<1>8. CASE FinalizeApplication(c)
  <2>1. [call[c].mem EXCEPT !.status = FinalStatus(call[c].mem)].next = call[c].mem.next
    BY <1>2 DEF Checkpoints
  <2>2. QED
    BY <1>3, <1>8, <2>1 DEF FinalizeApplication
<1>9. QED
  BY <1>5, <1>6, <1>7, <1>8 DEF RunNode

LEMMA ShownStep == ConsentInv /\ ShownInv /\ [Next]_vars => ShownInv'
<1> SUFFICES ASSUME ConsentInv, ShownInv, [Next]_vars PROVE ShownInv'
  OBVIOUS
<1>1. ASSUME UNCHANGED <<row, queue, thread>> PROVE ShowsNothingNew
  BY <1>1 DEF ShowsNothingNew, Started
<1>2. \A c \in Call : call[c] \in Calls
  BY DEF ConsentInv, TypeOK
<1>3. Idle.pc = "idle"
  BY DEF Idle
<1>4. ASSUME NEW c \in Call, NEW j \in Job, CheckDuplicate(c, j) PROVE ShownInv'
  BY <1>1, <1>2, <1>4, ShownQuiet DEF CheckDuplicate, db, ConsentInv, TypeOK, Calls
<1>5. ASSUME NEW c \in Call, NEW a \in App, NEW p \in Payloads,
             Answer(c, a, p) \/ ResumeDirect(c, a, p)
      PROVE  ShownInv'
  <2>1. /\ UNCHANGED <<row, queue, thread>>
        /\ \E label \in {"lookup", "load"} : \E v :
             call' = [call EXCEPT ![c].pc = label, ![c].app = a, ![c].pay = p, ![c].view = v]
    BY <1>5 DEF Answer, ResumeDirect, Send, db
  <2>2. \A d \in Call : (d # c /\ call'[d] = call[d]) \/ call'[d].pc \in {"lookup", "load"}
    BY <1>2, <2>1 DEF ConsentInv, TypeOK, Calls
  <2>3. QED
    BY <1>1, <2>1, <2>2, ShownQuiet
<1>6. ASSUME NEW c \in Call, CreateRow(c) PROVE ShownInv'
  <2>1. PICK a \in App :
          /\ row' = [row EXCEPT ![a] = [job |-> call[c].job, status |-> "waiting_human",
                                        reason |-> "none"]]
          /\ call' = [call EXCEPT ![c].pc = "invoke", ![c].app = a]
    BY <1>6 DEF CreateRow
  <2>2. ShowsNothingNew
    BY <1>6, <2>1 DEF CreateRow, ShowsNothingNew, Started, ConsentInv, TypeOK
  <2>3. \A d \in Call : (d # c /\ call'[d] = call[d]) \/ call'[d].pc = "invoke"
    BY <1>2, <2>1 DEF ConsentInv, TypeOK, Calls
  <2>4. QED
    BY <2>2, <2>3, ShownQuiet
<1>7. ASSUME NEW c \in Call, Invoke(c) PROVE ShownInv'
  <2>1. PICK list \in PageLists, unknown \in BOOLEAN, strong \in BOOLEAN :
          WriteCheckpoint(c, [NoCheckpoint EXCEPT !.next = "detect_and_map_fields",
                                !.pages = list, !.form_unknown = unknown, !.strong = strong],
                          "run")
    BY <1>7 DEF Invoke
  <2> DEFINE m == [NoCheckpoint EXCEPT !.next = "detect_and_map_fields",
                     !.pages = list, !.form_unknown = unknown, !.strong = strong]
  <2>2. m.next # "absent"
    BY DEF NoCheckpoint
  <2>3. call[c].app \in App /\ UNCHANGED db
    BY <1>7 DEF Invoke, ConsentInv, CallInv
  <2>4. QED
    BY <2>1, <2>2, <2>3, ShownWrite
<1>8. ASSUME NEW c \in Call, Lookup(c) PROVE ShownInv'
  <2>1. /\ UNCHANGED <<row, queue, thread>>
        /\ call' = [call EXCEPT ![c].pc = "load"] \/ call' = [call EXCEPT ![c] = Idle]
    BY <1>8 DEF Lookup, Return, db
  <2>2. \A d \in Call : (d # c /\ call'[d] = call[d]) \/ call'[d].pc \in {"idle", "load"}
    BY <1>2, <1>3, <2>1 DEF ConsentInv, TypeOK, Calls
  <2>3. QED
    BY <1>1, <2>1, <2>2, ShownQuiet
<1>9. ASSUME NEW c \in Call, Load(c) PROVE ShownInv'
  <2> DEFINE m == thread[call[c].app]
             label == IF m.next = "END" THEN "persist" ELSE "run"
  <2>1. /\ UNCHANGED <<row, queue, thread>>
        /\ \/ call' = [call EXCEPT ![c] = Idle]
           \/ m.next # "absent"
              /\ call' = [call EXCEPT ![c].pc = label, ![c].mem = m, ![c].latest = TRUE]
    BY <1>9 DEF Load, Return, db
  <2>2. ShowsNothingNew
    BY <1>1, <2>1
  <2>3. CASE call' = [call EXCEPT ![c] = Idle]
    <3>1. \A d \in Call : (d # c /\ call'[d] = call[d]) \/ call'[d].pc = "idle"
      BY <1>2, <1>3, <2>3 DEF ConsentInv, TypeOK
    <3>2. QED
      BY <2>2, <3>1, ShownQuiet
  <2>4. CASE /\ m.next # "absent"
             /\ call' = [call EXCEPT ![c].pc = label, ![c].mem = m, ![c].latest = TRUE]
    <3>1. \A d \in Call : call'[d].app = call[d].app /\ (d # c => call'[d].pc = call[d].pc)
      BY <1>2, <2>4 DEF ConsentInv, TypeOK, Calls
    <3>2. \A d \in Call : CallStarted(d)'
      BY <2>1, <2>4, <3>1 DEF CallStarted, Started, ShownInv
    <3>3. QED
      BY <2>2, <3>2, ShownKept
  <2>5. QED
    BY <2>1, <2>3, <2>4
<1>10. ASSUME NEW c \in Call, PersistResult(c) PROVE ShownInv'
  <2>1. call' = [call EXCEPT ![c] = Idle] /\ thread' = thread
    BY <1>10 DEF PersistResult, RowStatus, Return
  <2>2. call[c].app \in App /\ Started(call[c].app)
    BY <1>10 DEF PersistResult, RowStatus, ConsentInv, CallInv, ShownInv, CallStarted
  <2>3. \A b \in App \ {call[c].app} : row'[b] = row[b] /\ queue'[b] = queue[b]
    BY <1>10 DEF PersistResult, RowStatus, ConsentInv, TypeOK
  <2>4. ShowsNothingNew
    BY <2>1, <2>2, <2>3 DEF ShowsNothingNew, Started
  <2>5. \A d \in Call : (d # c /\ call'[d] = call[d]) \/ call'[d].pc = "idle"
    BY <1>2, <1>3, <2>1 DEF ConsentInv, TypeOK
  <2>6. QED
    BY <2>4, <2>5, ShownQuiet
<1>11. ASSUME NEW c \in Call, Proceed(c) PROVE ShownInv'
  BY <1>6, <1>7, <1>8, <1>9, <1>10, <1>11, ShownNode DEF Proceed
<1>12. ASSUME NEW c \in Call, BrowserFails(c) PROVE ShownInv'
  <2>1. /\ call' = [call EXCEPT ![c] = Idle] /\ UNCHANGED <<row, queue>>
        /\ thread' = thread \/ thread' = [thread EXCEPT ![call[c].app].answers = Answers(c)]
    BY <1>12 DEF BrowserFails, Return, db
  <2>2. ASSUME NEW a \in App PROVE thread'[a].next = thread[a].next
    <3>1. thread \in [App -> Checkpoints] /\ thread[a] \in Checkpoints
      BY DEF ConsentInv, TypeOK
    <3>2. CASE thread' = [thread EXCEPT ![call[c].app].answers = Answers(c)]
      <4>1. \A m \in Checkpoints : \A s : [m EXCEPT !.answers = s].next = m.next
        BY DEF Checkpoints
      <4>2. thread'[a] = thread[a] \/ thread'[a] = [thread[a] EXCEPT !.answers = Answers(c)]
        BY <3>1, <3>2
      <4>3. QED
        BY <3>1, <4>1, <4>2
    <3>3. QED
      BY <2>1, <3>2
  <2>3. ShowsNothingNew
    BY <2>1, <2>2 DEF ShowsNothingNew, Started
  <2>4. \A d \in Call : (d # c /\ call'[d] = call[d]) \/ call'[d].pc = "idle"
    BY <1>2, <1>3, <2>1 DEF ConsentInv, TypeOK
  <2>5. QED
    BY <2>3, <2>4, ShownQuiet
<1>13. CASE Crash
  <2>1. UNCHANGED <<row, queue, thread>> /\ \A d \in Call : call'[d].pc = "idle"
    BY <1>3, <1>13 DEF Crash, db
  <2>2. QED
    BY <1>1, <2>1, ShownQuiet
<1>14. CASE EditMode \/ UNCHANGED vars
  <2>1. UNCHANGED <<row, queue, thread, call>>
    BY <1>14 DEF EditMode, db, vars
  <2>2. QED
    BY <1>1, <2>1, ShownQuiet
<1>15. QED
  BY <1>4, <1>5, <1>11, <1>12, <1>13, <1>14 DEF Next

(* apply_service.py:103-107: whatever overlaps, is repeated or dies, the   *)
(* dashboard shows no question, outcome or queue record of an application  *)
(* that resume_application cannot take up.  The bare row of a start is the *)
(* one thing it may show without a checkpoint.                             *)
THEOREM ShownIsResumableHolds == Spec => []ShownIsResumable
<1>1. Init => ShownInv
  BY DEF Init, ShownInv, ShownIsResumable, CallStarted, Outcomes, Approved, Idle
<1>2. ConsentInv /\ ShownInv /\ [Next]_vars => ShownInv'
  BY ShownStep
<1>3. ShownInv => ShownIsResumable
  BY DEF ShownInv
<1>4. QED
  BY <1>1, <1>2, <1>3, ConsentIsInvariant, PTL DEF Spec
=============================================================================
