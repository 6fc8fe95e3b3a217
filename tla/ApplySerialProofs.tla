-------------------------- MODULE ApplySerialProofs --------------------------
(***************************************************************************)
(* What ApplyFlow guarantees an operator who waits for each answer of a    *)
(* process that lives and whose approval mode is not edited meanwhile, for *)
(* any number of applications, any pages and any failures of the browser.  *)
(*                                                                         *)
(* The two directions of a decline rest on the gate: the question of       *)
(* manual_approval is asked only when the mode does not approve, and what  *)
(* the mode looks at does not change once the gate is reached.  That an    *)
(* answer reaches the question it was given to rests in turn on the tables *)
(* following the graph, so all of it is one invariant.                     *)
(***************************************************************************)
EXTENDS ApplyFlowProofs, ApplyLifecycle

Asked    == "MANUAL_APPROVAL_REQUIRED"
Decided  == {"finalize_application", "END"}
FromGate == Decided \cup {"manual_approval"}

(* What the calls for application a are at.                                *)
PCs(a) == {call[c].pc : c \in {d \in Call : call[d].app = a}}

(* The checkpoint: the approval is asked at the gate, and nothing is known *)
(* there before it is.                                                     *)
Gate(m) ==
  /\ m.waiting = Asked => m.next = "manual_approval" /\ ~ModeApproves(m)
  /\ m.next = "manual_approval" => m.answers = <<>> /\ m.waiting \in {"none", Asked}
  /\ m.next \in {"absent"} \cup Decided => m.waiting = "none"

(* The decisions: s was said of the application, w if the mode waived it.  *)
Outcome(m, s, w) ==
  /\ "decline" \in s => m.next \in FromGate /\ ~ModeApproves(m)
  /\ w => m.next \in Decided /\ ModeApproves(m)
  /\ m.next \in Decided /\ ~m.approved => "decline" \in s
  /\ m.next = "END" => m.status \in Outcomes
  /\ m.next = "END" /\ m.status = "rejected_by_human" => ~m.approved

(* The tables: r is the row and q the queue record of a checkpoint m that  *)
(* calls at pcs work on.                                                   *)
Tables(m, r, q, pcs) ==
  /\ r.status = "absent" => m.next = "absent"
  /\ m.next = "absent" => q.status # "pending"
  /\ m.next = "absent" /\ r.status # "absent" => "invoke" \in pcs
  /\ m.next # "END" => r.status \notin Outcomes
  /\ r.status \in Outcomes => r.status = m.status
  /\ m.next = "END" /\ "persist" \notin pcs => r.status = m.status
  /\ m.waiting # "none" /\ "persist" \notin pcs => q.status = "pending" /\ q.reason = m.waiting
  /\ q.status = "pending" /\ q.reason = Asked => m.next \in FromGate /\ ~ModeApproves(m)
  /\ "run" \notin pcs /\ "persist" \notin pcs =>
       /\ m.next # "finalize_application"
       /\ m.next = "manual_approval" => m.waiting # "none"

AppInv(a) ==
  /\ Gate(thread[a])
  /\ Outcome(thread[a], said[a], a \in waived)
  /\ Tables(thread[a], row[a], queue[a], PCs(a))

(* A call, on an application whose checkpoint is m and row r, of which s   *)
(* was said.                                                               *)
HandlerInv(k, m, r, s) ==
  /\ r.status # "absent"
  /\ k.pc = "invoke" => m.next = "absent"
  /\ k.pc # "invoke" => m.next # "absent"
  /\ k.pc \in {"run", "persist"} => k.mem = m
  /\ k.pc = "run" => k.latest /\ m.next # "END"
  /\ k.pc = "persist" => m.waiting # "none" \/ m.next = "END"
  /\ k.pay # "none" /\ m.next = "manual_approval" => k.pay \in Decisions /\ k.pay \in s

SerialCall(c) ==
  IF call[c].pc \in {"idle", "create"} THEN call[c].app = NoApp
  ELSE /\ call[c].app \in App
       /\ HandlerInv(call[c], thread[call[c].app], row[call[c].app], said[call[c].app])

Alone == \A c, d \in Call : call[c].app # NoApp /\ call[d].app = call[c].app => c = d

SerialInv ==
  /\ \A a \in App : AppInv(a)
  /\ \A c \in Call : SerialCall(c)
  /\ Alone

-----------------------------------------------------------------------------
LEMMA PCsOfOne ==
  ASSUME NEW a, NEW c \in Call, \A d \in Call \ {c} : call[d].app # a
  PROVE  PCs(a) = IF call[c].app = a THEN {call[c].pc} ELSE {}
<1>1. CASE call[c].app = a
  <2>1. {d \in Call : call[d].app = a} = {c}
    BY <1>1
  <2>2. QED
    BY <1>1, <2>1 DEF PCs
<1>2. CASE call[c].app # a
  <2>1. {d \in Call : call[d].app = a} = {}
    BY <1>2
  <2>2. QED
    BY <1>2, <2>1 DEF PCs
<1>3. QED
  BY <1>1, <1>2

(* What a step of call c for application a leaves alone.                   *)
OnlyTouches(c, a) ==
  /\ mode' = mode
  /\ \A b \in App \ {a} :
       /\ thread'[b] = thread[b] /\ row'[b] = row[b] /\ queue'[b] = queue[b]
       /\ said'[b] = said[b] /\ (b \in waived' <=> b \in waived)
  /\ \A d \in Call \ {c} :
       /\ call[d].app # a
       /\ call'[d].pc = call[d].pc /\ call'[d].app = call[d].app
       /\ call'[d].pay = call[d].pay /\ call'[d].mem = call[d].mem
       /\ call[d].latest => call'[d].latest
  /\ call[c].app \in {NoApp, a} /\ call'[c].app \in {NoApp, a}

(* The application after the step, and the one call at work on it.         *)
Touched(c, a) ==
  /\ Gate(thread[a])
  /\ Outcome(thread[a], said[a], a \in waived)
  /\ Tables(thread[a], row[a], queue[a], IF call[c].app = a THEN {call[c].pc} ELSE {})
  /\ SerialCall(c)

(* It is enough to look at that application and that call.                 *)
LEMMA TouchStep ==
  ASSUME ConstantsAssumption, SerialInv, NEW c \in Call, NEW a \in App,
         OnlyTouches(c, a), Touched(c, a)'
  PROVE  SerialInv'
<1>1. a # NoApp
  BY DEF ConstantsAssumption
<1>2. AppInv(a)'
  <2>1. \A d \in Call \ {c} : call'[d].app # a
    BY DEF OnlyTouches
  <2>2. PCs(a)' = IF call'[c].app = a THEN {call'[c].pc} ELSE {}
    <3>1. CASE call'[c].app = a
      <4>1. {d \in Call : call'[d].app = a} = {c}
        BY <2>1, <3>1
      <4>2. QED
        BY <3>1, <4>1 DEF PCs
    <3>2. CASE call'[c].app # a
      <4>1. {d \in Call : call'[d].app = a} = {}
        BY <2>1, <3>2
      <4>2. QED
        BY <3>2, <4>1 DEF PCs
    <3>3. QED
      BY <3>1, <3>2
  <2>3. QED
    BY <2>2 DEF AppInv, Touched
<1>3. ASSUME NEW b \in App \ {a} PROVE AppInv(b)'
  <2>1. PCs(b)' = PCs(b)
    <3>1. {d \in Call : call'[d].app = b} = {d \in Call : call[d].app = b}
      BY <1>1 DEF OnlyTouches, ConstantsAssumption
    <3>2. c \notin {d \in Call : call[d].app = b}
      BY <1>1 DEF OnlyTouches, ConstantsAssumption
    <3>3. \A d \in {e \in Call : call[e].app = b} : call'[d].pc = call[d].pc
      BY <3>2 DEF OnlyTouches
    <3>4. QED
      BY <3>1, <3>3 DEF PCs
  <2>2. /\ thread'[b] = thread[b] /\ row'[b] = row[b] /\ queue'[b] = queue[b]
        /\ said'[b] = said[b] /\ (b \in waived' <=> b \in waived) /\ mode' = mode
    BY DEF OnlyTouches
  <2>3. AppInv(b)
    BY DEF SerialInv
  <2>4. QED
    BY <2>1, <2>2, <2>3 DEF AppInv, Gate, Outcome, Tables, ModeApproves
<1>4. ASSUME NEW d \in Call \ {c} PROVE SerialCall(d)'
  <2>1. SerialCall(d)
    BY DEF SerialInv
  <2>2. /\ call'[d].pc = call[d].pc /\ call'[d].app = call[d].app
        /\ call'[d].pay = call[d].pay /\ call'[d].mem = call[d].mem
        /\ call[d].latest => call'[d].latest
        /\ call[d].app # a
    BY DEF OnlyTouches
  <2>3. CASE call[d].pc \in {"idle", "create"}
    BY <2>1, <2>2, <2>3 DEF SerialCall
  <2>4. CASE call[d].pc \notin {"idle", "create"}
    <3>1. call[d].app \in App \ {a}
      BY <2>1, <2>2, <2>4 DEF SerialCall
    <3>2. /\ thread'[call[d].app] = thread[call[d].app] /\ row'[call[d].app] = row[call[d].app]
          /\ said'[call[d].app] = said[call[d].app]
      BY <3>1 DEF OnlyTouches
    <3>3. QED
      BY <2>1, <2>2, <2>4, <3>2 DEF SerialCall, HandlerInv
  <2>5. QED
    BY <2>3, <2>4
<1>5. SerialCall(c)'
  BY DEF Touched
<1>6. Alone'
  <2>1. SUFFICES ASSUME NEW d \in Call, NEW e \in Call, call'[d].app # NoApp,
                        call'[e].app = call'[d].app
                 PROVE  d = e
    BY DEF Alone
  <2>2. CASE d # c /\ e # c
    BY <2>1, <2>2 DEF OnlyTouches, SerialInv, Alone
  <2>3. CASE d = c /\ e # c
    BY <2>1, <2>3 DEF OnlyTouches
  <2>4. CASE d # c /\ e = c
    BY <2>1, <2>4 DEF OnlyTouches
  <2>5. QED
    BY <2>2, <2>3, <2>4
<1>7. QED
  BY <1>2, <1>3, <1>4, <1>5, <1>6 DEF SerialInv

(* A call that works on an application does so alone.                      *)
LEMMA WorksAlone ==
  ASSUME ConstantsAssumption, SerialInv, NEW c \in Call, call[c].pc \notin {"idle", "create"}
  PROVE  /\ call[c].app \in App
         /\ \A d \in Call \ {c} : call[d].app # call[c].app
         /\ PCs(call[c].app) = {call[c].pc}
         /\ AppInv(call[c].app)
         /\ HandlerInv(call[c], thread[call[c].app], row[call[c].app], said[call[c].app])
<1>1. /\ call[c].app \in App
      /\ HandlerInv(call[c], thread[call[c].app], row[call[c].app], said[call[c].app])
  BY DEF SerialInv, SerialCall
<1>2. \A d \in Call \ {c} : call[d].app # call[c].app
  BY <1>1 DEF SerialInv, Alone, ConstantsAssumption
<1>3. PCs(call[c].app) = {call[c].pc}
  BY <1>2, PCsOfOne
<1>4. QED
  BY <1>1, <1>2, <1>3 DEF SerialInv

LEMMA InitIsSerial == Init => SerialInv
<1> SUFFICES ASSUME Init PROVE SerialInv
  OBVIOUS
<1>1. \A c \in Call : call[c].pc = "idle" /\ call[c].app = NoApp
  BY DEF Init, Idle
<1>2. ASSUME NEW a \in App PROVE AppInv(a)
  <2>1. /\ thread[a] = NoCheckpoint /\ said[a] = {} /\ a \notin waived
        /\ row[a].status = "absent" /\ queue[a].status = "none"
    BY DEF Init
  <2>2. /\ thread[a].next = "absent" /\ thread[a].waiting = "none"
    BY <2>1 DEF NoCheckpoint
  <2>3. QED
    BY <2>1, <2>2 DEF AppInv, Gate, Outcome, Tables, Outcomes, Approved, Decided, FromGate, Asked
<1>3. QED
  BY <1>1, <1>2 DEF SerialInv, SerialCall, Alone

-----------------------------------------------------------------------------
(* Steps that are not about one application.                               *)
LEMMA SerialQuiet ==
  ASSUME SerialInv, UNCHANGED <<row, queue, thread, mode, said, waived>>,
         \A d \in Call : /\ call'[d].app = call[d].app
                         /\ \/ call'[d] = call[d]
                            \/ /\ call[d].pc \in {"idle", "create"}
                               /\ call'[d].pc \in {"idle", "create"}
                               /\ call[d].app \notin App
  PROVE  SerialInv'
<1>1. ASSUME NEW a \in App PROVE AppInv(a)'
  <2>1. {d \in Call : call'[d].app = a} = {d \in Call : call[d].app = a}
    OBVIOUS
  <2>2. \A d \in {e \in Call : call[e].app = a} : call'[d].pc = call[d].pc
    OBVIOUS
  <2>3. PCs(a)' = PCs(a)
    BY <2>1, <2>2 DEF PCs
  <2>4. QED
    BY <2>3 DEF SerialInv, AppInv, Gate, Outcome, Tables, ModeApproves
<1>2. ASSUME NEW d \in Call PROVE SerialCall(d)'
  <2>1. SerialCall(d)
    BY DEF SerialInv
  <2>2. CASE call'[d] = call[d]
    BY <2>1, <2>2 DEF SerialCall, HandlerInv
  <2>3. CASE call'[d] # call[d]
    BY <2>1, <2>3 DEF SerialCall
  <2>4. QED
    BY <2>2, <2>3
<1>3. Alone'
  BY DEF SerialInv, Alone
<1>4. QED
  BY <1>1, <1>2, <1>3 DEF SerialInv

LEMMA SerialCheckDuplicate ==
  ASSUME ConstantsAssumption, TypeOK, SerialInv, NEW c \in Call, NEW j \in Job,
         CheckDuplicate(c, j)
  PROVE  SerialInv'
<1>1. /\ call[c].pc = "idle"
      /\ call' = [call EXCEPT ![c].pc = "create", ![c].job = j]
      /\ UNCHANGED <<row, queue, thread, mode, said, waived>>
  BY DEF CheckDuplicate, db, conf, hist
<1>2. /\ call'[c].pc = "create" /\ call'[c].app = call[c].app
      /\ \A d \in Call \ {c} : call'[d] = call[d]
  BY <1>1 DEF TypeOK, Calls
<1>3. call[c].app \notin App
  BY <1>1 DEF SerialInv, SerialCall, ConstantsAssumption
<1>4. QED
  BY <1>1, <1>2, <1>3, SerialQuiet

(* A handler moves on, or returns, and writes at most its application.     *)
LEMMA Moves ==
  ASSUME ConstantsAssumption, TypeOK, SerialInv, NEW c \in Call, NEW a \in App,
         \A d \in Call \ {c} : call[d].app # a,
         call[c].app \in {NoApp, a}, call'[c].app \in {NoApp, a},
         \A d \in Call \ {c} : call'[d] = call[d],
         mode' = mode,
         \A b \in App \ {a} : /\ thread'[b] = thread[b] /\ row'[b] = row[b]
                              /\ queue'[b] = queue[b] /\ said'[b] = said[b]
                              /\ (b \in waived' <=> b \in waived),
         Touched(c, a)'
  PROVE  SerialInv'
<1>1. OnlyTouches(c, a)
  BY DEF OnlyTouches
<1>2. QED
  BY <1>1, TouchStep

LEMMA SerialCreateRow ==
  ASSUME ConstantsAssumption, TypeOK, SerialInv, NEW c \in Call, CreateRow(c)
  PROVE  SerialInv'
<1>1. PICK a \in App :
        /\ row[a].status = "absent"
        /\ row' = [row EXCEPT ![a] = [job |-> call[c].job, status |-> "waiting_human",
                                      reason |-> "none"]]
        /\ call' = [call EXCEPT ![c].pc = "invoke", ![c].app = a]
  BY DEF CreateRow
<1>2. call[c].pc = "create" /\ UNCHANGED <<queue, thread, mode, said, waived>>
  BY DEF CreateRow, conf, hist
<1>3. call[c].app = NoApp
  BY <1>2 DEF SerialInv, SerialCall
<1>4. \A d \in Call : call[d].app # a
  BY <1>1 DEF SerialInv, SerialCall, HandlerInv, ConstantsAssumption
<1>5. /\ call'[c].pc = "invoke" /\ call'[c].app = a
      /\ \A d \in Call \ {c} : call'[d] = call[d]
  BY <1>1 DEF TypeOK, Calls
<1>6. /\ row'[a].status = "waiting_human"
      /\ \A b \in App \ {a} : row'[b] = row[b]
  BY <1>1 DEF TypeOK
<1>7. AppInv(a) /\ thread[a].next = "absent"
  BY <1>1 DEF SerialInv, AppInv, Tables, Outcomes, Approved
<1>8. Touched(c, a)'
  <2>1. Gate(thread[a])' /\ Outcome(thread[a], said[a], a \in waived)'
    BY <1>2, <1>7 DEF AppInv, Gate, Outcome, ModeApproves
  <2>2. Tables(thread[a], row[a], queue[a], {"invoke"})'
    BY <1>2, <1>6, <1>7 DEF AppInv, Gate, Tables, Outcomes, Approved, ModeApproves
  <2>3. HandlerInv(call'[c], thread'[a], row'[a], said'[a])
    BY <1>2, <1>5, <1>6, <1>7 DEF HandlerInv
  <2>4. QED
    BY <2>1, <2>2, <2>3, <1>5 DEF Touched, SerialCall
<1>9. QED
  BY <1>2, <1>3, <1>4, <1>5, <1>6, <1>8, Moves

(* The operator opens a question no call is working on.                    *)
LEMMA SerialSend ==
  ASSUME ConstantsAssumption, Serial, TypeOK, SerialInv,
         NEW c \in Call, NEW a \in App, NEW p \in Payloads,
         NEW label \in {"lookup", "load"}, NEW view \in Nat,
         Send(c, a, p, label, view),
         thread[a].next # "absent",
         thread[a].next = "manual_approval" => p \in Decisions,
         p = "decline" => thread[a].next \in FromGate /\ ~ModeApproves(thread[a])
  PROVE  SerialInv'
<1>1. /\ call[c].pc = "idle"
      /\ \A d \in Call : call[d].app # a
      /\ call' = [call EXCEPT ![c].pc = label, ![c].app = a, ![c].pay = p, ![c].view = view]
      /\ said' = [said EXCEPT ![a] = @ \cup ({p} \cap Decisions)]
      /\ UNCHANGED <<row, queue, thread, mode, waived>>
  BY DEF Send, OperatorMayAnswer, InFlight, db, conf
<1>2. call[c].app = NoApp
  BY <1>1 DEF SerialInv, SerialCall
<1>3. /\ call'[c].pc = label /\ call'[c].app = a /\ call'[c].pay = p
      /\ \A d \in Call \ {c} : call'[d] = call[d]
  BY <1>1 DEF TypeOK, Calls
<1>4. /\ said'[a] = said[a] \cup ({p} \cap Decisions)
      /\ \A b \in App \ {a} : said'[b] = said[b]
  BY <1>1 DEF TypeOK
<1>5. AppInv(a) /\ PCs(a) = {}
  <2>1. {d \in Call : call[d].app = a} = {}
    BY <1>1
  <2>2. QED
    BY <2>1 DEF SerialInv, PCs
<1>6. Touched(c, a)'
  <2>1. Gate(thread[a])'
    BY <1>1, <1>5 DEF AppInv, Gate, ModeApproves
  <2>2. Outcome(thread[a], said[a], a \in waived)'
    BY <1>1, <1>4, <1>5 DEF AppInv, Outcome, ModeApproves, Decisions
  <2>3. Tables(thread[a], row[a], queue[a], {label})'
    BY <1>1, <1>5 DEF AppInv, Tables, ModeApproves
  <2>4. HandlerInv(call'[c], thread'[a], row'[a], said'[a])
    BY <1>1, <1>3, <1>4, <1>5 DEF HandlerInv, AppInv, Tables
  <2>5. QED
    BY <2>1, <2>2, <2>3, <2>4, <1>3 DEF Touched, SerialCall
<1>7. QED
  BY <1>1, <1>2, <1>3, <1>4, <1>6, Moves

LEMMA SerialAnswer ==
  ASSUME ConstantsAssumption, Serial, TypeOK, QueueMirrorsRow, SerialInv,
         NEW c \in Call, NEW a \in App, NEW p \in Payloads, Answer(c, a, p)
  PROVE  SerialInv'
<1>1. /\ queue[a].status = "pending" /\ p \in Reply[queue[a].reason]
      /\ Send(c, a, p, "lookup", queue[a].id)
      /\ queue[a].id \in Nat
  BY DEF Answer, TypeOK, QueueRecords
<1>2. AppInv(a) /\ PCs(a) = {}
  <2>1. {d \in Call : call[d].app = a} = {}
    BY <1>1 DEF Send, OperatorMayAnswer, InFlight
  <2>2. QED
    BY <2>1 DEF SerialInv, PCs
<1>3. p = "decline" => queue[a].reason = Asked
  <2>1. queue[a].reason # "none" /\ queue[a].reason \in Questions \cup {"none"}
    BY <1>1 DEF QueueMirrorsRow, TypeOK, QueueRecords
  <2>2. QED
    BY <1>1, <2>1 DEF Reply, Questions, Asked
<1>4. thread[a].next = "manual_approval" => p \in Decisions
  <2>1. thread[a].next = "manual_approval" => queue[a].reason = Asked
    BY <1>2 DEF AppInv, Gate, Tables
  <2>2. QED
    BY <2>1, <1>1 DEF Reply, Asked, Decisions
<1>5. QED
  BY <1>1, <1>2, <1>3, <1>4, SerialSend DEF AppInv, Tables

LEMMA SerialResumeDirect ==
  ASSUME ConstantsAssumption, Serial, TypeOK, SerialInv,
         NEW c \in Call, NEW a \in App, NEW p \in Payloads, ResumeDirect(c, a, p)
  PROVE  SerialInv'
<1>1. /\ thread[a].next # "absent"
      /\ \/ thread[a].waiting # "none" /\ p \in Reply[thread[a].waiting]
         \/ thread[a].waiting = "none" /\ p = "retry"
      /\ Send(c, a, p, "load", 0)
      /\ thread[a].waiting \in Questions \cup {"none"}
  BY DEF ResumeDirect, TypeOK, Checkpoints
<1>2. AppInv(a) /\ PCs(a) = {}
  <2>1. {d \in Call : call[d].app = a} = {}
    BY <1>1 DEF Send, OperatorMayAnswer, InFlight
  <2>2. QED
    BY <2>1 DEF SerialInv, PCs
<1>3. p = "decline" => thread[a].waiting = Asked
  BY <1>1 DEF Reply, Questions, Asked
<1>4. thread[a].next = "manual_approval" => p \in Decisions
  <2>1. thread[a].next = "manual_approval" => thread[a].waiting = Asked
    BY <1>2 DEF AppInv, Gate, Tables
  <2>2. QED
    BY <2>1, <1>1 DEF Reply, Asked, Decisions
<1>5. p = "decline" => thread[a].next \in FromGate /\ ~ModeApproves(thread[a])
  BY <1>2, <1>3 DEF AppInv, Gate, FromGate
<1>6. QED
  BY <1>1, <1>4, <1>5, SerialSend

(* What writing a checkpoint does to the call that writes it and, for a    *)
(* call that works alone, to the others.                                   *)
Written(c, a, m, label) ==
  /\ thread'[a] = m
  /\ \A b \in App \ {a} : thread'[b] = thread[b]
  /\ call'[c].pc = label /\ call'[c].app = a /\ call'[c].pay = "none"
  /\ call'[c].mem = m /\ call'[c].latest

OthersKept(c) ==
  \A d \in Call \ {c} :
    /\ call'[d].pc = call[d].pc /\ call'[d].app = call[d].app
    /\ call'[d].pay = call[d].pay /\ call'[d].mem = call[d].mem
    /\ call[d].latest => call'[d].latest

LEMMA WriteFacts ==
  ASSUME TypeOK, NEW c \in Call, NEW a \in App, a = call[c].app,
         \A d \in Call \ {c} : call[d].app # a,
         NEW m, NEW label, WriteCheckpoint(c, m, label)
  PROVE  Written(c, a, m, label) /\ OthersKept(c)
<1>1. thread' = [thread EXCEPT ![a] = m] /\ thread \in [App -> Checkpoints]
  BY DEF WriteCheckpoint, TypeOK
<1>2. call'[c] = [call[c] EXCEPT !.pc = label, !.pay = "none", !.mem = m, !.latest = TRUE]
  BY DEF WriteCheckpoint
<1>3. call[c] \in Calls
  BY DEF TypeOK
<1>4. Written(c, a, m, label)
  <2>1. thread'[a] = m /\ \A b \in App \ {a} : thread'[b] = thread[b]
    BY <1>1
  <2>2. /\ call'[c].pc = label /\ call'[c].app = a /\ call'[c].pay = "none"
        /\ call'[c].mem = m
    BY <1>2, <1>3 DEF Calls
  <2>3. call'[c].latest
    BY <1>2, <1>3 DEF Calls
  <2>4. QED
    BY <2>1, <2>2, <2>3 DEF Written
<1>5. ASSUME NEW d \in Call \ {c}
      PROVE  /\ call'[d].pc = call[d].pc /\ call'[d].app = call[d].app
             /\ call'[d].pay = call[d].pay /\ call'[d].mem = call[d].mem
             /\ call[d].latest => call'[d].latest
  <2>1. call'[d] = [call[d] EXCEPT !.latest = @ /\ call[d].app # a]
    BY DEF WriteCheckpoint
  <2>2. call[d] \in Calls /\ call[d].app # a
    BY DEF TypeOK
  <2>3. /\ call'[d].pc = call[d].pc /\ call'[d].app = call[d].app
        /\ call'[d].pay = call[d].pay /\ call'[d].mem = call[d].mem
    BY <2>1, <2>2 DEF Calls
  <2>4. call[d].latest => call'[d].latest
    BY <2>1, <2>2 DEF Calls
  <2>5. QED
    BY <2>3, <2>4
<1>6. QED
  BY <1>4, <1>5 DEF OthersKept

LEMMA SerialInvoke ==
  ASSUME ConstantsAssumption, TypeOK, SerialInv, NEW c \in Call, Invoke(c)
  PROVE  SerialInv'
<1>1. PICK list \in PageLists, unknown \in BOOLEAN, strong \in BOOLEAN :
        WriteCheckpoint(c, [NoCheckpoint EXCEPT !.next = "detect_and_map_fields",
                              !.pages = list, !.form_unknown = unknown, !.strong = strong],
                        "run")
  BY DEF Invoke
<1>2. PICK m : m = [NoCheckpoint EXCEPT !.next = "detect_and_map_fields",
                      !.pages = list, !.form_unknown = unknown, !.strong = strong]
  OBVIOUS
<1>3. m.next = "detect_and_map_fields" /\ m.waiting = "none"
  BY <1>2 DEF NoCheckpoint
<1>4. call[c].pc = "invoke" /\ UNCHANGED <<row, queue, mode, said, waived>>
  BY DEF Invoke, db, conf, hist
<1>5. PICK a \in App : a = call[c].app
  BY <1>4, WorksAlone
<1>6. /\ \A d \in Call \ {c} : call[d].app # a
      /\ AppInv(a) /\ HandlerInv(call[c], thread[a], row[a], said[a])
      /\ thread[a].next = "absent"
  BY <1>4, <1>5, WorksAlone DEF HandlerInv
<1>7. WriteCheckpoint(c, m, "run")
  BY <1>1, <1>2
<1>8. Written(c, a, m, "run") /\ OthersKept(c)
  BY <1>5, <1>6, <1>7, WriteFacts
<1>9. OnlyTouches(c, a)
  BY <1>4, <1>5, <1>6, <1>8 DEF OnlyTouches, Written, OthersKept
<1>10. Touched(c, a)'
  <2>1. Gate(thread[a])' /\ Outcome(thread[a], said[a], a \in waived)'
    BY <1>3, <1>4, <1>6, <1>8 DEF Written, AppInv, Gate, Outcome, Asked, Decided, FromGate, ModeApproves
  <2>2. Tables(thread[a], row[a], queue[a], {"run"})'
    BY <1>3, <1>4, <1>6, <1>8 DEF Written, AppInv, Tables, HandlerInv
  <2>3. HandlerInv(call'[c], thread'[a], row'[a], said'[a])
    BY <1>3, <1>4, <1>6, <1>8 DEF Written, HandlerInv
  <2>4. QED
    BY <2>1, <2>2, <2>3, <1>8 DEF Written, Touched, SerialCall
<1>11. QED
  BY <1>9, <1>10, TouchStep

LEMMA SerialLookup ==
  ASSUME ConstantsAssumption, TypeOK, SerialInv, NEW c \in Call, Lookup(c)
  PROVE  SerialInv'
<1>1. call[c].pc = "lookup" /\ UNCHANGED <<row, queue, thread, mode, said, waived>>
  BY DEF Lookup, db, conf, hist
<1>2. PICK a \in App : a = call[c].app
  BY <1>1, WorksAlone
<1>3. /\ \A d \in Call \ {c} : call[d].app # a
      /\ PCs(a) = {"lookup"} /\ AppInv(a)
      /\ HandlerInv(call[c], thread[a], row[a], said[a])
  BY <1>1, <1>2, WorksAlone
<1>4. ASSUME NEW label \in {"load", "idle"} PROVE Tables(thread[a], row[a], queue[a], {label})'
                                                 /\ Tables(thread[a], row[a], queue[a], {})'
  BY <1>1, <1>3 DEF AppInv, Tables, ModeApproves, HandlerInv
<1>5. Gate(thread[a])' /\ Outcome(thread[a], said[a], a \in waived)'
  BY <1>1, <1>3 DEF AppInv, Gate, Outcome, ModeApproves
<1>6. CASE call' = [call EXCEPT ![c].pc = "load"]
  <2>1. /\ call'[c].pc = "load" /\ call'[c].app = a /\ call'[c].pay = call[c].pay
        /\ \A d \in Call \ {c} : call'[d] = call[d]
    BY <1>2, <1>6 DEF TypeOK, Calls
  <2>2. HandlerInv(call'[c], thread'[a], row'[a], said'[a])
    BY <1>1, <1>3, <2>1 DEF HandlerInv
  <2>3. Touched(c, a)'
    BY <1>4, <1>5, <2>1, <2>2 DEF Touched, SerialCall
  <2>4. QED
    BY <1>1, <1>2, <1>3, <2>1, <2>3, Moves
<1>7. CASE Return(c)
  <2>1. /\ call'[c].pc = "idle" /\ call'[c].app = NoApp
        /\ \A d \in Call \ {c} : call'[d] = call[d]
    BY <1>7 DEF Return, TypeOK, Idle
  <2>2. Touched(c, a)'
    BY <1>4, <1>5, <2>1 DEF Touched, SerialCall, ConstantsAssumption
  <2>3. QED
    BY <1>1, <1>2, <1>3, <2>1, <2>2, Moves
<1>8. QED
  BY <1>6, <1>7 DEF Lookup

LEMMA SerialLoad ==
  ASSUME ConstantsAssumption, TypeOK, SerialInv, NEW c \in Call, Load(c)
  PROVE  SerialInv'
<1>1. call[c].pc = "load" /\ UNCHANGED <<row, queue, thread, mode, said, waived>>
  BY DEF Load, db, conf, hist
<1>2. PICK a \in App : a = call[c].app
  BY <1>1, WorksAlone
<1>3. /\ \A d \in Call \ {c} : call[d].app # a
      /\ PCs(a) = {"load"} /\ AppInv(a)
      /\ HandlerInv(call[c], thread[a], row[a], said[a])
      /\ thread[a].next # "absent"
  BY <1>1, <1>2, WorksAlone DEF HandlerInv
<1>4. PICK label \in {"run", "persist"} :
        label = IF thread[a].next = "END" THEN "persist" ELSE "run"
  OBVIOUS
<1>5. call' = [call EXCEPT ![c].pc = label, ![c].mem = thread[a], ![c].latest = TRUE]
  BY <1>2, <1>3, <1>4 DEF Load
<1>6. /\ call'[c].pc = label /\ call'[c].app = a /\ call'[c].pay = call[c].pay
      /\ call'[c].mem = thread[a] /\ call'[c].latest
      /\ \A d \in Call \ {c} : call'[d] = call[d]
  BY <1>2, <1>5 DEF TypeOK, Calls
<1>7. Touched(c, a)'
  <2>1. Gate(thread[a])' /\ Outcome(thread[a], said[a], a \in waived)'
    BY <1>1, <1>3 DEF AppInv, Gate, Outcome, ModeApproves
  <2>2. Tables(thread[a], row[a], queue[a], {label})'
    BY <1>1, <1>3, <1>4 DEF AppInv, Tables, ModeApproves
  <2>3. HandlerInv(call'[c], thread'[a], row'[a], said'[a])
    BY <1>1, <1>3, <1>4, <1>6 DEF HandlerInv
  <2>4. QED
    BY <2>1, <2>2, <2>3, <1>6 DEF Touched, SerialCall
<1>8. QED
  BY <1>1, <1>2, <1>3, <1>6, <1>7, Moves

-----------------------------------------------------------------------------
(* The nodes.  A running call's memory is the checkpoint, and the latest.  *)
LEMMA RunsAlone ==
  ASSUME ConstantsAssumption, TypeOK, SerialInv, NEW c \in Call, call[c].pc = "run",
         NEW a \in App, a = call[c].app
  PROVE  /\ \A d \in Call \ {c} : call[d].app # a
         /\ AppInv(a) /\ PCs(a) = {"run"}
         /\ HandlerInv(call[c], thread[a], row[a], said[a])
         /\ call[c].mem = thread[a]
         /\ thread[a] \in Checkpoints
         /\ thread[a].next \in DOMAIN Successor
<1>1. /\ \A d \in Call \ {c} : call[d].app # a
      /\ AppInv(a) /\ PCs(a) = {"run"}
      /\ HandlerInv(call[c], thread[a], row[a], said[a])
  BY WorksAlone
<1>2. call[c].mem = thread[a] /\ thread[a].next \notin {"absent", "END"}
  BY <1>1 DEF HandlerInv
<1>3. thread[a] \in Checkpoints
  BY DEF TypeOK
<1>4. QED
  BY <1>1, <1>2, <1>3 DEF Checkpoints

(* A node that completes keeps what the mode looks at from the gate on.    *)
LEMMA SerialComplete ==
  ASSUME ConstantsAssumption, TypeOK, SerialInv, NEW c \in Call, call[c].pc = "run",
         NEW a \in App, a = call[c].app,
         NEW update \in Checkpoints, Complete(c, update),
         update.next = thread[a].next,
         thread[a].next \in FromGate => /\ update.strong = thread[a].strong
                                       /\ update.unresolved = thread[a].unresolved,
         \A b \in App \ {a} : b \in waived' <=> b \in waived,
         \A m \in Checkpoints :
           /\ m.next = Successor[thread[a].next]
           /\ m.strong = update.strong /\ m.unresolved = update.unresolved
           /\ m.approved = update.approved /\ m.status = update.status
           => Outcome(m, said[a], a \in waived')
  PROVE  SerialInv'
<1>1. /\ \A d \in Call \ {c} : call[d].app # a
      /\ AppInv(a) /\ PCs(a) = {"run"}
      /\ HandlerInv(call[c], thread[a], row[a], said[a])
      /\ thread[a] \in Checkpoints
      /\ thread[a].next \in DOMAIN Successor
  BY RunsAlone
<1>2. PICK m : m = [update EXCEPT !.next = Successor[update.next], !.answers = <<>>,
                                  !.waiting = "none"]
  OBVIOUS
<1>3. PICK label : label = IF Successor[update.next] = "END" THEN "persist" ELSE "run"
  OBVIOUS
<1>4. WriteCheckpoint(c, m, label) /\ UNCHANGED <<row, queue, mode, said>>
  BY <1>2, <1>3 DEF Complete, db, conf
<1>5. Successor[thread[a].next] \in DOMAIN Successor \cup {"END"}
  BY <1>1 DEF Successor
<1>6. /\ m.next = Successor[thread[a].next] /\ m.answers = <<>> /\ m.waiting = "none"
      /\ m.strong = update.strong /\ m.unresolved = update.unresolved
      /\ m.approved = update.approved /\ m.status = update.status
      /\ m \in Checkpoints
  <2>1. /\ m.next = Successor[thread[a].next] /\ m.answers = <<>> /\ m.waiting = "none"
        /\ m.approved = update.approved /\ m.status = update.status
    BY <1>2 DEF Checkpoints
  <2>2. m.strong = update.strong /\ m.unresolved = update.unresolved
    BY <1>2 DEF Checkpoints
  <2>3. m \in Checkpoints
    <3>1. PICK next \in DOMAIN Successor \cup {"absent", "END"} : next = Successor[update.next]
      BY <1>5
    <3>2. <<>> \in Seq(Payloads)
      OBVIOUS
    <3>3. [update EXCEPT !.next = next, !.answers = <<>>, !.waiting = "none"] \in Checkpoints
      BY <3>2 DEF Checkpoints
    <3>4. QED
      BY <1>2, <3>1, <3>3
  <2>4. QED
    BY <2>1, <2>2, <2>3
<1>7. Written(c, a, m, label) /\ OthersKept(c)
  BY <1>1, <1>4, WriteFacts
<1>8. OnlyTouches(c, a)
  BY <1>1, <1>4, <1>7 DEF OnlyTouches, Written, OthersKept
<1>9. Touched(c, a)'
  <2>1. Gate(thread[a])'
    BY <1>6, <1>7 DEF Gate, Written, Asked
  <2>2. Outcome(thread[a], said[a], a \in waived)'
    <3>1. Outcome(m, said[a], a \in waived')
      BY <1>6
    <3>2. QED
      BY <3>1, <1>4, <1>7 DEF Outcome, ModeApproves, Written
  <2>3. Tables(thread[a], row[a], queue[a], {label})'
    <3>1. thread'[a].next # "absent" /\ thread'[a].waiting = "none"
      BY <1>5, <1>6, <1>7 DEF Successor, Written
    <3>2. row[a].status \notin Outcomes /\ row[a].status # "absent"
      BY <1>1 DEF AppInv, Tables, HandlerInv, Successor
    <3>3. thread'[a].next = "END" => label = "persist"
      BY <1>3, <1>6, <1>7 DEF Written
    <3>4. queue[a].status = "pending" /\ queue[a].reason = Asked =>
            thread'[a].next \in FromGate /\ ~ModeApproves(thread[a])'
      <4>1. queue[a].status = "pending" /\ queue[a].reason = Asked =>
              thread[a].next \in FromGate /\ ~ModeApproves(thread[a])
        BY <1>1 DEF AppInv, Tables
      <4>2. thread[a].next \in FromGate => Successor[thread[a].next] \in FromGate
        BY <1>1 DEF FromGate, Decided, Successor
      <4>3. QED
        BY <4>1, <4>2, <1>4, <1>6, <1>7 DEF ModeApproves, HybridAutoApproves, Written
    <3>5. label \in {"run", "persist"}
      BY <1>3
    <3>6. QED
      BY <1>4, <3>1, <3>2, <3>3, <3>4, <3>5 DEF Tables
  <2>4. HandlerInv(call'[c], thread'[a], row'[a], said'[a])
    <3>1. row'[a].status # "absent"
      BY <1>1, <1>4 DEF HandlerInv
    <3>2. thread'[a].next # "absent" /\ label \in {"run", "persist"}
      BY <1>3, <1>5, <1>6, <1>7 DEF Successor, Written
    <3>3. label = "run" => thread'[a].next # "END"
      BY <1>3, <1>6, <1>7 DEF Written
    <3>4. label = "persist" => thread'[a].next = "END"
      BY <1>3, <1>6, <1>7 DEF Written
    <3>5. QED
      BY <1>7, <3>1, <3>2, <3>3, <3>4 DEF HandlerInv, Written
  <2>5. label \notin {"idle", "create"}
    BY <1>3
  <2>6. QED
    BY <2>1, <2>2, <2>3, <2>4, <2>5, <1>7 DEF Touched, SerialCall, Written
<1>10. QED
  BY <1>8, <1>9, TouchStep

(* A node that pauses does so at a question of its own.                    *)
LEMMA SerialPause ==
  ASSUME ConstantsAssumption, TypeOK, SerialInv, NEW c \in Call, call[c].pc = "run",
         NEW a \in App, a = call[c].app,
         NEW list \in Seq(PageKinds \cup Questions), Pause(c, list),
         thread[a].next \notin Decided,
         thread[a].next # "manual_approval" => \A k \in DOMAIN list : list[k] # Asked,
         thread[a].next = "manual_approval" =>
           /\ ~ModeApproves(thread[a])
           /\ \A k \in DOMAIN list : list[k] = Asked
           /\ Pause(c, list) => Answers(c) = <<>>
  PROVE  SerialInv'
<1>1. /\ \A d \in Call \ {c} : call[d].app # a
      /\ AppInv(a) /\ PCs(a) = {"run"}
      /\ HandlerInv(call[c], thread[a], row[a], said[a])
      /\ call[c].mem = thread[a]
      /\ thread[a] \in Checkpoints
      /\ thread[a].next \in DOMAIN Successor
      /\ call[c].latest
  BY RunsAlone DEF HandlerInv
<1>2. PICK k \in DOMAIN list :
        /\ list[k] # "unrecognized"
        /\ LET m == [call[c].mem EXCEPT !.answers = Answers(c), !.waiting = list[k]]
           IN /\ call' = [call EXCEPT ![c].pc = "persist", ![c].pay = "none", ![c].mem = m]
              /\ thread' = IF call[c].latest THEN [thread EXCEPT ![call[c].app] = m]
                                             ELSE thread
  BY DEF Pause
<1>3. PICK m : m = [call[c].mem EXCEPT !.answers = Answers(c), !.waiting = list[k]]
  OBVIOUS
<1>4. /\ m.next = thread[a].next /\ m.answers = Answers(c) /\ m.waiting = list[k]
      /\ m.strong = thread[a].strong /\ m.unresolved = thread[a].unresolved
      /\ m.approved = thread[a].approved /\ m.status = thread[a].status
  BY <1>1, <1>3 DEF Checkpoints
<1>5. list[k] # "none" /\ (list[k] = Asked <=> thread[a].next = "manual_approval")
  BY DEF PageKinds, Questions
<1>6. /\ call'[c].pc = "persist" /\ call'[c].app = a /\ call'[c].pay = "none"
      /\ call'[c].mem = m
      /\ \A d \in Call \ {c} : call'[d] = call[d]
  BY <1>2, <1>3 DEF TypeOK, Calls
<1>7. thread'[a] = m /\ \A b \in App \ {a} : thread'[b] = thread[b]
  BY <1>1, <1>2, <1>3 DEF TypeOK
<1>8. UNCHANGED <<row, queue, mode, said, waived>>
  BY DEF Pause, db, conf, hist
<1>9. ModeApproves(m) <=> ModeApproves(thread[a])
  BY <1>4 DEF ModeApproves, HybridAutoApproves
<1>10. Touched(c, a)'
  <2>1. ModeApproves(m)' <=> ModeApproves(m)
    BY <1>8 DEF ModeApproves
  <2>2. Gate(m)'
    BY <1>1, <1>4, <1>5, <1>9, <2>1 DEF Gate, Decided, Successor
  <2>3. Outcome(m, said[a], a \in waived)'
    BY <1>1, <1>4, <1>8, <1>9, <2>1 DEF AppInv, Outcome
  <2>4. Tables(m, row[a], queue[a], {"persist"})'
    BY <1>1, <1>4, <1>8, <1>9, <2>1 DEF AppInv, Tables
  <2>5. HandlerInv(call'[c], thread'[a], row'[a], said'[a])
    BY <1>1, <1>4, <1>5, <1>6, <1>7, <1>8 DEF HandlerInv
  <2>6. QED
    BY <2>2, <2>3, <2>4, <2>5, <1>6, <1>7 DEF Touched, SerialCall, Gate, Outcome, Tables,
       ModeApproves
<1>11. QED
  BY <1>1, <1>6, <1>7, <1>8, <1>10, Moves

-----------------------------------------------------------------------------
(* What a node does with the checkpoint of its application.                *)
LEMMA SerialDetectAndMapFields ==
  ASSUME ConstantsAssumption, TypeOK, SerialInv, NEW c \in Call, DetectAndMapFields(c)
  PROVE  SerialInv'
<1>1. call[c].pc = "run" /\ call[c].mem.next = "detect_and_map_fields"
  BY DEF DetectAndMapFields, At
<1>2. PICK a \in App : a = call[c].app
  BY <1>1, WorksAlone
<1>3. /\ AppInv(a) /\ call[c].mem = thread[a] /\ thread[a] \in Checkpoints
      /\ thread[a].next = "detect_and_map_fields"
  BY <1>1, <1>2, RunsAlone
<1>4. PICK unknown \in FormUnknown(call[c].mem) :
        \/ Pause(c, UnknownFields(unknown))
        \/ /\ Complete(c, [call[c].mem EXCEPT !.unresolved =
                              unknown /\ Answers(c)[1] # "fields"])
           /\ UNCHANGED waived
  BY DEF DetectAndMapFields
<1>5. CASE Pause(c, UnknownFields(unknown))
  <2>1. /\ UnknownFields(unknown) \in Seq(PageKinds \cup Questions)
        /\ \A k \in DOMAIN UnknownFields(unknown) : UnknownFields(unknown)[k] # Asked
    <3>1. PICK q \in Questions : q = "UNKNOWN_REQUIRED_FIELD" /\ q # Asked
      BY DEF Questions, Asked
    <3>2. UnknownFields(unknown) = IF unknown THEN <<q>> ELSE <<>>
      BY <3>1 DEF UnknownFields
    <3>3. q \in PageKinds \cup Questions
      OBVIOUS
    <3>4. CASE unknown
      BY <3>1, <3>2, <3>3, <3>4
    <3>5. CASE ~unknown
      BY <3>2, <3>5
    <3>6. QED
      BY <3>4, <3>5
  <2>2. thread[a].next \notin FromGate
    BY <1>3 DEF FromGate, Decided
  <2>3. QED
    BY <1>1, <1>2, <1>5, <2>1, <2>2, SerialPause DEF FromGate
<1>6. CASE /\ Complete(c, [call[c].mem EXCEPT !.unresolved =
                              unknown /\ Answers(c)[1] # "fields"])
           /\ UNCHANGED waived
  <2>1. PICK left \in BOOLEAN : left = (unknown /\ Answers(c)[1] # "fields")
    OBVIOUS
  <2>2. PICK update : update = [thread[a] EXCEPT !.unresolved = left]
    OBVIOUS
  <2>3. update \in Checkpoints /\ update.next = thread[a].next
    BY <1>3, <2>2 DEF Checkpoints
  <2>4. Complete(c, update)
    BY <1>3, <1>6, <2>1, <2>2
  <2>5. thread[a].next \notin FromGate /\ Successor[thread[a].next] = "fill_and_validate"
    BY <1>3 DEF FromGate, Decided, Successor
  <2>6. ASSUME NEW m, m.next = Successor[thread[a].next]
        PROVE  Outcome(m, said[a], a \in waived')
    BY <1>3, <1>6, <2>5, <2>6 DEF AppInv, Outcome, FromGate, Decided
  <2>7. \A b \in App \ {a} : b \in waived' <=> b \in waived
    BY <1>6
  <2>8. QED
    BY <1>1, <1>2, <2>3, <2>4, <2>5, <2>6, <2>7, SerialComplete
<1>7. QED
  BY <1>4, <1>5, <1>6

(* A node whose update is empty, before the gate.                          *)
LEMMA SerialPassesOn ==
  ASSUME ConstantsAssumption, TypeOK, SerialInv, NEW c \in Call,
         call[c].pc = "run", call[c].mem.next \in {"fill_and_validate", "check_challenges"},
         Complete(c, call[c].mem), UNCHANGED waived
  PROVE  SerialInv'
<1>1. PICK a \in App : a = call[c].app
  BY WorksAlone
<1>2. /\ AppInv(a) /\ call[c].mem = thread[a] /\ thread[a] \in Checkpoints
  BY <1>1, RunsAlone
<1>3. thread[a].next \notin FromGate /\ Successor[thread[a].next] \notin Decided
  BY <1>2 DEF FromGate, Decided, Successor
<1>4. ASSUME NEW m, m.next = Successor[thread[a].next]
      PROVE  Outcome(m, said[a], a \in waived')
  BY <1>2, <1>3, <1>4 DEF AppInv, Outcome, FromGate, Decided
<1>5. \A b \in App \ {a} : b \in waived' <=> b \in waived
  OBVIOUS
<1>6. QED
  BY <1>1, <1>2, <1>3, <1>4, <1>5, SerialComplete

LEMMA SerialCheckChallenges ==
  ASSUME ConstantsAssumption, TypeOK, SerialInv, NEW c \in Call, CheckChallenges(c)
  PROVE  SerialInv'
<1>1. call[c].pc = "run" /\ call[c].mem.next = "check_challenges"
  BY DEF CheckChallenges, At
<1>2. PICK a \in App : a = call[c].app
  BY <1>1, WorksAlone
<1>3. /\ call[c].mem = thread[a] /\ thread[a] \in Checkpoints
      /\ thread[a].next = "check_challenges"
  BY <1>1, <1>2, RunsAlone
<1>4. PICK shown \in Shown(call[c].mem) :
        \/ Pause(c, shown)
        \/ Complete(c, call[c].mem) /\ UNCHANGED waived
  BY DEF CheckChallenges
<1>5. CASE Pause(c, shown)
  <2>1. shown \in Seq(PageKinds)
    BY <1>3 DEF Shown, Checkpoints
  <2>2. /\ shown \in Seq(PageKinds \cup Questions)
        /\ \A k \in DOMAIN shown : shown[k] # Asked
    BY <2>1 DEF PageKinds, Asked
  <2>3. thread[a].next \notin FromGate
    BY <1>3 DEF FromGate, Decided
  <2>4. QED
    BY <1>1, <1>2, <1>5, <2>2, <2>3, SerialPause DEF FromGate
<1>6. CASE Complete(c, call[c].mem) /\ UNCHANGED waived
  BY <1>1, <1>6, SerialPassesOn
<1>7. QED
  BY <1>4, <1>5, <1>6

(* Before the question of the gate nothing is asked; it is the only one.   *)
LEMMA GateQuestions ==
  /\ AskedBefore(ApprovalQuestion, 1) = 0
  /\ AskedBefore(ApprovalQuestion, 2) = 1
<1>1. {i \in 1 .. 1 - 1 : ApprovalQuestion[i] # "unrecognized"} = {}
  OBVIOUS
<1>2. {i \in 1 .. 2 - 1 : ApprovalQuestion[i] # "unrecognized"} = {1}
  BY DEF ApprovalQuestion
<1>3. QED
  BY <1>1, <1>2, FS_EmptySet, FS_Singleton DEF AskedBefore

LEMMA SerialManualApproval ==
  ASSUME ConstantsAssumption, TypeOK, SerialInv, NEW c \in Call, ManualApproval(c)
  PROVE  SerialInv'
<1>1. call[c].pc = "run" /\ call[c].mem.next = "manual_approval"
  BY DEF ManualApproval, At
<1>2. PICK a \in App : a = call[c].app
  BY <1>1, WorksAlone
<1>3. /\ AppInv(a) /\ HandlerInv(call[c], thread[a], row[a], said[a])
      /\ call[c].mem = thread[a] /\ thread[a] \in Checkpoints
      /\ thread[a].next = "manual_approval"
  BY <1>1, <1>2, RunsAlone
<1>4. /\ thread[a].answers = <<>>
      /\ "decline" \in said[a] => ~ModeApproves(thread[a])
      /\ a \notin waived
  BY <1>3 DEF AppInv, Gate, Outcome, Decided
<1>5. Successor[thread[a].next] = "finalize_application"
  BY <1>3 DEF Successor
<1>6. /\ call[c].pay = "none" => Answers(c) = <<>>
      /\ call[c].pay # "none" => /\ Answers(c) = <<call[c].pay>>
                                /\ call[c].pay \in Decisions /\ call[c].pay \in said[a]
  BY <1>3, <1>4 DEF Answers, HandlerInv
<1>7. CASE /\ ModeApproves(call[c].mem)
           /\ Complete(c, [call[c].mem EXCEPT !.approved = TRUE])
           /\ waived' = waived \cup {call[c].app}
  <2>1. PICK update : update = [thread[a] EXCEPT !.approved = TRUE]
    OBVIOUS
  <2>2. /\ update.next = thread[a].next /\ update.strong = thread[a].strong
        /\ update.unresolved = thread[a].unresolved
    BY <1>3, <2>1 DEF Checkpoints
  <2>3. update \in Checkpoints /\ update.approved
    BY <1>3, <2>1 DEF Checkpoints
  <2>4. ASSUME NEW m \in Checkpoints, m.next = Successor[thread[a].next],
               m.strong = update.strong, m.unresolved = update.unresolved,
               m.approved = update.approved
        PROVE  Outcome(m, said[a], a \in waived')
    <3>1. ModeApproves(m) /\ ModeApproves(thread[a])
      BY <1>3, <1>7, <2>2, <2>4 DEF ModeApproves, HybridAutoApproves
    <3>2. m.next = "finalize_application" /\ m.approved
      BY <1>5, <2>3, <2>4
    <3>3. QED
      BY <1>4, <3>1, <3>2 DEF Outcome, Decided
  <2>5. \A b \in App \ {a} : b \in waived' <=> b \in waived
    BY <1>2, <1>7
  <2>6. Complete(c, update)
    BY <1>3, <1>7, <2>1
  <2>7. QED
    BY <1>1, <1>2, <2>2, <2>3, <2>4, <2>5, <2>6, SerialComplete
<1>8. CASE ~ModeApproves(call[c].mem) /\ Pause(c, ApprovalQuestion)
  <2>1. /\ ApprovalQuestion \in Seq(PageKinds \cup Questions)
        /\ \A k \in DOMAIN ApprovalQuestion : ApprovalQuestion[k] = Asked /\ k = 1
    BY DEF ApprovalQuestion, Questions, Asked
  <2>2. Answers(c) = <<>>
    <3>1. Len(Answers(c)) = 0
      BY <1>8, <2>1, GateQuestions DEF Pause
    <3>2. QED
      BY <1>6, <3>1
  <2>3. thread[a].next \notin Decided
    BY <1>3 DEF Decided
  <2>4. QED
    BY <1>1, <1>2, <1>3, <1>8, <2>1, <2>2, <2>3, SerialPause
<1>9. CASE /\ ~ModeApproves(call[c].mem) /\ Answered(c, ApprovalQuestion)
           /\ Complete(c, [call[c].mem EXCEPT !.approved = Answers(c)[1] = "approve"])
           /\ UNCHANGED waived
  <2>1. Len(ApprovalQuestion) = 1
    BY DEF ApprovalQuestion
  <2>2. Len(Answers(c)) >= 1
    BY <1>9, <2>1, GateQuestions DEF Answered
  <2>3. call[c].pay # "none" /\ Answers(c)[1] = call[c].pay
    BY <1>6, <2>2
  <2>4. PICK yes \in BOOLEAN : yes = (Answers(c)[1] = "approve")
    OBVIOUS
  <2>5. PICK update : update = [thread[a] EXCEPT !.approved = yes]
    OBVIOUS
  <2>6. /\ update.next = thread[a].next /\ update.strong = thread[a].strong
        /\ update.unresolved = thread[a].unresolved
    BY <1>3, <2>5 DEF Checkpoints
  <2>7. update \in Checkpoints /\ (update.approved <=> yes)
    BY <1>3, <2>5 DEF Checkpoints
  <2>8. ~update.approved => "decline" \in said[a]
    BY <1>6, <2>3, <2>4, <2>7 DEF Decisions
  <2>9. ASSUME NEW m \in Checkpoints, m.next = Successor[thread[a].next],
               m.strong = update.strong, m.unresolved = update.unresolved,
               m.approved = update.approved
        PROVE  Outcome(m, said[a], a \in waived')
    <3>1. ~ModeApproves(m)
      BY <1>3, <1>9, <2>6, <2>9 DEF ModeApproves, HybridAutoApproves
    <3>2. m.next = "finalize_application" /\ (~m.approved => "decline" \in said[a])
      BY <1>5, <2>8, <2>9
    <3>3. QED
      BY <1>4, <1>9, <3>1, <3>2 DEF Outcome, FromGate, Decided
  <2>10. Complete(c, update)
    BY <1>3, <1>9, <2>4, <2>5
  <2>11. \A b \in App \ {a} : b \in waived' <=> b \in waived
    BY <1>9
  <2>12. QED
    BY <1>1, <1>2, <2>6, <2>7, <2>9, <2>10, <2>11, SerialComplete
<1>10. QED
  BY <1>7, <1>8, <1>9 DEF ManualApproval

LEMMA SerialFinalizeApplication ==
  ASSUME ConstantsAssumption, TypeOK, SerialInv, NEW c \in Call, FinalizeApplication(c)
  PROVE  SerialInv'
<1>1. call[c].pc = "run" /\ call[c].mem.next = "finalize_application"
  BY DEF FinalizeApplication, At
<1>2. PICK a \in App : a = call[c].app
  BY <1>1, WorksAlone
<1>3. /\ AppInv(a) /\ call[c].mem = thread[a] /\ thread[a] \in Checkpoints
      /\ thread[a].next = "finalize_application"
  BY <1>1, <1>2, RunsAlone
<1>4. Successor[thread[a].next] = "END"
  BY <1>3 DEF Successor
<1>5. PICK status : status = FinalStatus(thread[a])
  OBVIOUS
<1>6. status \in Outcomes /\ (status = "rejected_by_human" => ~thread[a].approved)
  BY <1>5 DEF FinalStatus, Outcomes, Approved
<1>7. PICK update : update = [thread[a] EXCEPT !.status = status]
  OBVIOUS
<1>8. /\ update.next = thread[a].next /\ update.strong = thread[a].strong
      /\ update.unresolved = thread[a].unresolved /\ update.approved = thread[a].approved
      /\ update.status = status /\ update \in Checkpoints
  <2>1. update.next = thread[a].next /\ update.status = status
    BY <1>3, <1>7 DEF Checkpoints
  <2>2. /\ update.strong = thread[a].strong /\ update.unresolved = thread[a].unresolved
        /\ update.approved = thread[a].approved
    BY <1>3, <1>7 DEF Checkpoints
  <2>3. update \in Checkpoints
    BY <1>3, <1>6, <1>7 DEF Checkpoints
  <2>4. QED
    BY <2>1, <2>2, <2>3
<1>9. Complete(c, update) /\ UNCHANGED waived
  BY <1>3, <1>5, <1>7 DEF FinalizeApplication
<1>10. ASSUME NEW m \in Checkpoints, m.next = "END", m.status = status,
              m.strong = update.strong, m.unresolved = update.unresolved,
              m.approved = update.approved
       PROVE  Outcome(m, said[a], a \in waived')
  <2>1. ModeApproves(m) <=> ModeApproves(thread[a])
    BY <1>8, <1>10 DEF ModeApproves, HybridAutoApproves
  <2>2. Outcome(thread[a], said[a], a \in waived) /\ thread[a].next \in Decided
    BY <1>3 DEF AppInv, Decided
  <2>3. m.next \in Decided /\ m.next \in FromGate
    BY <1>10 DEF Decided, FromGate
  <2>4. m.approved <=> thread[a].approved
    BY <1>8, <1>10
  <2>5. QED
    BY <1>6, <1>9, <1>10, <2>1, <2>2, <2>3, <2>4 DEF Outcome
<1>11. \A b \in App \ {a} : b \in waived' <=> b \in waived
  BY <1>9
<1>12. QED
  BY <1>1, <1>2, <1>4, <1>8, <1>9, <1>10, <1>11, SerialComplete

(* A request that returns early or fails leaves the application as it was, *)
(* but for answers recorded on the way.                                    *)
LEMMA SerialBrowserFails ==
  ASSUME ConstantsAssumption, TypeOK, SerialInv, NEW c \in Call, BrowserFails(c)
  PROVE  SerialInv'
<1>1. /\ call[c].pc = "run"
      /\ call[c].mem.next \in {"detect_and_map_fields", "fill_and_validate",
                               "check_challenges"}
      /\ Return(c)
      /\ UNCHANGED <<row, queue, mode, said, waived>>
  BY DEF BrowserFails, At, db, conf, hist
<1>2. PICK a \in App : a = call[c].app
  BY <1>1, WorksAlone
<1>3. /\ \A d \in Call \ {c} : call[d].app # a
      /\ AppInv(a) /\ PCs(a) = {"run"}
      /\ HandlerInv(call[c], thread[a], row[a], said[a])
      /\ call[c].mem = thread[a] /\ thread[a] \in Checkpoints
  BY <1>1, <1>2, RunsAlone
<1>4. \/ thread' = thread
      \/ thread' = [thread EXCEPT ![a].answers = Answers(c)]
  BY <1>2 DEF BrowserFails
<1>5. /\ \A b \in App \ {a} : thread'[b] = thread[b]
      /\ thread'[a].next = thread[a].next /\ thread'[a].waiting = thread[a].waiting
      /\ thread'[a].approved = thread[a].approved /\ thread'[a].status = thread[a].status
  BY <1>3, <1>4 DEF TypeOK, Checkpoints
<1>6. ModeApproves(thread[a])' <=> ModeApproves(thread[a])
  <2>1. /\ thread'[a].strong = thread[a].strong
        /\ thread'[a].unresolved = thread[a].unresolved
    BY <1>3, <1>4 DEF TypeOK, Checkpoints
  <2>2. QED
    BY <1>1, <2>1 DEF ModeApproves, HybridAutoApproves
<1>7. /\ call'[c].pc = "idle" /\ call'[c].app = NoApp
      /\ \A d \in Call \ {c} : call'[d] = call[d]
  BY <1>1 DEF Return, TypeOK, Idle
<1>8. Touched(c, a)'
  <2>1. Gate(thread[a])'
    BY <1>1, <1>3, <1>5, <1>6 DEF AppInv, Gate
  <2>2. Outcome(thread[a], said[a], a \in waived)'
    BY <1>1, <1>3, <1>5, <1>6 DEF AppInv, Outcome
  <2>3. Tables(thread[a], row[a], queue[a], {})'
    BY <1>1, <1>3, <1>5, <1>6 DEF AppInv, Tables
  <2>4. SerialCall(c)'
    BY <1>7 DEF SerialCall
  <2>5. call'[c].app # a
    BY <1>7 DEF ConstantsAssumption
  <2>6. QED
    BY <2>1, <2>2, <2>3, <2>4, <2>5 DEF Touched
<1>9. QED
  BY <1>1, <1>2, <1>3, <1>5, <1>7, <1>8, Moves

LEMMA SerialPersistResult ==
  ASSUME ConstantsAssumption, TypeOK, SerialInv, NEW c \in Call, PersistResult(c)
  PROVE  SerialInv'
<1>1. /\ call[c].pc = "persist" /\ Return(c)
      /\ UNCHANGED <<thread, mode, said, waived>>
  BY DEF PersistResult, RowStatus, conf, hist
<1>2. PICK a \in App : a = call[c].app
  BY <1>1, WorksAlone
<1>3. /\ \A d \in Call \ {c} : call[d].app # a
      /\ AppInv(a) /\ PCs(a) = {"persist"}
      /\ call[c].mem = thread[a]
      /\ row[a].status # "absent" /\ thread[a].next # "absent"
      /\ thread[a].waiting # "none" \/ thread[a].next = "END"
  BY <1>1, <1>2, WorksAlone DEF HandlerInv
<1>4. /\ call'[c].pc = "idle" /\ call'[c].app = NoApp
      /\ \A d \in Call \ {c} : call'[d] = call[d]
  BY <1>1 DEF Return, TypeOK, Idle
<1>5. call'[c].app # a /\ SerialCall(c)'
  BY <1>4 DEF SerialCall, ConstantsAssumption
<1>6. Gate(thread[a])' /\ Outcome(thread[a], said[a], a \in waived)'
  BY <1>1, <1>3 DEF AppInv, Gate, Outcome, ModeApproves
<1>7. \A b \in App \ {a} : row'[b] = row[b] /\ queue'[b] = queue[b]
  BY <1>2 DEF PersistResult, TypeOK
<1>8. Tables(thread[a], row[a], queue[a], {})'
  <2>1. CASE thread[a].waiting # "none"
    <3>1. /\ row' = [row EXCEPT ![a].status = "waiting_human", ![a].reason = thread[a].waiting]
          /\ queue' = [queue EXCEPT ![a] = Pending(@, thread[a].waiting)]
      BY <1>2, <1>3, <2>1 DEF PersistResult
    <3>2. /\ row'[a].status = "waiting_human"
          /\ queue'[a].status = "pending" /\ queue'[a].reason = thread[a].waiting
      BY <3>1 DEF TypeOK, Rows, Pending
    <3>3. thread[a].next \notin Decided
      BY <1>3, <2>1 DEF AppInv, Gate
    <3>4. QED
      BY <1>1, <1>3, <2>1, <3>2, <3>3 DEF AppInv, Gate, Tables, Decided, FromGate, Outcomes,
         Approved, ModeApproves
  <2>2. CASE thread[a].waiting = "none"
    <3>1. /\ row' = [row EXCEPT ![a].status = RowStatus(thread[a]), ![a].reason = "none"]
          /\ queue' = [queue EXCEPT ![a] = Resolved(@)]
      BY <1>2, <1>3, <2>2 DEF PersistResult
    <3>2. thread[a].next = "END" /\ thread[a].status \in Outcomes
      BY <1>3, <2>2 DEF AppInv, Outcome
    <3>3. row'[a].status = thread[a].status
      BY <3>1, <3>2 DEF TypeOK, Rows, RowStatus, Outcomes, Approved
    <3>4. queue'[a].status # "pending"
      BY <3>1 DEF TypeOK, QueueRecords, Resolved
    <3>5. QED
      BY <1>1, <2>2, <3>2, <3>3, <3>4 DEF Tables, Outcomes, Approved
  <2>3. QED
    BY <2>1, <2>2
<1>9. Touched(c, a)'
  BY <1>5, <1>6, <1>8 DEF Touched
<1>10. QED
  BY <1>1, <1>2, <1>3, <1>4, <1>7, <1>9, Moves

-----------------------------------------------------------------------------
(* The process lives and nobody edits the mode while applications run.     *)
Steady == Serial /\ "crash" \notin Faults /\ "config" \notin Faults

LEMMA SerialStep ==
  Steady /\ TypeOK /\ QueueMirrorsRow /\ SerialInv /\ [Next]_vars => SerialInv'
<1> SUFFICES ASSUME Steady, TypeOK, QueueMirrorsRow, SerialInv, [Next]_vars
             PROVE  SerialInv'
  OBVIOUS
<1> USE ConstantsAssumption
<1>1. ASSUME NEW c \in Call, NEW j \in Job, CheckDuplicate(c, j) PROVE SerialInv'
  BY <1>1, SerialCheckDuplicate
<1>2. ASSUME NEW c \in Call, NEW a \in App, NEW p \in Payloads, Answer(c, a, p)
      PROVE  SerialInv'
  BY <1>2, SerialAnswer DEF Steady
<1>3. ASSUME NEW c \in Call, NEW a \in App, NEW p \in Payloads, ResumeDirect(c, a, p)
      PROVE  SerialInv'
  BY <1>3, SerialResumeDirect DEF Steady
<1>4. ASSUME NEW c \in Call, RunNode(c) PROVE SerialInv'
  <2>1. CASE DetectAndMapFields(c)
    BY <2>1, SerialDetectAndMapFields
  <2>2. CASE FillAndValidate(c)
    BY <2>2, SerialPassesOn DEF FillAndValidate, At
  <2>3. CASE CheckChallenges(c)
    BY <2>3, SerialCheckChallenges
  <2>4. CASE ManualApproval(c)
    BY <2>4, SerialManualApproval
  <2>5. CASE FinalizeApplication(c)
    BY <2>5, SerialFinalizeApplication
  <2>6. QED
    BY <1>4, <2>1, <2>2, <2>3, <2>4, <2>5 DEF RunNode
<1>5. ASSUME NEW c \in Call, Proceed(c) PROVE SerialInv'
  BY <1>4, <1>5, SerialCreateRow, SerialInvoke, SerialLookup, SerialLoad,
     SerialPersistResult DEF Proceed
<1>6. ASSUME NEW c \in Call, BrowserFails(c) PROVE SerialInv'
  BY <1>6, SerialBrowserFails
<1>7. ~Crash /\ ~EditMode
  BY DEF Crash, EditMode, Steady
<1>8. CASE UNCHANGED vars
  BY <1>8, SerialQuiet DEF vars
<1>9. QED
  BY <1>1, <1>2, <1>3, <1>5, <1>6, <1>7, <1>8 DEF Next

THEOREM SerialIsInvariant == ASSUME Steady PROVE Spec => []SerialInv
<1>1. TypeOK /\ QueueMirrorsRow /\ SerialInv /\ [Next]_vars => SerialInv'
  BY SerialStep
<1>2. QED
  BY <1>1, InitIsSerial, TypeCorrect, QueueMirrorsRowHolds, PTL DEF Spec

(* README:435-446, with an operator who waits: an application ends as      *)
(* rejected_by_human only if it was declined.                              *)
THEOREM RejectedMeansDeclinedHolds == ASSUME Steady PROVE Spec => []RejectedMeansDeclined
<1>1. SerialInv => RejectedMeansDeclined
  <2> SUFFICES ASSUME SerialInv, NEW a \in App, row[a].status = "rejected_by_human"
               PROVE  "decline" \in said[a]
    BY DEF RejectedMeansDeclined
  <2>1. AppInv(a) /\ row[a].status \in Outcomes
    BY DEF SerialInv, Outcomes
  <2>2. thread[a].next = "END" /\ thread[a].status = "rejected_by_human"
    BY <2>1 DEF AppInv, Tables
  <2>3. QED
    BY <2>1, <2>2 DEF AppInv, Outcome, Decided
<1>2. QED
  BY <1>1, SerialIsInvariant, PTL

(* And the other direction: an application the operator declined and never *)
(* approved does not go through, whether or not the mode might have waived *)
(* the question.                                                           *)
THEOREM DeclineHonouredHolds == ASSUME Steady PROVE Spec => []DeclineHonoured
<1>1. SerialInv /\ NoSubmitWithoutConsent => DeclineHonoured
  <2> SUFFICES ASSUME SerialInv, NoSubmitWithoutConsent, NEW a \in App,
                      row[a].status \in Approved, "decline" \in said[a]
               PROVE  "approve" \in said[a]
    BY DEF DeclineHonoured
  <2>1. a \notin waived
    BY DEF SerialInv, AppInv, Outcome
  <2>2. QED
    BY <2>1 DEF NoSubmitWithoutConsent
<1>2. QED
  BY <1>1, SerialIsInvariant, NoSubmitWithoutConsentHolds, PTL

(* human_intervention.py:3: the question a checkpoint is paused at is in   *)
(* the queue once no call works on the application.                        *)
THEOREM InterruptsAreQueuedHolds == ASSUME Steady PROVE Spec => []InterruptsAreQueued
<1>1. SerialInv => InterruptsAreQueued
  <2> SUFFICES ASSUME SerialInv, NEW a \in App, thread[a].waiting # "none", ~InFlight(a)
               PROVE  queue[a].status = "pending" /\ queue[a].reason = thread[a].waiting
    BY DEF InterruptsAreQueued
  <2>1. AppInv(a) /\ PCs(a) = {}
    BY DEF SerialInv, InFlight, PCs
  <2>2. QED
    BY <2>1 DEF AppInv, Tables
<1>2. QED
  BY <1>1, SerialIsInvariant, PTL

(* A row at rest shows the outcome its graph recorded, and no other.       *)
THEOREM RowFollowsGraphHolds == ASSUME Steady PROVE Spec => []RowFollowsGraph
<1>1. SerialInv => RowFollowsGraph
  <2> SUFFICES ASSUME SerialInv, NEW a \in App, ~InFlight(a)
               PROVE  IF thread[a].next = "END" THEN row[a].status = thread[a].status
                                                ELSE row[a].status \notin Outcomes
    BY DEF RowFollowsGraph
  <2>1. AppInv(a) /\ PCs(a) = {}
    BY DEF SerialInv, InFlight, PCs
  <2>2. QED
    BY <2>1 DEF AppInv, Tables
<1>2. QED
  BY <1>1, SerialIsInvariant, PTL

-----------------------------------------------------------------------------
(* Answers and questions.  interrupt() matches the answers of a node to    *)
(* its questions by position only; what makes the positions agree is that  *)
(* a checkpoint waits at the first question it has no answer for.          *)
LEMMA AskedBeforeIsNat ==
  ASSUME NEW list, NEW k \in Nat
  PROVE  /\ IsFiniteSet({i \in 1 .. k - 1 : list[i] # "unrecognized"})
         /\ AskedBefore(list, k) \in Nat
<1>1. IsFiniteSet(1 .. k - 1)
  BY FS_Interval
<1>2. IsFiniteSet({i \in 1 .. k - 1 : list[i] # "unrecognized"})
  BY <1>1, FS_Subset
<1>3. QED
  BY <1>2, FS_CardinalityType DEF AskedBefore

LEMMA AskedBeforeGrows ==
  ASSUME NEW list, NEW i \in Nat \ {0}, NEW k \in Nat, i < k, list[i] # "unrecognized"
  PROVE  AskedBefore(list, i) < AskedBefore(list, k)
<1> DEFINE upTo(n) == {j \in 1 .. n - 1 : list[j] # "unrecognized"}
<1>1. IsFiniteSet(upTo(i)) /\ IsFiniteSet(upTo(k))
  BY AskedBeforeIsNat
<1>2. i \notin upTo(i) /\ upTo(i) \cup {i} \subseteq upTo(k)
  OBVIOUS
<1>3. /\ IsFiniteSet(upTo(i) \cup {i})
      /\ Cardinality(upTo(i) \cup {i}) = Cardinality(upTo(i)) + 1
  BY <1>1, <1>2, FS_AddElement
<1>4. Cardinality(upTo(i) \cup {i}) <= Cardinality(upTo(k))
  BY <1>1, <1>2, FS_Subset
<1>5. Cardinality(upTo(i)) \in Nat /\ Cardinality(upTo(k)) \in Nat
  BY <1>1, FS_CardinalityType
<1>6. QED
  BY <1>3, <1>4, <1>5 DEF AskedBefore

(* No two questions of a list stand at the same position.                  *)
LEMMA PositionsDiffer ==
  ASSUME NEW list, NEW i \in Nat \ {0}, NEW k \in Nat \ {0},
         list[i] # "unrecognized", list[k] # "unrecognized",
         AskedBefore(list, i) = AskedBefore(list, k)
  PROVE  i = k
<1>1. AskedBefore(list, i) \in Nat /\ AskedBefore(list, k) \in Nat
  BY AskedBeforeIsNat
<1>2. CASE i < k
  BY <1>1, <1>2, AskedBeforeGrows
<1>3. CASE k < i
  BY <1>1, <1>3, AskedBeforeGrows
<1>4. QED
  BY <1>2, <1>3

(* The answers given so far suit the questions they stand for.             *)
Fit(list, answers) ==
  \A k \in DOMAIN list :
    list[k] # "unrecognized" /\ AskedBefore(list, k) < Len(answers)
      => answers[AskedBefore(list, k) + 1] \in Reply[list[k]]

(* An answer to the first question without one keeps them so.              *)
LEMMA NextAnswerFits ==
  ASSUME NEW list \in Seq(PageKinds \cup Questions), NEW answers \in Seq(Payloads),
         Fit(list, answers), NEW k \in DOMAIN list, list[k] # "unrecognized",
         AskedBefore(list, k) = Len(answers), NEW p \in Payloads, p \in Reply[list[k]]
  PROVE  Fit(list, Append(answers, p))
<1> SUFFICES ASSUME NEW i \in DOMAIN list, list[i] # "unrecognized",
                    AskedBefore(list, i) < Len(Append(answers, p))
             PROVE  Append(answers, p)[AskedBefore(list, i) + 1] \in Reply[list[i]]
  BY DEF Fit
<1>1. i \in Nat \ {0} /\ k \in Nat \ {0}
  OBVIOUS
<1>2. AskedBefore(list, i) \in Nat /\ Len(answers) \in Nat
  BY <1>1, AskedBeforeIsNat
<1>3. CASE AskedBefore(list, i) = Len(answers)
  <2>1. i = k
    BY <1>1, <1>3, PositionsDiffer
  <2>2. Append(answers, p)[Len(answers) + 1] = p
    OBVIOUS
  <2>3. QED
    BY <1>3, <2>1, <2>2
<1>4. CASE AskedBefore(list, i) < Len(answers)
  <2>1. Append(answers, p)[AskedBefore(list, i) + 1] = answers[AskedBefore(list, i) + 1]
    BY <1>2, <1>4
  <2>2. QED
    BY <1>4, <2>1 DEF Fit
<1>5. QED
  BY <1>2, <1>3, <1>4

-----------------------------------------------------------------------------
(* The checkpoints: recorded answers fit, and the question a checkpoint    *)
(* waits for is the first of its node without an answer.                   *)
Recorded(m) ==
  /\ Fit(QuestionsOf(m), m.answers)
  /\ m.waiting # "none" =>
       \E k \in DOMAIN QuestionsOf(m) :
         QuestionsOf(m)[k] = m.waiting /\ AskedBefore(QuestionsOf(m), k) = Len(m.answers)

(* A thread with no node to run.                                           *)
Settled == {"absent", "END"}

(* A payload on its way answers the question the checkpoint waits for.     *)
Suits(p, m) ==
  p # "none" /\ m.next \notin Settled => m.waiting # "none" /\ p \in Reply[m.waiting]

FitInv ==
  /\ \A a \in App : Recorded(thread[a])
  /\ \A a \in App : thread[a].next \notin Settled /\ thread[a].waiting = "none" =>
       \E c \in Call : call[c].app = a /\ call[c].pc = "run"
  /\ \A c \in Call : call[c].app # NoApp => Suits(call[c].pay, thread[call[c].app])

LEMMA QuestionsAreLists ==
  ASSUME NEW m \in Checkpoints
  PROVE  QuestionsOf(m) \in Seq(PageKinds \cup Questions)
<1>1. <<>> \in Seq(PageKinds \cup Questions) /\ m.pages \in Seq(PageKinds \cup Questions)
  BY DEF Checkpoints
<1>2. \A q \in Questions : <<q>> \in Seq(PageKinds \cup Questions)
  OBVIOUS
<1>3. "UNKNOWN_REQUIRED_FIELD" \in Questions /\ "MANUAL_APPROVAL_REQUIRED" \in Questions
  BY DEF Questions
<1>4. UnknownFields(m.form_unknown) \in Seq(PageKinds \cup Questions)
  BY <1>1, <1>2, <1>3 DEF UnknownFields
<1>5. ApprovalQuestion \in Seq(PageKinds \cup Questions)
  BY <1>2, <1>3 DEF ApprovalQuestion
<1>6. QED
  BY <1>1, <1>4, <1>5 DEF QuestionsOf

(* A step of call c for application a leaves the other threads and calls.  *)
Around(c, a) ==
  /\ \A b \in App \ {a} : thread'[b] = thread[b]
  /\ \A d \in Call \ {c} :
       /\ call[d].app # a
       /\ call'[d].pc = call[d].pc /\ call'[d].app = call[d].app
       /\ call'[d].pay = call[d].pay
  /\ call[c].app \in {NoApp, a} /\ call'[c].app \in {NoApp, a}

(* The application after such a step, and the call.                        *)
FitAt(c, a) ==
  /\ Recorded(thread[a])
  /\ thread[a].next \notin Settled /\ thread[a].waiting = "none" =>
       call[c].app = a /\ call[c].pc = "run"
  /\ call[c].app = a => Suits(call[c].pay, thread[a])

LEMMA FitAround ==
  ASSUME ConstantsAssumption, TypeOK, FitInv, NEW c \in Call, NEW a \in App,
         Around(c, a), FitAt(c, a)'
  PROVE  FitInv'
<1>1. a # NoApp
  BY DEF ConstantsAssumption
<1>2. ASSUME NEW b \in App PROVE Recorded(thread[b])'
  <2>1. CASE b = a
    BY <2>1 DEF FitAt
  <2>2. CASE b # a
    <3>1. thread'[b] = thread[b] /\ Recorded(thread[b])
      BY <2>2 DEF Around, FitInv
    <3>2. QED
      BY <3>1 DEF Recorded
  <2>3. QED
    BY <2>1, <2>2
<1>3. ASSUME NEW b \in App, thread'[b].next \notin Settled, thread'[b].waiting = "none"
      PROVE  \E d \in Call : call'[d].app = b /\ call'[d].pc = "run"
  <2>1. CASE b = a
    BY <1>3, <2>1 DEF FitAt
  <2>2. CASE b # a
    <3>1. b # NoApp
      BY DEF ConstantsAssumption
    <3>2. PICK d \in Call : call[d].app = b /\ call[d].pc = "run"
      BY <1>3, <2>2 DEF Around, FitInv
    <3>3. d # c
      BY <2>2, <3>1, <3>2 DEF Around
    <3>4. QED
      BY <3>2, <3>3 DEF Around
  <2>3. QED
    BY <2>1, <2>2
<1>4. ASSUME NEW d \in Call, call'[d].app # NoApp
      PROVE  Suits(call'[d].pay, thread'[call'[d].app])
  <2>1. CASE d = c
    BY <1>4, <2>1 DEF Around, FitAt
  <2>2. CASE d # c
    <3>1. call'[d].app = call[d].app /\ call'[d].pay = call[d].pay /\ call[d].app # a
      BY <2>2 DEF Around
    <3>2. call[d].app \in App \ {a}
      BY <1>4, <3>1 DEF TypeOK, Calls
    <3>3. thread'[call[d].app] = thread[call[d].app] /\ Suits(call[d].pay, thread[call[d].app])
      BY <1>4, <3>1, <3>2 DEF Around, FitInv
    <3>4. QED
      BY <3>1, <3>3 DEF Suits
  <2>3. QED
    BY <2>1, <2>2
<1>5. QED
  BY <1>2, <1>3, <1>4 DEF FitInv

LEMMA FitQuiet ==
  ASSUME FitInv, UNCHANGED thread,
         \A d \in Call : /\ call'[d].app = call[d].app /\ call'[d].pay = call[d].pay
                         /\ call[d].pc = "run" => call'[d].pc = "run"
  PROVE  FitInv'
BY DEF FitInv, Recorded, Suits

(* What a running call finds recorded, with the payload it brings.         *)
LEMMA RunningFits ==
  ASSUME ConstantsAssumption, TypeOK, SerialInv, FitInv,
         NEW c \in Call, call[c].pc = "run", NEW a \in App, a = call[c].app
  PROVE  Fit(QuestionsOf(thread[a]), Answers(c)) /\ Answers(c) \in Seq(Payloads)
<1>1. call[c].mem = thread[a] /\ thread[a] \in Checkpoints /\ thread[a].next \in DOMAIN Successor
  BY RunsAlone
<1>2. Recorded(thread[a]) /\ Suits(call[c].pay, thread[a])
  BY DEF FitInv, ConstantsAssumption
<1>3. CASE call[c].pay = "none"
  BY <1>1, <1>2, <1>3 DEF Answers, Recorded, Checkpoints
<1>4. CASE call[c].pay # "none"
  <2>1. /\ Answers(c) = Append(thread[a].answers, call[c].pay)
        /\ thread[a].answers \in Seq(Payloads) /\ call[c].pay \in Payloads
    BY <1>1, <1>4 DEF Answers, Checkpoints, TypeOK, Calls
  <2>2. thread[a].waiting # "none" /\ call[c].pay \in Reply[thread[a].waiting]
    BY <1>1, <1>2, <1>4 DEF Suits, Settled, Successor
  <2>3. PICK k \in DOMAIN QuestionsOf(thread[a]) :
          /\ QuestionsOf(thread[a])[k] = thread[a].waiting
          /\ AskedBefore(QuestionsOf(thread[a]), k) = Len(thread[a].answers)
    BY <1>2, <2>2 DEF Recorded
  <2>4. thread[a].waiting # "unrecognized"
    BY <1>1 DEF Checkpoints, Questions
  <2>5. QuestionsOf(thread[a]) \in Seq(PageKinds \cup Questions)
    BY <1>1, QuestionsAreLists
  <2>6. Fit(QuestionsOf(thread[a]), thread[a].answers)
    BY <1>2 DEF Recorded
  <2>7. Fit(QuestionsOf(thread[a]), Append(thread[a].answers, call[c].pay))
    BY <2>1, <2>2, <2>3, <2>4, <2>5, <2>6, NextAnswerFits
  <2>8. QED
    BY <2>1, <2>7
<1>5. QED
  BY <1>3, <1>4

(* The next node starts without answers.                                   *)
LEMMA FreshCheckpointFits ==
  ASSUME NEW m \in Checkpoints, m.answers = <<>>, m.waiting = "none"
  PROVE  Recorded(m)
<1>1. QuestionsOf(m) \in Seq(PageKinds \cup Questions)
  BY QuestionsAreLists
<1>2. ASSUME NEW k \in DOMAIN QuestionsOf(m)
      PROVE  ~(AskedBefore(QuestionsOf(m), k) < Len(m.answers))
  <2>1. k \in Nat
    BY <1>1
  <2>2. AskedBefore(QuestionsOf(m), k) \in Nat /\ Len(m.answers) = 0
    BY <2>1, AskedBeforeIsNat
  <2>3. QED
    BY <2>2
<1>3. QED
  BY <1>2 DEF Recorded, Fit

LEMMA FitWrite ==
  ASSUME ConstantsAssumption, TypeOK, SerialInv, FitInv,
         NEW c \in Call, call[c].pc \in {"run", "invoke"},
         NEW m \in Checkpoints, m.answers = <<>>, m.waiting = "none",
         NEW label, m.next # "END" => label = "run", WriteCheckpoint(c, m, label)
  PROVE  FitInv'
<1>1. PICK a \in App : a = call[c].app
  BY WorksAlone
<1>2. \A d \in Call \ {c} : call[d].app # a
  BY <1>1, WorksAlone
<1>3. Written(c, a, m, label) /\ OthersKept(c)
  BY <1>1, <1>2, WriteFacts
<1>4. Around(c, a)
  BY <1>1, <1>2, <1>3 DEF Around, Written, OthersKept
<1>5. Recorded(m)
  BY FreshCheckpointFits
<1>6. FitAt(c, a)'
  BY <1>3, <1>5 DEF FitAt, Written, Suits, Settled, Recorded
<1>7. QED
  BY <1>4, <1>6, FitAround

LEMMA FitComplete ==
  ASSUME ConstantsAssumption, TypeOK, SerialInv, FitInv,
         NEW c \in Call, call[c].pc = "run",
         NEW update \in Checkpoints, update.next \in DOMAIN Successor, Complete(c, update)
  PROVE  FitInv'
<1>1. PICK next \in DOMAIN Successor \cup {"END"} : next = Successor[update.next]
  BY DEF Successor
<1>2. PICK m : m = [update EXCEPT !.next = next, !.answers = <<>>, !.waiting = "none"]
  OBVIOUS
<1>3. m.next = next /\ m.answers = <<>> /\ m.waiting = "none"
  BY <1>2 DEF Checkpoints
<1>4. m \in Checkpoints
  <2>1. <<>> \in Seq(Payloads)
    OBVIOUS
  <2>2. QED
    BY <1>2, <2>1 DEF Checkpoints
<1>5. PICK label : label = IF next = "END" THEN "persist" ELSE "run"
  OBVIOUS
<1>6. WriteCheckpoint(c, m, label)
  BY <1>1, <1>2, <1>5 DEF Complete
<1>7. QED
  BY <1>3, <1>4, <1>5, <1>6, FitWrite

LEMMA FitPause ==
  ASSUME ConstantsAssumption, TypeOK, SerialInv, FitInv,
         NEW c \in Call, call[c].pc = "run", NEW a \in App, a = call[c].app,
         Pause(c, QuestionsOf(thread[a]))
  PROVE  FitInv'
<1>1. /\ \A d \in Call \ {c} : call[d].app # a
      /\ HandlerInv(call[c], thread[a], row[a], said[a])
      /\ call[c].mem = thread[a] /\ thread[a] \in Checkpoints
      /\ call[c].latest
  BY RunsAlone DEF HandlerInv
<1>2. PICK list : list = QuestionsOf(thread[a])
  OBVIOUS
<1>3. Fit(list, Answers(c)) /\ Answers(c) \in Seq(Payloads)
  BY <1>2, RunningFits
<1>4. list \in Seq(PageKinds \cup Questions)
  BY <1>1, <1>2, QuestionsAreLists
<1>5. PICK k \in DOMAIN list :
        /\ list[k] # "unrecognized"
        /\ AskedBefore(list, k) = Len(Answers(c))
        /\ LET m == [call[c].mem EXCEPT !.answers = Answers(c), !.waiting = list[k]]
           IN /\ call' = [call EXCEPT ![c].pc = "persist", ![c].pay = "none", ![c].mem = m]
              /\ thread' = IF call[c].latest THEN [thread EXCEPT ![call[c].app] = m]
                                             ELSE thread
  BY <1>2 DEF Pause
<1>6. list[k] \in Questions
  BY <1>4, <1>5 DEF PageKinds, Questions
<1>7. PICK m : m = [thread[a] EXCEPT !.answers = Answers(c), !.waiting = list[k]]
  OBVIOUS
<1>8. /\ m.next = thread[a].next /\ m.answers = Answers(c) /\ m.waiting = list[k]
      /\ m.pages = thread[a].pages
  BY <1>1, <1>7 DEF Checkpoints
<1>9. m.form_unknown = thread[a].form_unknown
  BY <1>1, <1>7 DEF Checkpoints
<1>10. /\ call'[c].pc = "persist" /\ call'[c].app = a /\ call'[c].pay = "none"
       /\ \A d \in Call \ {c} : call'[d] = call[d]
  BY <1>1, <1>5, <1>7 DEF TypeOK, Calls
<1>11. thread'[a] = m /\ \A b \in App \ {a} : thread'[b] = thread[b]
  BY <1>1, <1>5, <1>7 DEF TypeOK
<1>12. Around(c, a)
  BY <1>1, <1>10, <1>11 DEF Around
<1>13. QuestionsOf(m) = list
  BY <1>2, <1>8, <1>9 DEF QuestionsOf
<1>14. Recorded(m)
  BY <1>3, <1>5, <1>8, <1>13 DEF Recorded
<1>15. m.waiting # "none"
  BY <1>6, <1>8 DEF Questions
<1>16. FitAt(c, a)'
  BY <1>10, <1>11, <1>14, <1>15 DEF FitAt, Suits, Recorded
<1>17. QED
  BY <1>12, <1>16, FitAround

-----------------------------------------------------------------------------
(* A call that returns: it was not running, so no node is left half done.  *)
LEMMA FitReturn ==
  ASSUME ConstantsAssumption, TypeOK, SerialInv, FitInv, NEW c \in Call,
         call[c].pc \in {"lookup", "load", "persist"}, Return(c), UNCHANGED thread
  PROVE  FitInv'
<1>1. PICK a \in App : a = call[c].app
  BY WorksAlone
<1>2. \A d \in Call \ {c} : call[d].app # a
  BY <1>1, WorksAlone
<1>3. /\ call'[c].pc = "idle" /\ call'[c].app = NoApp
      /\ \A d \in Call \ {c} : call'[d] = call[d]
  BY DEF Return, TypeOK, Idle
<1>4. Around(c, a)
  BY <1>1, <1>2, <1>3 DEF Around
<1>5. thread[a].next \notin Settled => thread[a].waiting # "none"
  <2>1. ~\E d \in Call : call[d].app = a /\ call[d].pc = "run"
    BY <1>1, <1>2
  <2>2. QED
    BY <2>1 DEF FitInv
<1>6. FitAt(c, a)'
  <2>1. Recorded(thread[a])
    BY DEF FitInv
  <2>2. QED
    BY <1>3, <1>5, <2>1 DEF FitAt, Recorded, ConstantsAssumption
<1>7. QED
  BY <1>4, <1>6, FitAround

LEMMA FitSend ==
  ASSUME ConstantsAssumption, TypeOK, SerialInv, FitInv,
         NEW c \in Call, NEW a \in App, NEW p \in Payloads,
         NEW label \in {"lookup", "load"}, NEW view, Serial, Send(c, a, p, label, view),
         Suits(p, thread[a])
  PROVE  FitInv'
<1>1. /\ call[c].pc = "idle"
      /\ \A d \in Call : call[d].app # a
      /\ call' = [call EXCEPT ![c].pc = label, ![c].app = a, ![c].pay = p, ![c].view = view]
      /\ thread' = thread
  BY DEF Send, OperatorMayAnswer, InFlight
<1>2. call[c].app = NoApp
  BY <1>1 DEF SerialInv, SerialCall
<1>3. /\ call'[c].pc = label /\ call'[c].app = a /\ call'[c].pay = p
      /\ \A d \in Call \ {c} : call'[d] = call[d]
  BY <1>1 DEF TypeOK, Calls
<1>4. Around(c, a)
  BY <1>1, <1>2, <1>3 DEF Around
<1>5. Recorded(thread[a]) /\ (thread[a].next \notin Settled => thread[a].waiting # "none")
  BY <1>1 DEF FitInv
<1>6. FitAt(c, a)'
  BY <1>1, <1>3, <1>5 DEF FitAt, Recorded, Suits
<1>7. QED
  BY <1>4, <1>6, FitAround

LEMMA FitAnswer ==
  ASSUME ConstantsAssumption, TypeOK, SerialInv, FitInv, Serial,
         NEW c \in Call, NEW a \in App, NEW p \in Payloads, Answer(c, a, p)
  PROVE  FitInv'
<1>1. /\ queue[a].status = "pending" /\ p \in Reply[queue[a].reason]
      /\ Send(c, a, p, "lookup", queue[a].id)
  BY DEF Answer
<1>2. \A d \in Call : call[d].app # a
  BY <1>1 DEF Send, OperatorMayAnswer, InFlight
<1>3. AppInv(a) /\ PCs(a) = {}
  <2>1. {d \in Call : call[d].app = a} = {}
    BY <1>2
  <2>2. QED
    BY <2>1 DEF SerialInv, PCs
<1>4. thread[a].next \notin Settled => thread[a].waiting # "none"
  BY <1>2 DEF FitInv
<1>5. thread[a].waiting # "none" => queue[a].reason = thread[a].waiting
  BY <1>3 DEF AppInv, Tables
<1>6. Suits(p, thread[a])
  BY <1>1, <1>4, <1>5 DEF Suits
<1>7. QED
  BY <1>1, <1>6, FitSend

LEMMA FitResumeDirect ==
  ASSUME ConstantsAssumption, TypeOK, SerialInv, FitInv, Serial,
         NEW c \in Call, NEW a \in App, NEW p \in Payloads, ResumeDirect(c, a, p)
  PROVE  FitInv'
<1>1. /\ \/ thread[a].waiting # "none" /\ p \in Reply[thread[a].waiting]
         \/ thread[a].waiting = "none"
      /\ Send(c, a, p, "load", 0)
  BY DEF ResumeDirect
<1>2. \A d \in Call : call[d].app # a
  BY <1>1 DEF Send, OperatorMayAnswer, InFlight
<1>3. thread[a].next \notin Settled => thread[a].waiting # "none"
  BY <1>2 DEF FitInv
<1>4. Suits(p, thread[a])
  BY <1>1, <1>3 DEF Suits
<1>5. QED
  BY <1>1, <1>4, FitSend

LEMMA FitCreateRow ==
  ASSUME ConstantsAssumption, TypeOK, SerialInv, FitInv, NEW c \in Call, CreateRow(c)
  PROVE  FitInv'
<1>1. PICK a \in App :
        /\ row[a].status = "absent"
        /\ call' = [call EXCEPT ![c].pc = "invoke", ![c].app = a]
  BY DEF CreateRow
<1>2. call[c].pc = "create" /\ thread' = thread
  BY DEF CreateRow
<1>3. call[c].app = NoApp
  BY <1>2 DEF SerialInv, SerialCall
<1>4. \A d \in Call : call[d].app # a
  BY <1>1 DEF SerialInv, SerialCall, HandlerInv, ConstantsAssumption
<1>5. /\ call'[c].app = a
      /\ \A d \in Call \ {c} : call'[d] = call[d]
  BY <1>1 DEF TypeOK, Calls
<1>6. thread[a].next = "absent" /\ Recorded(thread[a])
  BY <1>1 DEF SerialInv, AppInv, Tables, FitInv
<1>7. Around(c, a)
  BY <1>2, <1>3, <1>4, <1>5 DEF Around
<1>8. FitAt(c, a)'
  BY <1>2, <1>6 DEF FitAt, Recorded, Suits, Settled
<1>9. QED
  BY <1>7, <1>8, FitAround

LEMMA FitInvoke ==
  ASSUME ConstantsAssumption, TypeOK, SerialInv, FitInv, NEW c \in Call, Invoke(c)
  PROVE  FitInv'
<1>1. PICK list \in PageLists, unknown \in BOOLEAN, strong \in BOOLEAN :
        WriteCheckpoint(c, [NoCheckpoint EXCEPT !.next = "detect_and_map_fields",
                              !.pages = list, !.form_unknown = unknown, !.strong = strong],
                        "run")
  BY DEF Invoke
<1>2. PICK m : m = [NoCheckpoint EXCEPT !.next = "detect_and_map_fields",
                      !.pages = list, !.form_unknown = unknown, !.strong = strong]
  OBVIOUS
<1>3. m.answers = <<>> /\ m.waiting = "none"
  BY <1>2 DEF NoCheckpoint
<1>4. m \in Checkpoints
  <2>1. list \in Seq(PageKinds)
    BY DEF ConstantsAssumption
  <2>2. QED
    BY <1>2, <2>1, NoCheckpointOK DEF Checkpoints, Successor
<1>5. WriteCheckpoint(c, m, "run") /\ call[c].pc = "invoke"
  BY <1>1, <1>2 DEF Invoke
<1>6. QED
  BY <1>3, <1>4, <1>5, FitWrite

LEMMA FitLookupLoad ==
  ASSUME ConstantsAssumption, TypeOK, SerialInv, FitInv, NEW c \in Call, Lookup(c) \/ Load(c)
  PROVE  FitInv'
<1>1. call[c].pc \in {"lookup", "load"} /\ thread' = thread
  BY DEF Lookup, Load
<1>2. CASE Return(c)
  BY <1>1, <1>2, FitReturn
<1>3. CASE ~Return(c)
  <2>1. CASE Lookup(c)
    <3>1. call' = [call EXCEPT ![c].pc = "load"]
      BY <1>3, <2>1 DEF Lookup
    <3>2. \A d \in Call : call'[d].app = call[d].app /\ call'[d].pay = call[d].pay
      BY <3>1 DEF TypeOK, Calls
    <3>3. \A d \in Call \ {c} : call'[d] = call[d]
      BY <3>1 DEF TypeOK
    <3>4. QED
      BY <1>1, <3>2, <3>3, FitQuiet
  <2>2. CASE Load(c)
    <3>1. PICK label, m : call' = [call EXCEPT ![c].pc = label, ![c].mem = m, ![c].latest = TRUE]
      BY <1>3, <2>2 DEF Load
    <3>2. \A d \in Call : call'[d].app = call[d].app /\ call'[d].pay = call[d].pay
      BY <3>1 DEF TypeOK, Calls
    <3>3. \A d \in Call \ {c} : call'[d] = call[d]
      BY <3>1 DEF TypeOK
    <3>4. QED
      BY <1>1, <3>2, <3>3, FitQuiet
  <2>3. QED
    BY <2>1, <2>2
<1>4. QED
  BY <1>2, <1>3

(* Every execution of a node finds the form and the pages as they were.    *)
LEMMA FitNode ==
  ASSUME ConstantsAssumption, "pages" \notin Faults, TypeOK, SerialInv, FitInv,
         NEW c \in Call, RunNode(c)
  PROVE  FitInv'
<1>1. call[c].pc = "run"
  BY DEF RunNode, DetectAndMapFields, FillAndValidate, CheckChallenges, ManualApproval,
     FinalizeApplication, At
<1>2. PICK a \in App : a = call[c].app
  BY <1>1, WorksAlone
<1>3. /\ call[c].mem = thread[a] /\ thread[a] \in Checkpoints
      /\ thread[a].next \in DOMAIN Successor
  BY <1>1, <1>2, RunsAlone
<1>4. ASSUME Pause(c, QuestionsOf(thread[a])) PROVE FitInv'
  BY <1>1, <1>2, <1>4, FitPause
<1>5. ASSUME NEW update \in Checkpoints, update.next = thread[a].next, Complete(c, update)
      PROVE  FitInv'
  BY <1>1, <1>3, <1>5, FitComplete
<1>6. CASE DetectAndMapFields(c)
  <2>1. thread[a].next = "detect_and_map_fields"
    BY <1>3, <1>6 DEF DetectAndMapFields, At
  <2>2. QuestionsOf(thread[a]) = UnknownFields(thread[a].form_unknown)
    BY <2>1 DEF QuestionsOf
  <2>3. \/ Pause(c, UnknownFields(thread[a].form_unknown))
        \/ Complete(c, [thread[a] EXCEPT !.unresolved =
                           thread[a].form_unknown /\ Answers(c)[1] # "fields"])
    BY <1>3, <1>6 DEF DetectAndMapFields, FormUnknown
  <2>4. PICK left \in BOOLEAN : left = (thread[a].form_unknown /\ Answers(c)[1] # "fields")
    BY <1>3 DEF Checkpoints
  <2>5. PICK update : update = [thread[a] EXCEPT !.unresolved = left]
    OBVIOUS
  <2>6. update \in Checkpoints /\ update.next = thread[a].next
    BY <1>3, <2>5 DEF Checkpoints
  <2>7. QED
    BY <1>4, <1>5, <2>2, <2>3, <2>4, <2>5, <2>6
<1>7. CASE FillAndValidate(c)
  BY <1>3, <1>5, <1>7 DEF FillAndValidate
<1>8. CASE CheckChallenges(c)
  <2>1. thread[a].next = "check_challenges"
    BY <1>3, <1>8 DEF CheckChallenges, At
  <2>2. QuestionsOf(thread[a]) = thread[a].pages
    BY <2>1 DEF QuestionsOf
  <2>3. Pause(c, thread[a].pages) \/ Complete(c, thread[a])
    BY <1>3, <1>8 DEF CheckChallenges, Shown
  <2>4. QED
    BY <1>3, <1>4, <1>5, <2>2, <2>3
<1>9. CASE ManualApproval(c)
  <2>1. thread[a].next = "manual_approval"
    BY <1>3, <1>9 DEF ManualApproval, At
  <2>2. QuestionsOf(thread[a]) = ApprovalQuestion
    BY <2>1 DEF QuestionsOf
  <2>3. PICK yes \in BOOLEAN :
          Pause(c, ApprovalQuestion) \/ Complete(c, [thread[a] EXCEPT !.approved = yes])
    BY <1>3, <1>9 DEF ManualApproval
  <2>4. PICK update : update = [thread[a] EXCEPT !.approved = yes]
    OBVIOUS
  <2>5. update \in Checkpoints /\ update.next = thread[a].next
    BY <1>3, <2>4 DEF Checkpoints
  <2>6. QED
    BY <1>4, <1>5, <2>2, <2>3, <2>4, <2>5
<1>10. CASE FinalizeApplication(c)
  <2>1. PICK status \in Outcomes : status = FinalStatus(thread[a])
    BY DEF FinalStatus, Outcomes, Approved
  <2>2. PICK update : update = [thread[a] EXCEPT !.status = status]
    OBVIOUS
  <2>3. update \in Checkpoints /\ update.next = thread[a].next
    BY <1>3, <2>1, <2>2 DEF Checkpoints
  <2>4. Complete(c, update)
    BY <1>3, <1>10, <2>1, <2>2 DEF FinalizeApplication
  <2>5. QED
    BY <1>5, <2>3, <2>4
<1>11. QED
  BY <1>6, <1>7, <1>8, <1>9, <1>10 DEF RunNode

(* Besides, the browser answers and the pages stay as they are.            *)
Undisturbed == Steady /\ "browser" \notin Faults /\ "pages" \notin Faults

LEMMA FitStep ==
  Undisturbed /\ TypeOK /\ SerialInv /\ FitInv /\ [Next]_vars => FitInv'
<1> SUFFICES ASSUME Undisturbed, TypeOK, SerialInv, FitInv, [Next]_vars PROVE FitInv'
  OBVIOUS
<1> USE ConstantsAssumption
<1>1. ASSUME NEW c \in Call, NEW j \in Job, CheckDuplicate(c, j) PROVE FitInv'
  <2>1. \A d \in Call : /\ call'[d].app = call[d].app /\ call'[d].pay = call[d].pay
                        /\ call[d].pc = "run" => call'[d].pc = "run"
    BY <1>1 DEF CheckDuplicate, TypeOK, Calls
  <2>2. QED
    BY <1>1, <2>1, FitQuiet DEF CheckDuplicate
<1>2. ASSUME NEW c \in Call, NEW a \in App, NEW p \in Payloads,
             Answer(c, a, p) \/ ResumeDirect(c, a, p)
      PROVE  FitInv'
  BY <1>2, FitAnswer, FitResumeDirect DEF Undisturbed, Steady
<1>3. ASSUME NEW c \in Call, PersistResult(c) PROVE FitInv'
  BY <1>3, FitReturn DEF PersistResult
<1>4. ASSUME NEW c \in Call, Proceed(c) PROVE FitInv'
  BY <1>3, <1>4, FitCreateRow, FitInvoke, FitLookupLoad, FitNode DEF Proceed, Undisturbed
<1>5. ~Crash /\ ~EditMode /\ \A c \in Call : ~BrowserFails(c)
  BY DEF Crash, EditMode, BrowserFails, Undisturbed, Steady
<1>6. CASE UNCHANGED vars
  BY <1>6, FitQuiet DEF vars
<1>7. QED
  BY <1>1, <1>2, <1>4, <1>5, <1>6 DEF Next

LEMMA InitFits == Init => FitInv
<1> SUFFICES ASSUME Init PROVE FitInv
  OBVIOUS
<1>1. Recorded(NoCheckpoint)
  BY NoCheckpointOK, FreshCheckpointFits DEF NoCheckpoint
<1>2. QED
  BY <1>1 DEF Init, FitInv, Suits, Settled, NoCheckpoint, Idle

(* ARCHITECTURE.md:357-361: interrupt() matches answers to questions by    *)
(* position only, yet every answer a node reads was given to the question  *)
(* at whose position it stands, for any list of challenge pages, as long   *)
(* as the operator waits and no execution of a node is cut short.          *)
THEOREM AnswersFitTheirQuestionsHolds ==
  ASSUME Undisturbed
  PROVE  Spec => []AnswersFitTheirQuestions
<1>1. TypeOK /\ SerialInv /\ FitInv => AnswersFitTheirQuestions
  <2> SUFFICES ASSUME TypeOK, SerialInv, FitInv, NEW c \in Call, call[c].pc = "run"
               PROVE  Fit(QuestionsOf(call[c].mem), Answers(c))
    BY DEF AnswersFitTheirQuestions, Fit
  <2> USE ConstantsAssumption
  <2>1. PICK a \in App : a = call[c].app
    BY WorksAlone
  <2>2. call[c].mem = thread[a]
    BY <2>1, RunsAlone
  <2>3. QED
    BY <2>1, <2>2, RunningFits
<1>2. TypeOK /\ SerialInv /\ FitInv /\ [Next]_vars => FitInv'
  BY FitStep
<1>3. Steady
  BY DEF Undisturbed
<1>4. Spec => []SerialInv
  BY <1>3, SerialIsInvariant
<1>5. QED
  BY <1>1, <1>2, <1>4, InitFits, TypeCorrect, PTL DEF Spec

-----------------------------------------------------------------------------
(* The refinement of ApplicationLifecycle.  A row never goes back to an    *)
(* earlier stage of the form because the node a thread is at never does,   *)
(* and a row is rejected only out of the approval question because the     *)
(* answer that declines has to be given to that question.                  *)
Stage == Lifecycle!Stage

(* The stage of the questions a node asks.                                 *)
StageOf == [absent |-> 0, detect_and_map_fields |-> 2, fill_and_validate |-> 3,
            check_challenges |-> 3, manual_approval |-> 4, finalize_application |-> 4,
            END |-> 4]

RowOrder(m, r) ==
  /\ r.status # "completed"
  /\ r.status = "absent" => r.reason = "none"
  /\ r.reason # "none" => Stage[r.reason] <= StageOf[m.next]
  /\ m.waiting # "none" => Stage[m.waiting] = StageOf[m.next]
  /\ m.next \in Decided /\ ~m.approved /\ r.status \notin Outcomes => r.reason = Asked

(* A payload that meets the gate was given to its question.                *)
MeetsGate(p, m, r) == p # "none" /\ m.next = "manual_approval" => r.reason = Asked

(* A start past its duplicate check has a job.                             *)
StartsHaveJobs == \A c \in Call : call[c].pc = "create" => call[c].job \in Job

OrderInv ==
  /\ \A a \in App : RowOrder(thread[a], row[a])
  /\ \A c \in Call : call[c].app \in App =>
       MeetsGate(call[c].pay, thread[call[c].app], row[call[c].app])

LEMMA Stages ==
  /\ \A q \in Questions : Stage[q] \in 2 .. 4
  /\ \A n \in DOMAIN Successor \cup {"END"} : StageOf[n] \in 2 .. 4
  /\ StageOf["absent"] = 0 /\ StageOf["detect_and_map_fields"] = 2
  /\ StageOf["check_challenges"] = 3 /\ StageOf["manual_approval"] = 4
  /\ \A n \in DOMAIN Successor : StageOf[n] <= StageOf[Successor[n]]
  /\ Stage["UNKNOWN_REQUIRED_FIELD"] = 2 /\ Stage["OTP_REQUIRED"] = 3
  /\ Stage["CAPTCHA_REQUIRED"] = 3 /\ Stage[Asked] = 4 /\ Stage["opened"] = 1
<1>1. \A q \in Questions : Stage[q] \in 2 .. 4
  BY DEF Stage, Lifecycle!Stage, Questions
<1>2. \A n \in DOMAIN Successor \cup {"END"} : StageOf[n] \in 2 .. 4
  BY DEF StageOf, Successor
<1>3. \A n \in DOMAIN Successor : StageOf[n] <= StageOf[Successor[n]]
  BY DEF StageOf, Successor
<1>4. /\ StageOf["absent"] = 0 /\ StageOf["detect_and_map_fields"] = 2
      /\ StageOf["check_challenges"] = 3 /\ StageOf["manual_approval"] = 4
  BY DEF StageOf
<1>5. /\ Stage["UNKNOWN_REQUIRED_FIELD"] = 2 /\ Stage["OTP_REQUIRED"] = 3
      /\ Stage["CAPTCHA_REQUIRED"] = 3 /\ Stage[Asked] = 4 /\ Stage["opened"] = 1
  BY DEF Stage, Lifecycle!Stage, Asked
<1>6. QED
  BY <1>1, <1>2, <1>3, <1>4, <1>5

(* The rows of the other applications are left alone as well.              *)
AroundRow(c, a) == Around(c, a) /\ \A b \in App \ {a} : row'[b] = row[b]

OrderAt(c, a) ==
  /\ RowOrder(thread[a], row[a])
  /\ call[c].app = a => MeetsGate(call[c].pay, thread[a], row[a])

LEMMA OrderAround ==
  ASSUME ConstantsAssumption, TypeOK, OrderInv, NEW c \in Call, NEW a \in App,
         AroundRow(c, a), OrderAt(c, a)'
  PROVE  OrderInv'
<1>1. a # NoApp
  BY DEF ConstantsAssumption
<1>2. ASSUME NEW b \in App PROVE RowOrder(thread[b], row[b])'
  <2>1. CASE b = a
    BY <2>1 DEF OrderAt
  <2>2. CASE b # a
    <3>1. thread'[b] = thread[b] /\ row'[b] = row[b] /\ RowOrder(thread[b], row[b])
      BY <2>2 DEF AroundRow, Around, OrderInv
    <3>2. QED
      BY <3>1 DEF RowOrder
  <2>3. QED
    BY <2>1, <2>2
<1>3. ASSUME NEW d \in Call, call'[d].app \in App
      PROVE  MeetsGate(call'[d].pay, thread'[call'[d].app], row'[call'[d].app])
  <2>1. CASE d = c
    <3>1. call'[c].app = a
      BY <1>3, <2>1 DEF AroundRow, Around, ConstantsAssumption
    <3>2. QED
      BY <2>1, <3>1 DEF OrderAt, MeetsGate
  <2>2. CASE d # c
    <3>1. call'[d].app = call[d].app /\ call'[d].pay = call[d].pay /\ call[d].app # a
      BY <2>2 DEF AroundRow, Around
    <3>2. call[d].app \in App \ {a}
      BY <1>3, <3>1
    <3>3. /\ thread'[call[d].app] = thread[call[d].app] /\ row'[call[d].app] = row[call[d].app]
          /\ MeetsGate(call[d].pay, thread[call[d].app], row[call[d].app])
      BY <3>2 DEF AroundRow, Around, OrderInv
    <3>4. QED
      BY <3>1, <3>3 DEF MeetsGate
  <2>3. QED
    BY <2>1, <2>2
<1>4. QED
  BY <1>2, <1>3 DEF OrderInv

LEMMA OrderQuiet ==
  ASSUME ConstantsAssumption, OrderInv, UNCHANGED <<thread, row>>,
         \A d \in Call : \/ call'[d].app = NoApp
                         \/ call'[d].app = call[d].app /\ call'[d].pay = call[d].pay
  PROVE  OrderInv'
<1>1. \A a \in App : RowOrder(thread[a], row[a])'
  BY DEF OrderInv, RowOrder
<1>2. ASSUME NEW d \in Call, call'[d].app \in App
      PROVE  MeetsGate(call'[d].pay, thread'[call'[d].app], row'[call'[d].app])
  <2>1. call'[d].app = call[d].app /\ call'[d].pay = call[d].pay
    BY <1>2 DEF ConstantsAssumption
  <2>2. QED
    BY <1>2, <2>1 DEF OrderInv, MeetsGate
<1>3. QED
  BY <1>1, <1>2 DEF OrderInv

LEMMA OrderWrite ==
  ASSUME ConstantsAssumption, TypeOK, SerialInv, OrderInv,
         NEW c \in Call, call[c].pc \in {"run", "invoke"}, NEW a \in App, a = call[c].app,
         NEW m, NEW label, WriteCheckpoint(c, m, label), UNCHANGED row,
         RowOrder(m, row[a])
  PROVE  OrderInv'
<1>1. \A d \in Call \ {c} : call[d].app # a
  BY WorksAlone
<1>2. Written(c, a, m, label) /\ OthersKept(c)
  BY <1>1, WriteFacts
<1>3. AroundRow(c, a)
  BY <1>1, <1>2 DEF AroundRow, Around, Written, OthersKept
<1>4. OrderAt(c, a)'
  BY <1>2 DEF OrderAt, Written, MeetsGate, RowOrder
<1>5. QED
  BY <1>3, <1>4, OrderAround

LEMMA OrderComplete ==
  ASSUME ConstantsAssumption, TypeOK, SerialInv, OrderInv,
         NEW c \in Call, call[c].pc = "run", NEW a \in App, a = call[c].app,
         NEW update \in Checkpoints, update.next = thread[a].next, Complete(c, update),
         Successor[thread[a].next] \in Decided /\ ~update.approved => row[a].reason = Asked
  PROVE  OrderInv'
<1>1. /\ thread[a] \in Checkpoints /\ thread[a].next \in DOMAIN Successor
      /\ HandlerInv(call[c], thread[a], row[a], said[a])
  BY RunsAlone
<1>2. PICK next \in DOMAIN Successor \cup {"END"} : next = Successor[thread[a].next]
  BY <1>1 DEF Successor
<1>3. PICK m : m = [update EXCEPT !.next = next, !.answers = <<>>, !.waiting = "none"]
  OBVIOUS
<1>4. m.next = next /\ m.waiting = "none" /\ m.approved = update.approved
  BY <1>3 DEF Checkpoints
<1>5. PICK label : label = IF next = "END" THEN "persist" ELSE "run"
  OBVIOUS
<1>6. WriteCheckpoint(c, m, label) /\ UNCHANGED row
  BY <1>2, <1>3, <1>5 DEF Complete, db
<1>7. RowOrder(m, row[a])
  <2>1. RowOrder(thread[a], row[a]) /\ row[a] \in Rows
    BY DEF OrderInv, TypeOK
  <2>2. row[a].reason # "none" => Stage[row[a].reason] <= StageOf[next]
    <3>1. /\ StageOf[thread[a].next] <= StageOf[next]
          /\ StageOf[thread[a].next] \in Nat /\ StageOf[next] \in Nat
      BY <1>1, <1>2, Stages
    <3>2. row[a].reason # "none" => Stage[row[a].reason] \in Nat
      BY <2>1, Stages DEF Rows
    <3>3. QED
      BY <2>1, <3>1, <3>2 DEF RowOrder
  <2>3. QED
    BY <1>2, <1>4, <2>1, <2>2 DEF RowOrder
<1>8. QED
  BY <1>6, <1>7, OrderWrite

LEMMA OrderPause ==
  ASSUME ConstantsAssumption, TypeOK, SerialInv, OrderInv,
         NEW c \in Call, call[c].pc = "run", NEW a \in App, a = call[c].app,
         NEW list, Pause(c, list),
         \A k \in DOMAIN list : list[k] # "unrecognized" => Stage[list[k]] = StageOf[thread[a].next]
  PROVE  OrderInv'
<1>1. /\ \A d \in Call \ {c} : call[d].app # a
      /\ HandlerInv(call[c], thread[a], row[a], said[a])
      /\ call[c].mem = thread[a] /\ thread[a] \in Checkpoints
      /\ call[c].latest
  BY RunsAlone DEF HandlerInv
<1>2. PICK k \in DOMAIN list :
        /\ list[k] # "unrecognized"
        /\ LET m == [call[c].mem EXCEPT !.answers = Answers(c), !.waiting = list[k]]
           IN /\ call' = [call EXCEPT ![c].pc = "persist", ![c].pay = "none", ![c].mem = m]
              /\ thread' = IF call[c].latest THEN [thread EXCEPT ![call[c].app] = m]
                                             ELSE thread
  BY DEF Pause
<1>3. PICK m : m = [thread[a] EXCEPT !.answers = Answers(c), !.waiting = list[k]]
  OBVIOUS
<1>4. m.next = thread[a].next /\ m.waiting = list[k] /\ m.approved = thread[a].approved
  BY <1>1, <1>3 DEF Checkpoints
<1>5. /\ call'[c].app = a /\ call'[c].pay = "none"
      /\ \A d \in Call \ {c} : call'[d] = call[d]
  BY <1>1, <1>2, <1>3 DEF TypeOK, Calls
<1>6. thread'[a] = m /\ \A b \in App \ {a} : thread'[b] = thread[b]
  BY <1>1, <1>2, <1>3 DEF TypeOK
<1>7. row' = row
  BY DEF Pause, db
<1>8. AroundRow(c, a)
  BY <1>1, <1>5, <1>6, <1>7 DEF AroundRow, Around
<1>9. RowOrder(m, row[a])
  BY <1>2, <1>4 DEF OrderInv, RowOrder
<1>10. OrderAt(c, a)'
  BY <1>5, <1>6, <1>7, <1>9 DEF OrderAt, MeetsGate, RowOrder
<1>11. QED
  BY <1>8, <1>10, OrderAround

LEMMA OrderNode ==
  ASSUME ConstantsAssumption, TypeOK, SerialInv, OrderInv, NEW c \in Call, RunNode(c)
  PROVE  OrderInv'
<1>1. call[c].pc = "run"
  BY DEF RunNode, DetectAndMapFields, FillAndValidate, CheckChallenges, ManualApproval,
     FinalizeApplication, At
<1>2. PICK a \in App : a = call[c].app
  BY <1>1, WorksAlone
<1>3. /\ call[c].mem = thread[a] /\ thread[a] \in Checkpoints
      /\ HandlerInv(call[c], thread[a], row[a], said[a]) /\ AppInv(a)
  BY <1>1, <1>2, RunsAlone
<1>4. RowOrder(thread[a], row[a]) /\ MeetsGate(call[c].pay, thread[a], row[a])
  BY <1>2 DEF OrderInv
<1>5. CASE DetectAndMapFields(c)
  <2>1. thread[a].next = "detect_and_map_fields" /\ Successor[thread[a].next] \notin Decided
    BY <1>3, <1>5 DEF DetectAndMapFields, At, Successor, Decided
  <2>2. PICK unknown \in BOOLEAN :
          \/ Pause(c, UnknownFields(unknown))
          \/ Complete(c, [thread[a] EXCEPT !.unresolved = unknown /\ Answers(c)[1] # "fields"])
    BY <1>3, <1>5 DEF DetectAndMapFields, FormUnknown, Checkpoints
  <2>3. CASE Pause(c, UnknownFields(unknown))
    <3>1. \A k \in DOMAIN UnknownFields(unknown) :
            UnknownFields(unknown)[k] = "UNKNOWN_REQUIRED_FIELD"
      BY DEF UnknownFields
    <3>2. QED
      BY <1>1, <1>2, <2>1, <2>3, <3>1, Stages, OrderPause
  <2>4. CASE Complete(c, [thread[a] EXCEPT !.unresolved = unknown /\ Answers(c)[1] # "fields"])
    <3>1. PICK left \in BOOLEAN : left = (unknown /\ Answers(c)[1] # "fields")
      OBVIOUS
    <3>2. PICK update : update = [thread[a] EXCEPT !.unresolved = left]
      OBVIOUS
    <3>3. update \in Checkpoints /\ update.next = thread[a].next
      BY <1>3, <3>2 DEF Checkpoints
    <3>4. Complete(c, update)
      BY <2>4, <3>1, <3>2
    <3>5. QED
      BY <1>1, <1>2, <2>1, <3>3, <3>4, OrderComplete
  <2>5. QED
    BY <2>2, <2>3, <2>4
<1>6. CASE FillAndValidate(c)
  <2>1. Successor[thread[a].next] \notin Decided
    BY <1>3, <1>6 DEF FillAndValidate, At, Successor, Decided
  <2>2. Complete(c, thread[a])
    BY <1>3, <1>6 DEF FillAndValidate
  <2>3. QED
    BY <1>1, <1>2, <1>3, <2>1, <2>2, OrderComplete
<1>7. CASE CheckChallenges(c)
  <2>1. thread[a].next = "check_challenges" /\ Successor[thread[a].next] \notin Decided
    BY <1>3, <1>7 DEF CheckChallenges, At, Successor, Decided
  <2>2. PICK shown \in Seq(PageKinds) : Pause(c, shown) \/ Complete(c, thread[a])
    BY <1>3, <1>7 DEF CheckChallenges, Shown, Checkpoints
  <2>3. \A k \in DOMAIN shown : shown[k] # "unrecognized" => Stage[shown[k]] = 3
    BY <2>2, Stages DEF PageKinds
  <2>4. CASE Pause(c, shown)
    BY <1>1, <1>2, <2>1, <2>3, <2>4, Stages, OrderPause
  <2>5. CASE Complete(c, thread[a])
    BY <1>1, <1>2, <1>3, <2>1, <2>5, OrderComplete
  <2>6. QED
    BY <2>2, <2>4, <2>5
<1>8. CASE ManualApproval(c)
  <2>1. thread[a].next = "manual_approval" /\ thread[a].answers = <<>>
    BY <1>3, <1>8 DEF ManualApproval, At, AppInv, Gate
  <2>2. CASE Pause(c, ApprovalQuestion)
    <3>1. \A k \in DOMAIN ApprovalQuestion : ApprovalQuestion[k] = Asked
      BY DEF ApprovalQuestion, Asked
    <3>2. QED
      BY <1>1, <1>2, <2>1, <2>2, <3>1, Stages, OrderPause
  <2>3. ASSUME NEW yes \in BOOLEAN, Complete(c, [thread[a] EXCEPT !.approved = yes]),
               ~yes => row[a].reason = Asked
        PROVE  OrderInv'
    <3>1. PICK update : update = [thread[a] EXCEPT !.approved = yes]
      OBVIOUS
    <3>2. update \in Checkpoints /\ update.next = thread[a].next
      BY <1>3, <3>1 DEF Checkpoints
    <3>3. update.approved <=> yes
      BY <1>3, <3>1 DEF Checkpoints
    <3>4. Complete(c, update)
      BY <2>3, <3>1
    <3>5. QED
      BY <1>1, <1>2, <2>3, <3>2, <3>3, <3>4, OrderComplete
  <2>4. CASE Complete(c, [call[c].mem EXCEPT !.approved = TRUE])
    BY <1>3, <2>3, <2>4
  <2>5. CASE /\ Answered(c, ApprovalQuestion)
             /\ Complete(c, [call[c].mem EXCEPT !.approved = Answers(c)[1] = "approve"])
    <3>1. Len(Answers(c)) >= 1
      BY <2>5, GateQuestions DEF Answered, ApprovalQuestion
    <3>2. call[c].pay # "none"
      BY <1>3, <2>1, <3>1 DEF Answers
    <3>3. row[a].reason = Asked
      BY <1>4, <2>1, <3>2 DEF MeetsGate
    <3>4. PICK yes \in BOOLEAN : yes = (Answers(c)[1] = "approve")
      OBVIOUS
    <3>5. QED
      BY <1>3, <2>3, <2>5, <3>3, <3>4
  <2>6. QED
    BY <1>8, <2>2, <2>4, <2>5 DEF ManualApproval
<1>9. CASE FinalizeApplication(c)
  <2>1. thread[a].next = "finalize_application" /\ thread[a].next \in Decided
    BY <1>3, <1>9 DEF FinalizeApplication, At, Decided
  <2>2. row[a].status \notin Outcomes
    BY <1>3, <2>1 DEF AppInv, Tables
  <2>3. PICK status \in Outcomes : status = FinalStatus(thread[a])
    BY DEF FinalStatus, Outcomes, Approved
  <2>4. PICK update : update = [thread[a] EXCEPT !.status = status]
    OBVIOUS
  <2>5. update \in Checkpoints /\ update.next = thread[a].next
    BY <1>3, <2>3, <2>4 DEF Checkpoints
  <2>6. update.approved <=> thread[a].approved
    BY <1>3, <2>4 DEF Checkpoints
  <2>7. Complete(c, update)
    BY <1>3, <1>9, <2>3, <2>4 DEF FinalizeApplication
  <2>8. ~update.approved => row[a].reason = Asked
    BY <1>4, <2>1, <2>2, <2>6 DEF RowOrder
  <2>9. QED
    BY <1>1, <1>2, <2>5, <2>7, <2>8, OrderComplete
<1>10. QED
  BY <1>5, <1>6, <1>7, <1>8, <1>9 DEF RunNode

LEMMA OrderSend ==
  ASSUME ConstantsAssumption, TypeOK, QueueMirrorsRow, SerialInv, OrderInv, Serial,
         NEW c \in Call, NEW a \in App, NEW p \in Payloads,
         NEW label \in {"lookup", "load"}, NEW view, Send(c, a, p, label, view)
  PROVE  OrderInv'
<1>1. /\ call[c].pc = "idle"
      /\ \A d \in Call : call[d].app # a
      /\ call' = [call EXCEPT ![c].pc = label, ![c].app = a, ![c].pay = p, ![c].view = view]
      /\ UNCHANGED <<thread, row>>
  BY DEF Send, OperatorMayAnswer, InFlight, db
<1>2. call[c].app = NoApp
  BY <1>1 DEF SerialInv, SerialCall
<1>3. /\ call'[c].app = a /\ call'[c].pay = p
      /\ \A d \in Call \ {c} : call'[d] = call[d]
  BY <1>1 DEF TypeOK, Calls
<1>4. AppInv(a) /\ PCs(a) = {}
  <2>1. {d \in Call : call[d].app = a} = {}
    BY <1>1
  <2>2. QED
    BY <2>1 DEF SerialInv, PCs
<1>5. thread[a].next = "manual_approval" => row[a].reason = Asked
  <2>1. thread[a].next = "manual_approval" => thread[a].waiting = Asked
    BY <1>4 DEF AppInv, Gate, Tables
  <2>2. thread[a].waiting = Asked => queue[a].status = "pending" /\ queue[a].reason = Asked
    BY <1>4 DEF AppInv, Tables, Asked
  <2>3. QED
    BY <2>1, <2>2 DEF QueueMirrorsRow
<1>6. AroundRow(c, a)
  BY <1>1, <1>2, <1>3 DEF AroundRow, Around
<1>7. RowOrder(thread[a], row[a])
  BY DEF OrderInv
<1>8. OrderAt(c, a)'
  BY <1>1, <1>5, <1>7 DEF OrderAt, MeetsGate, RowOrder
<1>9. QED
  BY <1>6, <1>8, OrderAround

LEMMA OrderCreateRow ==
  ASSUME ConstantsAssumption, TypeOK, SerialInv, OrderInv, NEW c \in Call, CreateRow(c)
  PROVE  OrderInv'
<1>1. PICK a \in App :
        /\ row[a].status = "absent"
        /\ row' = [row EXCEPT ![a] = [job |-> call[c].job, status |-> "waiting_human",
                                      reason |-> "none"]]
        /\ call' = [call EXCEPT ![c].pc = "invoke", ![c].app = a]
  BY DEF CreateRow
<1>2. call[c].pc = "create" /\ thread' = thread
  BY DEF CreateRow
<1>3. call[c].app = NoApp
  BY <1>2 DEF SerialInv, SerialCall
<1>4. \A d \in Call : call[d].app # a
  BY <1>1 DEF SerialInv, SerialCall, HandlerInv, ConstantsAssumption
<1>5. /\ call'[c].app = a
      /\ \A d \in Call \ {c} : call'[d] = call[d]
  BY <1>1 DEF TypeOK, Calls
<1>6. /\ row'[a].status = "waiting_human" /\ row'[a].reason = "none"
      /\ \A b \in App \ {a} : row'[b] = row[b]
  BY <1>1 DEF TypeOK
<1>7. thread[a].next = "absent" /\ thread[a].waiting = "none"
  BY <1>1 DEF SerialInv, AppInv, Tables, Gate
<1>8. AroundRow(c, a)
  BY <1>2, <1>3, <1>4, <1>5, <1>6 DEF AroundRow, Around
<1>9. OrderAt(c, a)'
  BY <1>2, <1>6, <1>7 DEF OrderAt, MeetsGate, RowOrder, Decided
<1>10. QED
  BY <1>8, <1>9, OrderAround

LEMMA OrderInvoke ==
  ASSUME ConstantsAssumption, TypeOK, SerialInv, OrderInv, NEW c \in Call, Invoke(c)
  PROVE  OrderInv'
<1>1. PICK m : /\ WriteCheckpoint(c, m, "run")
               /\ m.next = "detect_and_map_fields" /\ m.waiting = "none"
  <2>1. PICK list, unknown, strong :
          WriteCheckpoint(c, [NoCheckpoint EXCEPT !.next = "detect_and_map_fields",
                                !.pages = list, !.form_unknown = unknown, !.strong = strong],
                          "run")
    BY DEF Invoke
  <2>2. PICK m : m = [NoCheckpoint EXCEPT !.next = "detect_and_map_fields",
                        !.pages = list, !.form_unknown = unknown, !.strong = strong]
    OBVIOUS
  <2>3. m.next = "detect_and_map_fields" /\ m.waiting = "none"
    BY <2>2 DEF NoCheckpoint
  <2>4. QED
    BY <2>1, <2>2, <2>3
<1>2. call[c].pc = "invoke" /\ row' = row
  BY DEF Invoke, db
<1>3. PICK a \in App : a = call[c].app
  BY <1>2, WorksAlone
<1>4. thread[a].next = "absent"
  BY <1>2, <1>3, WorksAlone DEF HandlerInv
<1>5. RowOrder(thread[a], row[a]) /\ row[a] \in Rows
  BY DEF OrderInv, TypeOK
<1>6. row[a].reason = "none"
  <2>1. row[a].reason # "none" => Stage[row[a].reason] \in 2 .. 4 /\ Stage[row[a].reason] <= 0
    BY <1>4, <1>5, Stages DEF RowOrder, Rows
  <2>2. QED
    BY <2>1
<1>7. RowOrder(m, row[a])
  BY <1>1, <1>5, <1>6 DEF RowOrder, Decided
<1>8. QED
  BY <1>1, <1>2, <1>3, <1>7, OrderWrite

LEMMA OrderBrowserFails ==
  ASSUME ConstantsAssumption, TypeOK, SerialInv, OrderInv, NEW c \in Call, BrowserFails(c)
  PROVE  OrderInv'
<1>1. call[c].pc = "run" /\ Return(c) /\ row' = row
  BY DEF BrowserFails, At, db
<1>2. PICK a \in App : a = call[c].app
  BY <1>1, WorksAlone
<1>3. /\ \A d \in Call \ {c} : call[d].app # a
      /\ thread[a] \in Checkpoints
  BY <1>1, <1>2, RunsAlone
<1>4. \/ thread' = thread
      \/ thread' = [thread EXCEPT ![a].answers = Answers(c)]
  BY <1>2 DEF BrowserFails
<1>5. /\ \A b \in App \ {a} : thread'[b] = thread[b]
      /\ thread'[a].next = thread[a].next /\ thread'[a].waiting = thread[a].waiting
  BY <1>3, <1>4 DEF TypeOK, Checkpoints
<1>6. thread'[a].approved = thread[a].approved
  BY <1>3, <1>4 DEF TypeOK, Checkpoints
<1>7. /\ call'[c].app = NoApp /\ NoApp # a
      /\ \A d \in Call \ {c} : call'[d] = call[d]
  BY <1>1 DEF Return, TypeOK, Idle, ConstantsAssumption
<1>8. AroundRow(c, a)
  BY <1>1, <1>2, <1>3, <1>5, <1>7 DEF AroundRow, Around
<1>9. RowOrder(thread[a], row[a])
  BY DEF OrderInv
<1>10. OrderAt(c, a)'
  BY <1>1, <1>5, <1>6, <1>7, <1>9 DEF OrderAt, RowOrder
<1>11. QED
  BY <1>8, <1>10, OrderAround

(* What persist_application_result makes of the row.                       *)
LEMMA Persisted ==
  ASSUME ConstantsAssumption, TypeOK, SerialInv, OrderInv, NEW c \in Call, PersistResult(c)
  PROVE  \E a \in App :
           /\ \A d \in Call \ {c} : call[d].app # a
           /\ call[c].app = a /\ call'[c].app = NoApp
           /\ \A d \in Call \ {c} : call'[d] = call[d]
           /\ thread' = thread
           /\ \A b \in App \ {a} : row'[b] = row[b]
           /\ row[a].status # "absent" /\ row'[a].job = row[a].job
           /\ \/ /\ thread[a].waiting \in Questions /\ thread[a].next \notin Decided
                 /\ row[a].status = "waiting_human"
                 /\ row'[a].status = "waiting_human" /\ row'[a].reason = thread[a].waiting
              \/ /\ thread[a].next = "END" /\ thread[a].status \in Outcomes
                 /\ row[a].status \in {"waiting_human", thread[a].status}
                 /\ row'[a].status = thread[a].status /\ row'[a].reason = "none"
<1>1. call[c].pc = "persist" /\ Return(c) /\ thread' = thread
  BY DEF PersistResult
<1>2. PICK a \in App : a = call[c].app
  BY <1>1, WorksAlone
<1>3. /\ \A d \in Call \ {c} : call[d].app # a
      /\ AppInv(a) /\ call[c].mem = thread[a]
      /\ row[a].status # "absent"
      /\ thread[a].waiting # "none" \/ thread[a].next = "END"
  BY <1>1, <1>2, WorksAlone DEF HandlerInv
<1>4. /\ call'[c].app = NoApp
      /\ \A d \in Call \ {c} : call'[d] = call[d]
  BY <1>1 DEF Return, TypeOK, Idle
<1>5. \A b \in App \ {a} : row'[b] = row[b]
  BY <1>2 DEF PersistResult, TypeOK
<1>6. /\ row[a].status \in {"waiting_human"} \cup Outcomes
      /\ thread[a] \in Checkpoints
  BY <1>3 DEF TypeOK, Rows, OrderInv, RowOrder
<1>7. CASE thread[a].waiting # "none"
  <2>1. row' = [row EXCEPT ![a].status = "waiting_human", ![a].reason = thread[a].waiting]
    BY <1>2, <1>3, <1>7 DEF PersistResult
  <2>2. /\ row'[a].status = "waiting_human" /\ row'[a].reason = thread[a].waiting
        /\ row'[a].job = row[a].job
    BY <2>1 DEF TypeOK, Rows
  <2>3. thread[a].waiting \in Questions /\ thread[a].next \notin Decided
    BY <1>3, <1>6, <1>7 DEF AppInv, Gate, Checkpoints
  <2>4. row[a].status = "waiting_human"
    BY <1>3, <1>6, <2>3 DEF AppInv, Tables, Decided
  <2>5. QED
    BY <1>1, <1>2, <1>3, <1>4, <1>5, <2>2, <2>3, <2>4
<1>8. CASE thread[a].waiting = "none"
  <2>1. row' = [row EXCEPT ![a].status = RowStatus(thread[a]), ![a].reason = "none"]
    BY <1>2, <1>3, <1>8 DEF PersistResult
  <2>2. thread[a].next = "END" /\ thread[a].status \in Outcomes
    BY <1>3, <1>8 DEF AppInv, Outcome
  <2>3. RowStatus(thread[a]) = thread[a].status
    BY <2>2 DEF RowStatus, Outcomes, Approved
  <2>4. /\ row'[a].status = thread[a].status /\ row'[a].reason = "none"
        /\ row'[a].job = row[a].job
    BY <2>1, <2>3 DEF TypeOK, Rows
  <2>5. row[a].status \in {"waiting_human", thread[a].status}
    BY <1>3, <1>6 DEF AppInv, Tables
  <2>6. QED
    BY <1>1, <1>2, <1>3, <1>4, <1>5, <2>2, <2>4, <2>5
<1>9. QED
  BY <1>7, <1>8

LEMMA OrderPersistResult ==
  ASSUME ConstantsAssumption, TypeOK, SerialInv, OrderInv, NEW c \in Call, PersistResult(c)
  PROVE  OrderInv'
<1>1. PICK a \in App :
        /\ \A d \in Call \ {c} : call[d].app # a
        /\ call[c].app = a /\ call'[c].app = NoApp
        /\ \A d \in Call \ {c} : call'[d] = call[d]
        /\ thread' = thread
        /\ \A b \in App \ {a} : row'[b] = row[b]
        /\ row[a].status # "absent"
        /\ \/ /\ thread[a].waiting \in Questions /\ thread[a].next \notin Decided
              /\ row'[a].status = "waiting_human" /\ row'[a].reason = thread[a].waiting
           \/ /\ thread[a].next = "END" /\ thread[a].status \in Outcomes
              /\ row'[a].status = thread[a].status /\ row'[a].reason = "none"
  BY Persisted
<1>2. a # NoApp
  BY DEF ConstantsAssumption
<1>3. AroundRow(c, a)
  BY <1>1 DEF AroundRow, Around
<1>4. RowOrder(thread[a], row[a])
  BY DEF OrderInv
<1>5. RowOrder(thread[a], row'[a])
  <2>1. CASE thread[a].waiting \in Questions
    <3>1. /\ thread[a].waiting # "none" /\ Stage[thread[a].waiting] = StageOf[thread[a].next]
          /\ Stage[thread[a].waiting] \in 2 .. 4
      BY <1>4, <2>1, Stages DEF RowOrder, Questions
    <3>2. CASE thread[a].next \notin Decided
      BY <1>1, <3>1, <3>2 DEF RowOrder, Outcomes, Approved, Decided
    <3>3. CASE thread[a].next \in Decided
      BY <1>1, <1>4, <3>3 DEF RowOrder, Outcomes, Approved, Decided
    <3>4. QED
      BY <3>2, <3>3
  <2>2. CASE thread[a].waiting \notin Questions
    BY <1>1, <1>4, <2>2 DEF RowOrder, Outcomes, Approved
  <2>3. QED
    BY <2>1, <2>2
<1>6. OrderAt(c, a)'
  BY <1>1, <1>2, <1>5 DEF OrderAt, RowOrder
<1>7. QED
  BY <1>3, <1>6, OrderAround

LEMMA OrderStep ==
  Steady /\ TypeOK /\ QueueMirrorsRow /\ SerialInv /\ OrderInv /\ [Next]_vars => OrderInv'
<1> SUFFICES ASSUME Steady, TypeOK, QueueMirrorsRow, SerialInv, OrderInv, [Next]_vars
             PROVE  OrderInv'
  OBVIOUS
<1> USE ConstantsAssumption
<1>1. ASSUME NEW c \in Call, NEW j \in Job, CheckDuplicate(c, j) PROVE OrderInv'
  <2>1. \A d \in Call : call'[d].app = call[d].app /\ call'[d].pay = call[d].pay
    BY <1>1 DEF CheckDuplicate, TypeOK, Calls
  <2>2. QED
    BY <1>1, <2>1, OrderQuiet DEF CheckDuplicate, db
<1>2. ASSUME NEW c \in Call, NEW a \in App, NEW p \in Payloads,
             Answer(c, a, p) \/ ResumeDirect(c, a, p)
      PROVE  OrderInv'
  BY <1>2, OrderSend DEF Answer, ResumeDirect, Steady
<1>3. ASSUME NEW c \in Call, Lookup(c) \/ Load(c) PROVE OrderInv'
  <2>1. UNCHANGED <<thread, row>>
    BY <1>3 DEF Lookup, Load, db
  <2>2. CASE Return(c)
    <3>1. /\ call'[c].app = NoApp /\ \A d \in Call \ {c} : call'[d] = call[d]
      BY <2>2 DEF Return, Idle, TypeOK
    <3>2. QED
      BY <2>1, <3>1, OrderQuiet
  <2>3. CASE call' = [call EXCEPT ![c].pc = "load"]
    <3>1. \A d \in Call : call'[d].app = call[d].app /\ call'[d].pay = call[d].pay
      BY <2>3 DEF TypeOK, Calls
    <3>2. QED
      BY <2>1, <3>1, OrderQuiet
  <2>4. ASSUME NEW label, NEW m,
               call' = [call EXCEPT ![c].pc = label, ![c].mem = m, ![c].latest = TRUE]
        PROVE  OrderInv'
    <3>1. \A d \in Call : call'[d].app = call[d].app /\ call'[d].pay = call[d].pay
      BY <2>4 DEF TypeOK, Calls
    <3>2. QED
      BY <2>1, <3>1, OrderQuiet
  <2>5. QED
    BY <1>3, <2>2, <2>3, <2>4 DEF Lookup, Load
<1>4. ASSUME NEW c \in Call, Proceed(c) PROVE OrderInv'
  BY <1>3, <1>4, OrderCreateRow, OrderInvoke, OrderNode, OrderPersistResult DEF Proceed
<1>5. ASSUME NEW c \in Call, BrowserFails(c) PROVE OrderInv'
  BY <1>5, OrderBrowserFails
<1>6. ~Crash /\ ~EditMode
  BY DEF Crash, EditMode, Steady
<1>7. CASE UNCHANGED vars
  BY <1>7, OrderQuiet DEF vars
<1>8. QED
  BY <1>1, <1>2, <1>4, <1>5, <1>6, <1>7 DEF Next

LEMMA InitIsOrdered == Init => OrderInv
<1> SUFFICES ASSUME Init PROVE OrderInv
  OBVIOUS
<1>1. \A a \in App : RowOrder(thread[a], row[a])
  BY DEF Init, RowOrder, NoCheckpoint, Decided
<1>2. \A c \in Call : call[c].app \notin App
  BY ConstantsAssumption DEF Init, Idle
<1>3. QED
  BY <1>1, <1>2 DEF OrderInv

-----------------------------------------------------------------------------
(* Step simulation.                                                        *)
LEMMA PhaseFacts ==
  ASSUME NEW r \in Rows, r.status # "completed"
  PROVE  /\ r.status = "absent" => PhaseOf(r) = "absent"
         /\ r.status \in Outcomes => PhaseOf(r) = r.status
         /\ r.status = "waiting_human" =>
              PhaseOf(r) = IF r.reason = "none" THEN "opened" ELSE r.reason
BY DEF PhaseOf, Outcomes, Approved

LEMMA CreateRowOpens ==
  ASSUME TypeOK, StartsHaveJobs, NEW c \in Call, CreateRow(c)
  PROVE  Lifecycle!Next
<1>1. PICK a \in App :
        /\ row[a].status = "absent"
        /\ row' = [row EXCEPT ![a] = [job |-> call[c].job, status |-> "waiting_human",
                                      reason |-> "none"]]
  BY DEF CreateRow
<1>2. PICK j \in Job : j = call[c].job
  BY DEF CreateRow, StartsHaveJobs
<1>3. /\ row'[a].job = j /\ row'[a].status = "waiting_human" /\ row'[a].reason = "none"
      /\ \A b \in App \ {a} : row'[b] = row[b]
  BY <1>1, <1>2 DEF TypeOK
<1>4. PhaseOf(row[a]) = "absent" /\ PhaseOf(row'[a]) = "opened"
  BY <1>1, <1>3 DEF PhaseOf, Outcomes, Approved
<1>5. Phase[a] = "absent" /\ Phase' = [Phase EXCEPT ![a] = "opened"]
  BY <1>3, <1>4 DEF Phase
<1>6. [b \in App |-> row'[b].job] = [[b \in App |-> row[b].job] EXCEPT ![a] = j]
  BY <1>3
<1>7. Lifecycle!Open(a, j)
  BY <1>2, <1>5, <1>6 DEF Lifecycle!Open
<1>8. QED
  BY <1>7 DEF Lifecycle!Next

LEMMA PersistSimulates ==
  ASSUME ConstantsAssumption, TypeOK, SerialInv, OrderInv, NEW c \in Call, PersistResult(c)
  PROVE  [Lifecycle!Next]_Lifecycle!vars
<1>1. PICK a \in App :
        /\ thread' = thread
        /\ \A b \in App \ {a} : row'[b] = row[b]
        /\ row[a].status # "absent" /\ row'[a].job = row[a].job
        /\ \/ /\ thread[a].waiting \in Questions /\ thread[a].next \notin Decided
              /\ row[a].status = "waiting_human"
              /\ row'[a].status = "waiting_human" /\ row'[a].reason = thread[a].waiting
           \/ /\ thread[a].next = "END" /\ thread[a].status \in Outcomes
              /\ row[a].status \in {"waiting_human", thread[a].status}
              /\ row'[a].status = thread[a].status /\ row'[a].reason = "none"
  BY Persisted
<1>2. RowOrder(thread[a], row[a]) /\ row[a] \in Rows
  BY DEF OrderInv, TypeOK
<1>3. [b \in App |-> row'[b].job] = [b \in App |-> row[b].job]
  BY <1>1
<1>4. ASSUME NEW phase, PhaseOf(row'[a]) = phase PROVE Phase' = [Phase EXCEPT ![a] = phase]
  BY <1>1, <1>4 DEF Phase
<1>5. PICK now : now = PhaseOf(row[a])
  OBVIOUS
<1>6. Phase[a] = now
  BY <1>5 DEF Phase
<1>7. CASE row[a].status = "waiting_human"
  <2>1. /\ now = IF row[a].reason = "none" THEN "opened" ELSE row[a].reason
        /\ row[a].reason # "none" => row[a].reason \in Questions
    BY <1>2, <1>5, <1>7, PhaseFacts DEF Rows
  <2>2. Stage[now] \in 1 .. 4 /\ now # "absent"
    BY <2>1, Stages DEF Questions
  <2>3. CASE thread[a].waiting \in Questions /\ row'[a].status = "waiting_human"
             /\ row'[a].reason = thread[a].waiting
    <3>1. PICK q \in Questions : q = thread[a].waiting
      BY <2>3
    <3>2. q # "none" /\ Stage[q] = StageOf[thread[a].next]
      BY <1>2, <3>1 DEF RowOrder, Questions
    <3>3. Stage[now] <= Stage[q]
      <4>1. CASE row[a].reason = "none"
        BY <2>1, <4>1, Stages
      <4>2. CASE row[a].reason # "none"
        BY <1>2, <2>1, <3>2, <4>2 DEF RowOrder
      <4>3. QED
        BY <4>1, <4>2
    <3>4. PhaseOf(row'[a]) = q
      BY <2>3, <3>1, <3>2 DEF PhaseOf, Outcomes, Approved
    <3>5. Lifecycle!Ask(a, q)
      BY <1>3, <1>4, <1>6, <2>2, <3>3, <3>4 DEF Lifecycle!Ask, Stage
    <3>6. q \in {"UNKNOWN_REQUIRED_FIELD", "OTP_REQUIRED", "CAPTCHA_REQUIRED",
                 "MANUAL_APPROVAL_REQUIRED"}
      BY DEF Questions
    <3>7. QED
      BY <3>5, <3>6 DEF Lifecycle!Next
  <2>4. CASE /\ thread[a].next = "END" /\ thread[a].status \in Outcomes
             /\ row'[a].status = thread[a].status
    <3>1. PhaseOf(row'[a]) = thread[a].status
      BY <2>4 DEF PhaseOf, Outcomes, Approved
    <3>2. CASE thread[a].status = "rejected_by_human"
      <4>1. ~thread[a].approved
        BY <2>4, <3>2 DEF SerialInv, AppInv, Outcome
      <4>2. row[a].reason = Asked
        BY <1>2, <1>7, <2>4, <4>1 DEF RowOrder, Decided, Outcomes, Approved
      <4>3. now = "MANUAL_APPROVAL_REQUIRED"
        BY <2>1, <4>2 DEF Asked
      <4>4. Lifecycle!Decline(a)
        BY <1>3, <1>4, <1>6, <3>1, <3>2, <4>3 DEF Lifecycle!Decline
      <4>5. QED
        BY <4>4 DEF Lifecycle!Next
    <3>3. CASE thread[a].status \in Approved
      <4>1. Lifecycle!Accept(a, thread[a].status)
        BY <1>3, <1>4, <1>6, <2>2, <3>1 DEF Lifecycle!Accept, Stage
      <4>2. QED
        BY <3>3, <4>1 DEF Lifecycle!Next, Approved
    <3>4. QED
      BY <2>4, <3>2, <3>3 DEF Outcomes
  <2>5. QED
    BY <1>1, <2>3, <2>4
<1>8. CASE row[a].status # "waiting_human"
  <2>1. /\ thread[a].status \in Outcomes /\ row[a].status = thread[a].status
        /\ row'[a].status = thread[a].status
    BY <1>1, <1>8
  <2>2. PhaseOf(row[a]) = thread[a].status /\ PhaseOf(row'[a]) = thread[a].status
    BY <2>1 DEF PhaseOf, Outcomes, Approved
  <2>3. Phase' = Phase
    BY <1>1, <2>2 DEF Phase
  <2>4. QED
    BY <1>3, <2>3 DEF Lifecycle!vars
<1>9. QED
  BY <1>7, <1>8

LEMMA RowStep ==
  ASSUME Steady, TypeOK, SerialInv, StartsHaveJobs, OrderInv, [Next]_vars
  PROVE  [Lifecycle!Next]_Lifecycle!vars
<1> USE ConstantsAssumption
<1>1. ASSUME UNCHANGED row PROVE UNCHANGED Lifecycle!vars
  BY <1>1 DEF Lifecycle!vars, Phase
<1>2. ASSUME NEW c \in Call, RunNode(c) PROVE UNCHANGED row
  BY <1>2 DEF RunNode, DetectAndMapFields, FillAndValidate, CheckChallenges, ManualApproval,
     FinalizeApplication, Complete, Pause, db
<1>3. ASSUME NEW c \in Call, Proceed(c) PROVE [Lifecycle!Next]_Lifecycle!vars
  <2>1. CASE CreateRow(c)
    BY <2>1, CreateRowOpens
  <2>2. CASE PersistResult(c)
    BY <2>2, PersistSimulates
  <2>3. CASE Invoke(c) \/ Lookup(c) \/ Load(c) \/ RunNode(c)
    BY <1>1, <1>2, <2>3 DEF Invoke, Lookup, Load, db
  <2>4. QED
    BY <1>3, <2>1, <2>2, <2>3 DEF Proceed
<1>4. ASSUME \/ \E c \in Call, j \in Job : CheckDuplicate(c, j)
             \/ \E c \in Call, a \in App, p \in Payloads : Answer(c, a, p)
             \/ \E c \in Call, a \in App, p \in Payloads : ResumeDirect(c, a, p)
             \/ \E c \in Call : BrowserFails(c)
             \/ UNCHANGED vars
      PROVE  UNCHANGED row
  BY <1>4 DEF CheckDuplicate, Answer, ResumeDirect, Send, BrowserFails, vars, db
<1>5. ~Crash /\ ~EditMode
  BY DEF Crash, EditMode, Steady
<1>6. QED
  BY <1>1, <1>3, <1>4, <1>5 DEF Next

LEMMA RowInit == Init => Lifecycle!Init
<1> SUFFICES ASSUME Init PROVE Lifecycle!Init
  OBVIOUS
<1>1. \A a \in App : row[a].job = NoJob /\ PhaseOf(row[a]) = "absent"
  BY DEF Init, PhaseOf
<1>2. QED
  BY <1>1 DEF Lifecycle!Init, Phase

LEMMA JobsAreInvariant == Spec => []StartsHaveJobs
<1>1. Init => StartsHaveJobs
  BY DEF Init, StartsHaveJobs, Idle
<1>2. TypeOK /\ StartsHaveJobs /\ [Next]_vars => StartsHaveJobs'
  <2> SUFFICES ASSUME TypeOK, StartsHaveJobs, [Next]_vars PROVE StartsHaveJobs'
    OBVIOUS
  <2>1. ASSUME NEW c \in Call, NEW j \in Job, CheckDuplicate(c, j) PROVE StartsHaveJobs'
    BY <2>1 DEF CheckDuplicate, StartsHaveJobs, TypeOK, Calls
  <2>2. ASSUME \A d \in Call : call'[d].pc = "create"
                 => call[d].pc = "create" /\ call'[d].job = call[d].job
        PROVE  StartsHaveJobs'
    BY <2>2 DEF StartsHaveJobs
  <2>3. ASSUME NEW c \in Call, NEW m, NEW label \in {"run", "persist"}, WriteCheckpoint(c, m, label)
        PROVE  StartsHaveJobs'
    <3>1. ASSUME NEW d \in Call, call'[d].pc = "create"
          PROVE  call[d].pc = "create" /\ call'[d].job = call[d].job
      <4>1. call[d] \in Calls
        BY DEF TypeOK
      <4>2. CASE d = c
        BY <2>3, <3>1, <4>1, <4>2 DEF WriteCheckpoint, Calls
      <4>3. CASE d # c
        BY <2>3, <3>1, <4>1, <4>3 DEF WriteCheckpoint, Calls
      <4>4. QED
        BY <4>2, <4>3
    <3>2. QED
      BY <2>2, <3>1
  <2>4. ASSUME NEW c \in Call, Return(c) PROVE StartsHaveJobs'
    BY <2>2, <2>4 DEF Return, Idle, TypeOK
  <2>5. ASSUME NEW c \in Call, NEW update, Complete(c, update) PROVE StartsHaveJobs'
    <3> DEFINE next == Successor[update.next]
               m == [update EXCEPT !.next = next, !.answers = <<>>, !.waiting = "none"]
               label == IF next = "END" THEN "persist" ELSE "run"
    <3>1. WriteCheckpoint(c, m, label)
      BY <2>5 DEF Complete
    <3>2. label \in {"run", "persist"}
      OBVIOUS
    <3>3. QED
      BY <2>3, <3>1, <3>2
  <2>6. ASSUME NEW c \in Call, NEW list, Pause(c, list) PROVE StartsHaveJobs'
    <3>1. PICK k \in DOMAIN list :
            LET m == [call[c].mem EXCEPT !.answers = Answers(c), !.waiting = list[k]]
            IN call' = [call EXCEPT ![c].pc = "persist", ![c].pay = "none", ![c].mem = m]
      BY <2>6 DEF Pause
    <3>2. QED
      BY <2>2, <3>1 DEF TypeOK, Calls
  <2>7. ASSUME NEW c \in Call, RunNode(c) PROVE StartsHaveJobs'
    BY <2>5, <2>6, <2>7 DEF RunNode, DetectAndMapFields, FillAndValidate, CheckChallenges,
       ManualApproval, FinalizeApplication
  <2>8. ASSUME NEW c \in Call, CreateRow(c) \/ Lookup(c) \/ Load(c) PROVE StartsHaveJobs'
    <3>1. \/ Return(c)
          \/ \E a \in App : call' = [call EXCEPT ![c].pc = "invoke", ![c].app = a]
          \/ call' = [call EXCEPT ![c].pc = "load"]
          \/ \E label \in {"run", "persist"} : \E m :
               call' = [call EXCEPT ![c].pc = label, ![c].mem = m, ![c].latest = TRUE]
      BY <2>8 DEF CreateRow, Lookup, Load
    <3>2. \A d \in Call : call[d] \in Calls
      BY DEF TypeOK
    <3>3. CASE \E a \in App : call' = [call EXCEPT ![c].pc = "invoke", ![c].app = a]
      BY <2>2, <3>2, <3>3 DEF TypeOK, Calls
    <3>4. CASE call' = [call EXCEPT ![c].pc = "load"]
      BY <2>2, <3>2, <3>4 DEF TypeOK, Calls
    <3>5. ASSUME NEW label \in {"run", "persist"}, NEW m,
                 call' = [call EXCEPT ![c].pc = label, ![c].mem = m, ![c].latest = TRUE]
          PROVE  StartsHaveJobs'
      <4>1. \A d \in Call : call'[d].pc = "create"
                 => call[d].pc = "create" /\ call'[d].job = call[d].job
        BY <3>2, <3>5 DEF TypeOK, Calls
      <4>2. QED
        BY <2>2, <4>1
    <3>6. QED
      BY <2>4, <3>1, <3>3, <3>4, <3>5
  <2>9. ASSUME NEW c \in Call, Proceed(c) PROVE StartsHaveJobs'
    <3>1. CASE Invoke(c)
      BY <2>3, <3>1 DEF Invoke
    <3>2. CASE PersistResult(c)
      BY <2>4, <3>2 DEF PersistResult, RowStatus
    <3>3. QED
      BY <2>7, <2>8, <2>9, <3>1, <3>2 DEF Proceed
  <2>10. ASSUME NEW c \in Call, NEW a \in App, NEW p \in Payloads,
                Answer(c, a, p) \/ ResumeDirect(c, a, p)
         PROVE  StartsHaveJobs'
    BY <2>2, <2>10 DEF Answer, ResumeDirect, Send, TypeOK, Calls
  <2>11. ASSUME NEW c \in Call, BrowserFails(c) PROVE StartsHaveJobs'
    BY <2>4, <2>11 DEF BrowserFails
  <2>12. CASE Crash
    BY <2>12 DEF Crash, StartsHaveJobs, Idle
  <2>13. CASE EditMode \/ UNCHANGED vars
    BY <2>2, <2>13 DEF EditMode, vars
  <2>14. QED
    BY <2>1, <2>9, <2>10, <2>11, <2>12, <2>13 DEF Next
<1>3. QED
  BY <1>1, <1>2, TypeCorrect, PTL DEF Spec

(* apply_nodes.py:158-296: the question a row waits with is never ahead of  *)
(* the node its checkpoint waits at, and an application that is decided     *)
(* without a mode that waives it was asked for its approval, for an         *)
(* operator who waits, any pages and browser failures.                      *)
THEOREM OrderIsInvariant == ASSUME Steady PROVE Spec => []OrderInv
<1>1. TypeOK /\ QueueMirrorsRow /\ SerialInv /\ OrderInv /\ [Next]_vars => OrderInv'
  BY OrderStep
<1>2. QED
  BY <1>1, InitIsOrdered, TypeCorrect, QueueMirrorsRowHolds, SerialIsInvariant, PTL DEF Spec

(* For an operator who waits, the applications table is the abstract one:  *)
(* questions in the order of the form however often a node is executed, a  *)
(* rejection only out of the approval question, and a job and an outcome   *)
(* that no later call changes.                                             *)
THEOREM ImplementsLifecycleHolds == ASSUME Steady PROVE Spec => ImplementsLifecycle
<1>1. TypeOK /\ SerialInv /\ StartsHaveJobs /\ OrderInv /\ [Next]_vars
        => [Lifecycle!Next]_Lifecycle!vars
  BY RowStep
<1>2. Spec => []StartsHaveJobs
  BY JobsAreInvariant
<1>3. QED
  BY <1>1, <1>2, RowInit, TypeCorrect, SerialIsInvariant, OrderIsInvariant, PTL
     DEF Spec, ImplementsLifecycle, Lifecycle!Spec
=============================================================================
