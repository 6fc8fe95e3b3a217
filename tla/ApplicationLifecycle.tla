------------------------ MODULE ApplicationLifecycle ------------------------
(***************************************************************************)
(* What the applications table promises its readers, without handlers,     *)
(* checkpoints or calls: questions in the order of the form, rejection     *)
(* only by an operator at the approval question, and a job and an outcome  *)
(* that stay.                                                              *)
(***************************************************************************)
EXTENDS Naturals

CONSTANTS App, Job, NoJob

VARIABLES
  job,      \* the job of an application, NoJob while it does not exist
  phase     \* what its row shows

vars == <<job, phase>>

Outcomes == {"rejected_by_human", "dry_run_ready", "submitted_mock"}

(* The stage of the form a question belongs to.                            *)
Stage == [absent |-> 0, opened |-> 1, UNKNOWN_REQUIRED_FIELD |-> 2, OTP_REQUIRED |-> 3,
          CAPTCHA_REQUIRED |-> 3, MANUAL_APPROVAL_REQUIRED |-> 4,
          rejected_by_human |-> 5, dry_run_ready |-> 5, submitted_mock |-> 5]

Open(a, j) ==
  /\ phase[a] = "absent"
  /\ job'   = [job EXCEPT ![a] = j]
  /\ phase' = [phase EXCEPT ![a] = "opened"]

Ask(a, question) ==
  /\ phase[a] # "absent"
  /\ Stage[phase[a]] <= Stage[question]
  /\ phase' = [phase EXCEPT ![a] = question]
  /\ UNCHANGED job

Decline(a) ==
  /\ phase[a] = "MANUAL_APPROVAL_REQUIRED"
  /\ phase' = [phase EXCEPT ![a] = "rejected_by_human"]
  /\ UNCHANGED job

Accept(a, outcome) ==
  /\ Stage[phase[a]] \in 1 .. 4
  /\ phase' = [phase EXCEPT ![a] = outcome]
  /\ UNCHANGED job

Init ==
  /\ job   = [a \in App |-> NoJob]
  /\ phase = [a \in App |-> "absent"]

Next ==
  \E a \in App :
    \/ \E j \in Job : Open(a, j)
    \/ \E q \in {"UNKNOWN_REQUIRED_FIELD", "OTP_REQUIRED", "CAPTCHA_REQUIRED",
                 "MANUAL_APPROVAL_REQUIRED"} : Ask(a, q)
    \/ Decline(a)
    \/ \E o \in {"dry_run_ready", "submitted_mock"} : Accept(a, o)

Spec == Init /\ [][Next]_vars
=============================================================================
