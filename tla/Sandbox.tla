-------------------------------- MODULE Sandbox -------------------------------
(***************************************************************************)
(* core/sandbox.py: SandboxConnector.submit() with its three kinds of      *)
(* remote sandbox.  Each _upload and _exec goes over SSH, reconnects if it *)
(* must, and returns or raises.  A Cuckoo task goes on by itself while     *)
(* submit() sleeps between two polls.  What is in a report, and the SSH    *)
(* session that is opened again when it is gone, are left out.             *)
(***************************************************************************)
EXTENDS Naturals

CONSTANT Timeouts    \* values of config.timeout, in seconds

ASSUME SandboxAssumption == Timeouts \subseteq Nat

VARIABLES
  sandbox,      \* config.sandbox_type
  timeout,      \* config.timeout
  stage,        \* where submit() is
  result,       \* result.status, and whether .report and .error are set
  task,         \* the Cuckoo task
  polled,       \* polls that were made
  reportedAt    \* history: the polls made when the task became "reported"

sandboxVars == <<sandbox, timeout, stage, result, task, polled, reportedAt>>

Result(status, report, error) == [status |-> status, report |-> report, error |-> error]

SandboxInit ==
  /\ sandbox \in {"cuckoo", "remnux", "custom"}
  /\ timeout \in Timeouts
  /\ stage = "upload"
  /\ result = Result("pending", FALSE, FALSE)
  /\ task = "none"
  /\ polled = 0
  /\ reportedAt = 0

\* submit() returns result r.
Returns(r) == stage' = "over" /\ result' = r

\* The except clause: an exception at any call ends in "failed".
CallRaises ==
  /\ stage \in {"upload", "create", "view", "report", "mkdir", "list"}
  /\ Returns([result EXCEPT !.status = "failed", !.error = TRUE])
  /\ UNCHANGED <<sandbox, timeout, task, polled, reportedAt>>

Upload ==
  /\ stage = "upload"
  /\ stage' = CASE sandbox = "cuckoo" -> "create"
                [] sandbox = "remnux" -> "mkdir"
                [] OTHER -> "list"
  /\ UNCHANGED <<sandbox, timeout, result, task, polled, reportedAt>>

\* --------------------------------- Cuckoo ----------------------------------

\* Mutant of Rounds: the first poll counts as done.
RoundsOneLess == IF timeout \div 10 = 0 THEN 0 ELSE timeout \div 10 - 1

\* range(self.config.timeout // 10)
Rounds == timeout \div 10

\* The loop goes on to its next sleep or, without a break, to its else clause.
NextRound(r) ==
  IF polled' < Rounds THEN stage' = "sleep" /\ result' = r
  ELSE Returns([r EXCEPT !.status = "timeout"])

Create ==
  /\ stage = "create"
  /\ task' = "running"
  /\ UNCHANGED polled
  /\ NextRound([result EXCEPT !.status = "submitted"])
  /\ UNCHANGED <<sandbox, timeout, reportedAt>>

\* The sandbox finishes its task when it likes, or never.
TaskReported ==
  /\ task = "running"
  /\ task' = "reported"
  /\ reportedAt' = polled
  /\ UNCHANGED <<sandbox, timeout, stage, result, polled>>

Sleep ==
  /\ stage = "sleep"
  /\ stage' = "view"
  /\ UNCHANGED <<sandbox, timeout, result, task, polled, reportedAt>>

View ==
  /\ stage = "view"
  /\ polled' = polled + 1
  /\ IF task = "reported" THEN stage' = "report" /\ UNCHANGED result
     ELSE NextRound(result)
  /\ UNCHANGED <<sandbox, timeout, task, reportedAt>>

\* Mutant of Report: the loop is not left.
ReportNoBreak ==
  /\ stage = "report"
  /\ UNCHANGED polled
  /\ NextRound(Result("completed", TRUE, result.error))
  /\ UNCHANGED <<sandbox, timeout, task, reportedAt>>

Report ==
  /\ stage = "report"
  /\ Returns(Result("completed", TRUE, result.error))
  /\ UNCHANGED <<sandbox, timeout, task, polled, reportedAt>>

\* ---------------------------- REMnux and custom ----------------------------

MakeDirectory ==
  /\ stage = "mkdir"
  /\ stage' = "tools"
  /\ UNCHANGED <<sandbox, timeout, result, task, polled, reportedAt>>

\* The exception of a tool becomes the text of its output: whichever tools
\* fail, the report is complete.
RunTools ==
  /\ stage = "tools"
  /\ Returns(Result("completed", TRUE, FALSE))
  /\ UNCHANGED <<sandbox, timeout, task, polled, reportedAt>>

List ==
  /\ stage = "list"
  /\ Returns(Result("completed", TRUE, FALSE))
  /\ UNCHANGED <<sandbox, timeout, task, polled, reportedAt>>

SandboxDone == stage = "over" /\ UNCHANGED sandboxVars

SandboxNext ==
  \/ CallRaises \/ Upload \/ Create \/ TaskReported \/ Sleep \/ View \/ Report
  \/ MakeDirectory \/ RunTools \/ List \/ SandboxDone

SandboxSpec == SandboxInit /\ [][SandboxNext]_sandboxVars

------------------------------------------------------------------------------

\* The three fields of the result agree: a report is there exactly when the
\* status is "completed", an error exactly when it is "failed", and no status
\* of a submission under way is returned.
ResultAgrees ==
  stage = "over" =>
    /\ result.status \in {"completed", "timeout", "failed"}
    /\ result.report <=> result.status = "completed"
    /\ result.error <=> result.status = "failed"

(***************************************************************************)
(* "timeout" is the truth: the time limit was used up to less than one     *)
(* poll interval, and no report that was ready at a poll was missed.  One  *)
(* that gets ready after the last poll is, also if time is left.           *)
(***************************************************************************)
TimeoutIsTrue ==
  result.status = "timeout" =>
    /\ polled * 10 + 10 > timeout
    /\ task = "reported" => reportedAt = polled

==============================================================================
