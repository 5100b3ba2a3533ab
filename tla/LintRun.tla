------------------------------ MODULE LintRun -------------------------------
(***************************************************************************)
(* One run of the lint plugin over a batch of files: the host enters each  *)
(* program, calls the handlers of every rule on the nodes of the file in   *)
(* source order, and goes on to the next file.  createOnce() builds a      *)
(* rule's closure once for the whole run, so the environment a handler     *)
(* reads is whatever the last Program handler left there.  A handler that  *)
(* overflows the stack ends its file.                                      *)
(*                                                                         *)
(* What a handler makes of a node is a parameter; Lint gives the rules.    *)
(***************************************************************************)
EXTENDS Naturals, Sequences

CONSTANTS
  Batches,              \* the sequences of files a run may be given
  Visits(_),            \* the nodes of a file with a handler, in source order
  Environment(_),       \* the declarations and scopes of a file, as the Program handlers keep them
  Outcomes(_, _, _)     \* what the rules make of a node: <<rule, "none", "report" or "overflow">>

VARIABLES batch,        \* the files of this run
          file,         \* the one being linted, Len(batch) + 1 when all are done
          visit,        \* its next node, 0 before its Program handlers ran
          environment,  \* the closures' environment, absent before the first program
          reports,      \* what has been reported: [file, rule, at]
          crashed       \* the files a handler overflowed on

vars == <<batch, file, visit, environment, reports, crashed>>

IsList(s) == s \in Seq({s[n] : n \in DOMAIN s})

ASSUME BatchAssumption ==
  \A b \in Batches : IsList(b) /\ \A i \in DOMAIN b : IsList(Visits(b[i]))

Reported(i, at, outcomes) ==
  {[file |-> i, rule |-> o[1], at |-> at] : o \in {p \in outcomes : p[2] = "report"}}

-----------------------------------------------------------------------------
Init ==
  /\ batch \in Batches
  /\ file = 1
  /\ visit = 0
  /\ environment = <<>>
  /\ reports = {}
  /\ crashed = {}

(* Mutant: the closure keeps the environment of the first file.            *)
EnterProgram_KeepsEnvironment ==
  /\ file \in DOMAIN batch
  /\ visit = 0
  /\ environment' = IF environment # <<>> THEN environment ELSE <<Environment(batch[file])>>
  /\ visit' = 1
  /\ UNCHANGED <<batch, file, reports, crashed>>

(* The Program handlers: every rule takes the declarations of this file,   *)
(* or its scopes.                                                          *)
EnterProgram ==
  /\ file \in DOMAIN batch
  /\ visit = 0
  /\ environment' = <<Environment(batch[file])>>
  /\ visit' = 1
  /\ UNCHANGED <<batch, file, reports, crashed>>

(* Every handler of the node returns.                                      *)
HandlersReturn(at, outcomes) ==
  /\ \A o \in outcomes : o[2] # "overflow"
  /\ reports' = reports \cup Reported(file, at, outcomes)
  /\ visit' = visit + 1
  /\ UNCHANGED <<file, crashed>>

(* One of them never does: the stack overflows and the file is given up.   *)
HandlerOverflows(outcomes) ==
  /\ \E o \in outcomes : o[2] = "overflow"
  /\ crashed' = crashed \cup {file}
  /\ file' = file + 1
  /\ visit' = 0
  /\ UNCHANGED reports

VisitNode ==
  /\ file \in DOMAIN batch
  /\ \E v \in {Visits(batch[file])[n] : n \in DOMAIN Visits(batch[file]) \cap {visit}} :
     \E outcomes \in {Outcomes(batch[file], environment[1], v)} :
       HandlersReturn(v.at, outcomes) \/ HandlerOverflows(outcomes)
  /\ UNCHANGED <<batch, environment>>

LeaveProgram ==
  /\ file \in DOMAIN batch
  /\ visit = Len(Visits(batch[file])) + 1
  /\ file' = file + 1
  /\ visit' = 0
  /\ UNCHANGED <<batch, environment, reports, crashed>>

Next == EnterProgram \/ VisitNode \/ LeaveProgram

Spec == Init /\ [][Next]_vars

-----------------------------------------------------------------------------
(* What linting a file alone comes to: the nodes before the first that     *)
(* overflows, and what is reported there.                                  *)

OutcomesAt(f, n) == Outcomes(f, Environment(f), Visits(f)[n])

Overflows(f) == {n \in DOMAIN Visits(f) : \E o \in OutcomesAt(f, n) : o[2] = "overflow"}

Handled(f) ==
  LET overflows == Overflows(f)
  IN {n \in DOMAIN Visits(f) : \A m \in overflows : n < m}

ReportsAlone(i, f) == UNION {Reported(i, Visits(f)[n].at, OutcomesAt(f, n)) : n \in Handled(f)}

(* The files that are done with.                                           *)
Linted == 1..(file - 1)

(* Linting a batch reports of each file what linting it alone reports, and *)
(* gives up the files that crash alone: the closures of createOnce and the *)
(* files before it, crashed ones included, leave no trace.                 *)
FilesAreIndependent ==
  \A i \in Linted :
    /\ {r \in reports : r.file = i} = ReportsAlone(i, batch[i])
    /\ i \in crashed <=> Handled(batch[i]) # DOMAIN Visits(batch[i])
=============================================================================
