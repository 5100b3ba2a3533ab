---------------------------- MODULE LintRunProofs ---------------------------
(***************************************************************************)
(* Proofs about a run of the lint plugin, for any batches of files, any    *)
(* environments and whatever the rules make of a node.                     *)
(***************************************************************************)
EXTENDS LintRun, TLAPS

-----------------------------------------------------------------------------
(* The inductive invariant: between two nodes the closures hold the        *)
(* environment of the file being linted, and its reports are those of the  *)
(* nodes visited so far.                                                   *)

\* Where the run is.
Place ==
  /\ batch \in Batches
  /\ file \in 1 .. Len(batch) + 1
  /\ visit \in Nat
  /\ visit # 0 => /\ file \in DOMAIN batch
                  /\ visit <= Len(Visits(batch[file])) + 1

\* The closures belong to this file and no handler of it has overflowed yet.
Fresh ==
  visit # 0 => /\ environment = <<Environment(batch[file])>>
               /\ \A n \in Overflows(batch[file]) : visit <= n

\* What the nodes before n report.
ReportsBefore(i, f, n) ==
  UNION {Reported(i, Visits(f)[m].at, OutcomesAt(f, m)) : m \in {k \in DOMAIN Visits(f) : k < n}}

\* What is reported of this file, and that nothing is of the ones after it.
Current ==
  /\ {r \in reports : r.file = file} = (IF visit = 0 THEN {} ELSE ReportsBefore(file, batch[file], visit))
  /\ \A r \in reports : r.file <= file /\ r.file \in Nat
  /\ crashed \subseteq Linted

IInv == Place /\ Fresh /\ Current /\ FilesAreIndependent

-----------------------------------------------------------------------------
(* Lists.                                                                  *)

\* The places of a list are the numbers up to its length.
LEMMA ListDomain ==
  ASSUME NEW s, IsList(s)
  PROVE  DOMAIN s = 1 .. Len(s) /\ Len(s) \in Nat
BY DEF IsList

\* The files of a batch and the nodes of a file are lists.
LEMMA BatchLists ==
  ASSUME NEW b \in Batches
  PROVE  /\ DOMAIN b = 1 .. Len(b) /\ Len(b) \in Nat
         /\ \A i \in DOMAIN b : DOMAIN Visits(b[i]) = 1 .. Len(Visits(b[i])) /\ Len(Visits(b[i])) \in Nat
BY ListDomain, BatchAssumption

\* A report belongs to the file it was made in.
LEMMA ReportedFile ==
  ASSUME NEW i, NEW at, NEW outcomes, NEW r \in Reported(i, at, outcomes)
  PROVE  r.file = i
BY DEF Reported

\* Node n's reports come on top of those of the nodes before it.
LEMMA ReportsGrow ==
  ASSUME NEW i, NEW f, IsList(Visits(f)), NEW n \in DOMAIN Visits(f)
  PROVE  ReportsBefore(i, f, n + 1) =
           ReportsBefore(i, f, n) \cup Reported(i, Visits(f)[n].at, OutcomesAt(f, n))
<1>1. \A k \in DOMAIN Visits(f) : k < n + 1 <=> k < n \/ k = n
  BY ListDomain
<1> QED
  BY <1>1, Zenon DEF ReportsBefore

\* Nothing comes before the first node.
LEMMA NothingBefore ==
  ASSUME NEW i, NEW f, IsList(Visits(f))
  PROVE  ReportsBefore(i, f, 1) = {}
<1>1. {k \in DOMAIN Visits(f) : k < 1} = {}
  BY ListDomain
<1> QED
  BY <1>1, Zenon DEF ReportsBefore

\* Once all nodes before n are known not to overflow, and n is the end or
\* overflows, the reports of the file alone are those of the nodes before n.
LEMMA AloneIsBefore ==
  ASSUME NEW i, NEW f, IsList(Visits(f)), NEW n \in 1 .. Len(Visits(f)) + 1,
         \A m \in Overflows(f) : n <= m,
         n \in Overflows(f) \/ n = Len(Visits(f)) + 1
  PROVE  /\ ReportsAlone(i, f) = ReportsBefore(i, f, n)
         /\ Handled(f) # DOMAIN Visits(f) <=> n \in Overflows(f)
<1>1. Overflows(f) \subseteq DOMAIN Visits(f) /\ DOMAIN Visits(f) = 1 .. Len(Visits(f)) /\ Len(Visits(f)) \in Nat
  BY ListDomain DEF Overflows
<1>2. \A k \in DOMAIN Visits(f) : (\A m \in Overflows(f) : k < m) <=> k < n
  BY <1>1
<1>3. Handled(f) = {k \in DOMAIN Visits(f) : k < n}
  BY <1>2 DEF Handled
<1>4. ReportsAlone(i, f) = ReportsBefore(i, f, n)
  BY <1>3, Zenon DEF ReportsAlone, ReportsBefore
<1>5. CASE n \in Overflows(f)
  BY <1>1, <1>3, <1>4, <1>5
<1>6. CASE n = Len(Visits(f)) + 1
  BY <1>1, <1>3, <1>4, <1>6
<1> QED
  BY <1>5, <1>6

-----------------------------------------------------------------------------
(* The run.                                                                *)

\* A step that leaves the finished files' reports and crashes alone keeps them independent.
LEMMA LintedKept ==
  ASSUME FilesAreIndependent, batch' = batch,
         \A i \in Linted : {r \in reports' : r.file = i} = {r \in reports : r.file = i},
         \A i \in Linted : i \in crashed' <=> i \in crashed
  PROVE  \A i \in Linted : /\ {r \in reports' : r.file = i} = ReportsAlone(i, batch'[i])
                           /\ i \in crashed' <=> Handled(batch'[i]) # DOMAIN Visits(batch'[i])
BY DEF FilesAreIndependent

\* No file is linted, nothing is reported.
LEMMA InitEstablishes == Init => IInv
<1> SUFFICES ASSUME Init PROVE IInv
  OBVIOUS
<1>1. Place /\ Fresh
  BY BatchLists DEF Init, Place, Fresh
<1>2. Linted = {}
  BY DEF Init, Linted
<1>3. Current
  BY <1>2 DEF Init, Current
<1> QED
  BY <1>1, <1>2, <1>3 DEF IInv, FilesAreIndependent

\* The Program handlers take this file's environment.
LEMMA EnterProgramKeeps == IInv /\ EnterProgram => IInv'
<1> SUFFICES ASSUME IInv, EnterProgram PROVE IInv'
  OBVIOUS
<1> DEFINE f == batch[file]
<1>1. /\ IsList(Visits(f)) /\ DOMAIN Visits(f) = 1 .. Len(Visits(f)) /\ Len(Visits(f)) \in Nat
  BY BatchAssumption, BatchLists DEF IInv, Place, EnterProgram
<1>2. Place'
  BY <1>1 DEF IInv, Place, EnterProgram
<1>3. Fresh'
  <2>1. \A n \in Overflows(f) : 1 <= n
    BY <1>1 DEF Overflows
  <2> QED
    BY <2>1 DEF EnterProgram, Fresh
<1>4. Current'
  <2>1. ReportsBefore(file, f, 1) = {}
    BY <1>1, NothingBefore
  <2> QED
    BY <2>1 DEF IInv, Current, Linted, EnterProgram
<1>5. FilesAreIndependent'
  BY DEF IInv, EnterProgram, FilesAreIndependent, Linted
<1> QED
  BY <1>2, <1>3, <1>4, <1>5 DEF IInv

\* A node's handlers add its reports, or give the file up at its first overflow.
LEMMA VisitNodeKeeps == IInv /\ VisitNode => IInv'
<1> SUFFICES ASSUME IInv, VisitNode PROVE IInv'
  OBVIOUS
<1> DEFINE f == batch[file]
           v == Visits(f)[visit]
           outcomes == OutcomesAt(f, visit)
<1>1. file \in DOMAIN batch /\ visit \in DOMAIN Visits(f) /\ batch' = batch /\ environment' = environment
  BY DEF VisitNode
<1>2. /\ IsList(Visits(f)) /\ DOMAIN Visits(f) = 1 .. Len(Visits(f)) /\ Len(Visits(f)) \in Nat
      /\ DOMAIN batch = 1 .. Len(batch) /\ Len(batch) \in Nat
  BY <1>1, BatchAssumption, BatchLists DEF IInv, Place
<1>3. visit # 0 /\ environment[1] = Environment(f)
  BY <1>1, <1>2 DEF IInv, Fresh
<1>4. HandlersReturn(v.at, outcomes) \/ HandlerOverflows(outcomes)
  BY <1>1, <1>3 DEF VisitNode, OutcomesAt
<1>5. file \in Nat /\ Linted = 1 .. file - 1
  BY DEF IInv, Place, Linted
<1>6. CASE HandlersReturn(v.at, outcomes)
  <2>1. Place'
    BY <1>1, <1>2, <1>6 DEF IInv, Place, HandlersReturn
  <2>2. Fresh'
    <3>1. visit \notin Overflows(f)
      BY <1>6 DEF HandlersReturn, Overflows
    <3>2. \A n \in Overflows(f) : visit <= n /\ n \in Nat
      BY <1>2, <1>3 DEF IInv, Fresh, Overflows
    <3>3. \A n \in Overflows(f) : visit + 1 <= n
      BY <3>1, <3>2, <1>1, <1>2
    <3> QED
      BY <3>3, <1>1, <1>3, <1>6 DEF IInv, Fresh, HandlersReturn
  <2>3. {r \in reports' : r.file = file} = {r \in reports : r.file = file} \cup Reported(file, v.at, outcomes)
    BY <1>6, ReportedFile DEF HandlersReturn
  <2>4. Current'
    <3>1. ReportsBefore(file, f, visit + 1) = ReportsBefore(file, f, visit) \cup Reported(file, v.at, outcomes)
      BY <1>1, <1>2, ReportsGrow
    <3>2. {r \in reports' : r.file = file} = ReportsBefore(file, f, visit + 1)
      BY <2>3, <3>1, <1>3 DEF IInv, Current
    <3>3. \A r \in reports' : r.file <= file /\ r.file \in Nat
      BY <1>5, <1>6, ReportedFile DEF IInv, Current, HandlersReturn
    <3>4. visit' # 0 /\ visit' = visit + 1 /\ file' = file /\ crashed' = crashed
      BY <1>1, <1>2, <1>6 DEF HandlersReturn
    <3> QED
      BY <3>2, <3>3, <3>4, <1>1 DEF IInv, Current, Linted
  <2>5. \A i \in Linted : {r \in reports' : r.file = i} = {r \in reports : r.file = i}
    BY <1>5, <1>6, ReportedFile DEF HandlersReturn
  <2>6. FilesAreIndependent'
    <3>1. crashed' = crashed /\ Linted' = Linted
      BY <1>6 DEF HandlersReturn, Linted
    <3> QED
      BY <3>1, <2>5, <1>1, LintedKept DEF IInv, FilesAreIndependent
  <2> QED
    BY <2>1, <2>2, <2>4, <2>6 DEF IInv
<1>7. CASE HandlerOverflows(outcomes)
  <2>1. visit' = 0 /\ file' = file + 1 /\ reports' = reports /\ crashed' = crashed \cup {file}
    BY <1>7 DEF HandlerOverflows
  <2>2. Place' /\ Fresh'
    BY <2>1, <1>1, <1>2 DEF IInv, Place, Fresh
  <2>3. Linted' = Linted \cup {file} /\ file \notin Linted
    BY <2>1, <1>1, <1>2 DEF Linted
  <2>4. Current'
    <3>1. {r \in reports' : r.file = file'} = {}
      BY <2>1, <1>5 DEF IInv, Current
    <3>2. \A r \in reports' : r.file <= file' /\ r.file \in Nat
      BY <2>1, <1>5 DEF IInv, Current
    <3> QED
      BY <3>1, <3>2, <2>1, <2>3 DEF IInv, Current
  <2>5. visit \in Overflows(f) /\ \A n \in Overflows(f) : visit <= n
    BY <1>1, <1>3, <1>7 DEF HandlerOverflows, Overflows, IInv, Fresh
  <2>6. ReportsAlone(file, f) = ReportsBefore(file, f, visit) /\ Handled(f) # DOMAIN Visits(f)
    BY <2>5, <1>1, <1>2, AloneIsBefore
  <2>7. /\ {r \in reports' : r.file = file} = ReportsAlone(file, f)
        /\ file \in crashed' <=> Handled(f) # DOMAIN Visits(f)
    BY <2>1, <2>6, <1>3 DEF IInv, Current
  <2>8. \A i \in Linted : /\ {r \in reports' : r.file = i} = ReportsAlone(i, batch'[i])
                          /\ i \in crashed' <=> Handled(batch'[i]) # DOMAIN Visits(batch'[i])
    BY <2>1, <2>3, <1>1, LintedKept DEF IInv
  <2>9. FilesAreIndependent'
    BY <2>3, <2>7, <2>8, <1>1 DEF FilesAreIndependent
  <2> QED
    BY <2>2, <2>4, <2>9 DEF IInv
<1> QED
  BY <1>4, <1>6, <1>7

\* After the last node the file has reported what it reports alone.
LEMMA LeaveProgramKeeps == IInv /\ LeaveProgram => IInv'
<1> SUFFICES ASSUME IInv, LeaveProgram PROVE IInv'
  OBVIOUS
<1> DEFINE f == batch[file]
<1>1. /\ file \in DOMAIN batch /\ visit = Len(Visits(f)) + 1 /\ visit' = 0 /\ file' = file + 1
      /\ UNCHANGED <<batch, environment, reports, crashed>>
  BY DEF LeaveProgram
<1>2. /\ IsList(Visits(f)) /\ DOMAIN Visits(f) = 1 .. Len(Visits(f)) /\ Len(Visits(f)) \in Nat
      /\ DOMAIN batch = 1 .. Len(batch) /\ Len(batch) \in Nat
  BY <1>1, BatchAssumption, BatchLists DEF IInv, Place
<1>3. Place' /\ Fresh'
  BY <1>1, <1>2 DEF IInv, Place, Fresh
<1>4. Linted' = Linted \cup {file} /\ file \notin Linted /\ file \in Nat
  BY <1>1, <1>2 DEF Linted
<1>5. Current'
  <2>1. {r \in reports' : r.file = file'} = {}
    BY <1>1, <1>4 DEF IInv, Current
  <2>2. \A r \in reports' : r.file <= file' /\ r.file \in Nat
    BY <1>1, <1>4 DEF IInv, Current
  <2> QED
    BY <2>1, <2>2, <1>1, <1>4 DEF IInv, Current
<1>6. \A n \in Overflows(f) : visit <= n /\ n # visit
  BY <1>1, <1>2 DEF IInv, Fresh, Overflows
<1>7. ReportsAlone(file, f) = ReportsBefore(file, f, visit) /\ Handled(f) = DOMAIN Visits(f)
  BY <1>1, <1>2, <1>6, AloneIsBefore
<1>8. /\ {r \in reports' : r.file = file} = ReportsAlone(file, f)
      /\ file \in crashed' <=> Handled(f) # DOMAIN Visits(f)
  BY <1>1, <1>2, <1>4, <1>7 DEF IInv, Current
<1>9. \A i \in Linted : /\ {r \in reports' : r.file = i} = ReportsAlone(i, batch'[i])
                        /\ i \in crashed' <=> Handled(batch'[i]) # DOMAIN Visits(batch'[i])
  BY <1>1, LintedKept DEF IInv
<1>10. FilesAreIndependent'
  BY <1>1, <1>4, <1>8, <1>9 DEF FilesAreIndependent
<1> QED
  BY <1>3, <1>5, <1>10 DEF IInv

\* A file's reports do not depend on the batch it is linted in: no Program
\* handler leaves another file's environment to the closures of createOnce.
THEOREM FilesAreIndependentAlways == Spec => []FilesAreIndependent
<1>1. Init => IInv
  BY InitEstablishes
<1>2. IInv /\ [Next]_vars => IInv'
  <2> SUFFICES ASSUME IInv, [Next]_vars PROVE IInv'
    OBVIOUS
  <2>1. CASE EnterProgram
    BY <2>1, EnterProgramKeeps
  <2>2. CASE VisitNode
    BY <2>2, VisitNodeKeeps
  <2>3. CASE LeaveProgram
    BY <2>3, LeaveProgramKeeps
  <2>4. CASE UNCHANGED vars
    BY <2>4 DEF vars, IInv, Place, Fresh, Current, Linted, FilesAreIndependent
  <2> QED
    BY <2>1, <2>2, <2>3, <2>4 DEF Next
<1>3. IInv => FilesAreIndependent
  BY DEF IInv
<1> QED
  BY <1>1, <1>2, <1>3, PTL DEF Spec
=============================================================================
