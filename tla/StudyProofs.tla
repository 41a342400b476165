---------------------------- MODULE StudyProofs ----------------------------
(***************************************************************************)
(* What the command line writes is complete, and is what each combination  *)
(* alone would give: proofs about Study.tla, for every set of command      *)
(* lines, every number of threads and lists of any length.                 *)
(*                                                                         *)
(* ReportsAreComplete is not inductive: that a file holds the whole report *)
(* follows from what was true when the pool was left, when no simulation   *)
(* was missing, and from the order of the two files since.  The invariant  *)
(* says for each phase of main what has been collected and written by then.*)
(*                                                                         *)
(* The second part is about the points of a study.  Flattening lists of    *)
(* one length numbers their items like digits, so the nested loops over    *)
(* models, degrees, rates and machines count as the reference definition   *)
(* does; and the arguments that a point is given by passing a preset on    *)
(* are as good as those of a command line that asks for it.                *)
(***************************************************************************)
EXTENDS Study, OperatorProofs

-----------------------------------------------------------------------------
(* Reports are complete *)

NothingWritten ==
  written = [json |-> Untouched, html |-> Untouched, stdout |-> Untouched]

\* Every simulation returned.
AllReturned == DOMAIN results = DOMAIN points

\* The points, their states and their summaries, until the pool is left.
PoolInv ==
  /\ DOMAIN status = DOMAIN points
  /\ DOMAIN results \subseteq DOMAIN points
  /\ phase = "main" => points = <<>> /\ status = <<>> /\ results = <<>>
  /\ phase = "running" =>
       \A i \in DOMAIN points : status[i] = "ended" => i \in DOMAIN results
  /\ phase \in {"json", "html", "print"} => AllReturned

\* What is written in each phase.
OutputInv ==
  /\ written = [json |-> written.json, html |-> written.html, stdout |-> written.stdout]
  /\ NothingWritten \/ AllReturned
  /\ phase \in {"main", "running", "unwinding", "json"} => NothingWritten
  /\ phase = "html" =>
       /\ written.html = Untouched
       /\ command.json_out => written.json = Report
  /\ phase = "print" =>
       /\ command.json_out => written.json = Report
       /\ command.html => written.html = Report
  /\ written.html # Untouched /\ command.json_out => written.json = Report

\* When the program has ended, and how.
ExitInv ==
  /\ phase \in {"main", "running", "unwinding", "json", "html", "print", "exited"}
  /\ phase # "exited" => exit_code = "none"
  /\ exit_code = "success" /\ ~command.validate_kernels =>
       /\ command.json_out => written.json = Report
       /\ command.html => written.html = Report
       /\ command.json_out \/ command.html \/ written.stdout = Report

StudyInv == PoolInv /\ OutputInv /\ ExitInv

\* It is enough for the property ...
LEMMA StudyInvComplete == StudyInv => ReportsAreComplete
<1> SUFFICES ASSUME StudyInv PROVE ReportsAreComplete
  OBVIOUS
<1>1. Range(written) # {Untouched} => DOMAIN results = DOMAIN points
  <2>1. NothingWritten => Range(written) = {Untouched}
    BY DEF NothingWritten, Range
  <2> QED
    BY <2>1 DEF StudyInv, OutputInv, AllReturned
<1>2. written.html # Untouched /\ command.json_out => written.json = Report
  BY DEF StudyInv, OutputInv
<1>3. ASSUME exit_code = "success", ~command.validate_kernels
      PROVE  /\ \A file \in {"json", "html"} : Requested(file) => written[file] = Report
             /\ command.json_out \/ command.html \/ written.stdout = Report
  BY <1>3 DEF StudyInv, ExitInv, Requested
<1> QED
  BY <1>1, <1>2, <1>3 DEF ReportsAreComplete

\* ... and holds at the start.
LEMMA StudyInvInit == Init => StudyInv
<1> SUFFICES ASSUME Init PROVE StudyInv
  OBVIOUS
<1>1. /\ phase = "main" /\ points = <<>> /\ status = <<>> /\ results = <<>>
      /\ written = [json |-> Untouched, html |-> Untouched, stdout |-> Untouched]
      /\ exit_code = "none"
  BY DEF Init
<1>2. PoolInv
  BY <1>1 DEF PoolInv
<1>3. OutputInv
  BY <1>1 DEF OutputInv, NothingWritten
<1>4. ExitInv
  BY <1>1 DEF ExitInv
<1> QED
  BY <1>2, <1>3, <1>4 DEF StudyInv

\* A step that only ends the program, and not with success unless it validates
\* kernels.
LEMMA StudyInvExit ==
  ASSUME StudyInv, NEW code, Exit(code),
         code # "success" \/ command.validate_kernels,
         UNCHANGED <<command, points, status, results, written>>
  PROVE  StudyInv'
<1>1. phase' = "exited" /\ exit_code' = code
  BY DEF Exit
<1>2. PoolInv'
  BY <1>1 DEF StudyInv, PoolInv
<1>3. Report' = Report
  BY DEF Report
<1>4. OutputInv'
  BY <1>1, <1>3 DEF StudyInv, OutputInv, NothingWritten, AllReturned
<1>5. ExitInv'
  BY <1>1 DEF ExitInv
<1> QED
  BY <1>2, <1>4, <1>5 DEF StudyInv

\* A step that hands points to the pool.
LEMMA StudyInvRun ==
  ASSUME StudyInv, phase = "main", NEW pts, Run(pts)
  PROVE  StudyInv'
<1>1. /\ phase' = "running" /\ points' = pts
      /\ status' = [i \in DOMAIN pts |-> "waiting"]
      /\ UNCHANGED <<command, results, written, exit_code>>
  BY DEF Run
<1>2. results = <<>> /\ NothingWritten /\ exit_code = "none"
  BY DEF StudyInv, PoolInv, OutputInv, ExitInv
<1>3. PoolInv'
  BY <1>1, <1>2 DEF PoolInv
<1>4. OutputInv'
  BY <1>1, <1>2 DEF OutputInv, NothingWritten
<1>5. ExitInv'
  BY <1>1, <1>2 DEF ExitInv
<1> QED
  BY <1>3, <1>4, <1>5 DEF StudyInv

\* A simulation begins or ends on a thread of the pool.
LEMMA StudyInvPool ==
  ASSUME StudyInv, NEW i \in DOMAIN points,
         BeginPoint(i) \/ ReturnPoint(i) \/ PanicPoint(i) \/ ExitPoint(i)
  PROVE  StudyInv'
<1>1. /\ phase \in {"running", "unwinding"} /\ NothingWritten /\ exit_code = "none"
      /\ UNCHANGED <<command, points, written>>
      /\ \E s : status' = [status EXCEPT ![i] = s]
  BY DEF StudyInv, OutputInv, ExitInv, BeginPoint, ReturnPoint, PanicPoint, ExitPoint,
         EndPoint
<1>2. DOMAIN status' = DOMAIN points
  BY <1>1 DEF StudyInv, PoolInv
<1>3. CASE BeginPoint(i)
  <2>1. PoolInv'
    BY <1>2, <1>3 DEF StudyInv, PoolInv, BeginPoint
  <2>2. OutputInv'
    BY <1>1, <1>3 DEF StudyInv, OutputInv, NothingWritten, BeginPoint
  <2>3. ExitInv'
    BY <1>1, <1>3 DEF StudyInv, ExitInv, BeginPoint
  <2> QED
    BY <2>1, <2>2, <2>3 DEF StudyInv
<1>4. CASE ReturnPoint(i)
  <2>1. /\ results' = [j \in DOMAIN results \cup {i} |->
                       IF j = i THEN Summary(points[i]) ELSE results[j]]
        /\ status' = [status EXCEPT ![i] = "ended"]
        /\ phase' = phase /\ exit_code' = exit_code
    BY <1>4 DEF ReturnPoint, EndPoint
  <2>2. DOMAIN results' = {i} \cup DOMAIN results
    BY <2>1
  <2>3. PoolInv'
    BY <1>1, <1>2, <2>1, <2>2 DEF StudyInv, PoolInv
  <2>4. OutputInv'
    BY <1>1, <2>1 DEF StudyInv, OutputInv, NothingWritten
  <2>5. ExitInv'
    BY <1>1, <2>1 DEF StudyInv, ExitInv
  <2> QED
    BY <2>3, <2>4, <2>5 DEF StudyInv
<1>5. CASE PanicPoint(i)
  <2>1. phase' = "unwinding" /\ results' = results /\ exit_code' = exit_code
    BY <1>5 DEF PanicPoint
  <2>2. PoolInv'
    BY <1>1, <1>2, <2>1 DEF StudyInv, PoolInv
  <2>3. OutputInv'
    BY <1>1, <2>1 DEF StudyInv, OutputInv, NothingWritten
  <2>4. ExitInv'
    BY <1>1, <2>1 DEF StudyInv, ExitInv
  <2> QED
    BY <2>2, <2>3, <2>4 DEF StudyInv
<1>6. CASE ExitPoint(i)
  <2>1. phase' = "exited" /\ results' = results /\ exit_code' = "failure"
    BY <1>6 DEF ExitPoint, Exit
  <2>2. PoolInv'
    BY <1>1, <1>2, <2>1 DEF StudyInv, PoolInv
  <2>3. OutputInv'
    BY <1>1, <2>1 DEF StudyInv, OutputInv, NothingWritten
  <2>4. ExitInv'
    BY <1>1, <2>1 DEF StudyInv, ExitInv
  <2> QED
    BY <2>2, <2>3, <2>4 DEF StudyInv
<1> QED
  BY <1>3, <1>4, <1>5, <1>6

\* The pool is left when every simulation ended, so none is missing.
LEMMA StudyInvCollect ==
  ASSUME StudyInv, Collect
  PROVE  StudyInv'
<1>1. /\ phase = "running" /\ \A i \in DOMAIN points : status[i] = "ended"
      /\ phase' = IF IsStudyMode THEN "json" ELSE "print"
      /\ UNCHANGED <<command, points, status, results, written, exit_code>>
  BY DEF Collect
<1>2. AllReturned /\ NothingWritten /\ exit_code = "none"
  BY <1>1 DEF StudyInv, PoolInv, OutputInv, ExitInv, AllReturned
<1>3. phase' = "json" \/ (phase' = "print" /\ ~command.json_out /\ ~command.html)
  BY <1>1 DEF IsStudyMode
<1>4. PoolInv'
  BY <1>1, <1>2, <1>3 DEF StudyInv, PoolInv, AllReturned
<1>5. OutputInv'
  BY <1>1, <1>2, <1>3 DEF StudyInv, OutputInv, NothingWritten, AllReturned
<1>6. ExitInv'
  BY <1>1, <1>2, <1>3 DEF ExitInv
<1> QED
  BY <1>4, <1>5, <1>6 DEF StudyInv

\* A file is left out, written, or fails.
LEMMA StudyInvFile ==
  ASSUME StudyInv, NEW file \in {"json", "html"},
         SkipFile(file) \/ WriteFile(file) \/ FailFile(file)
  PROVE  StudyInv'
<1>1. /\ phase = file /\ AllReturned /\ exit_code = "none"
      /\ UNCHANGED <<command, points, status, results>>
  BY DEF SkipFile, WriteFile, FailFile, StudyInv, PoolInv, ExitInv, AllReturned
<1>2. Report' = Report
  BY <1>1 DEF Report
<1>3. /\ written = [json |-> written.json, html |-> written.html, stdout |-> written.stdout]
      /\ file = "json" => NothingWritten
      /\ file = "html" => /\ written.html = Untouched
                          /\ command.json_out => written.json = Report
  BY <1>1 DEF StudyInv, OutputInv
<1>4. CASE SkipFile(file) \/ WriteFile(file)
  <2>1. phase' = (IF file = "json" THEN "html" ELSE "print") /\ exit_code' = exit_code
    BY <1>4 DEF SkipFile, WriteFile, NextPhase
  <2>2. /\ file = "json" => /\ written'.html = Untouched
                            /\ command.json_out => written'.json = Report
        /\ file = "html" => /\ written'.json = written.json
                            /\ command.html => written'.html = Report
        /\ written' = [json |-> written'.json, html |-> written'.html,
                       stdout |-> written'.stdout]
    <3>1. CASE file = "json"
      BY <1>3, <1>4, <3>1 DEF SkipFile, WriteFile, Requested, NothingWritten
    <3>2. CASE file = "html"
      BY <1>3, <1>4, <3>2 DEF SkipFile, WriteFile, Requested
    <3> QED
      BY <3>1, <3>2
  <2>3. PoolInv'
    BY <1>1, <2>1 DEF StudyInv, PoolInv, AllReturned
  <2>4. AllReturned'
    BY <1>1 DEF AllReturned
  <2>5. OutputInv'
    BY <1>1, <1>2, <1>3, <2>1, <2>2, <2>4 DEF OutputInv
  <2>6. ExitInv'
    BY <1>1, <2>1 DEF ExitInv
  <2> QED
    BY <2>3, <2>5, <2>6 DEF StudyInv
<1>5. CASE FailFile(file)
  <2>1. phase' = "exited" /\ exit_code' = "failure"
    BY <1>5 DEF FailFile, Exit
  <2>2. PICK content : written' = [written EXCEPT ![file] = content]
    BY <1>5 DEF FailFile
  <2>3. /\ written' = [json |-> written'.json, html |-> written'.html,
                       stdout |-> written'.stdout]
        /\ written'.html # Untouched /\ command.json_out => written'.json = Report
    <3>1. CASE file = "json"
      <4>1. NothingWritten
        BY <1>3, <3>1
      <4>2. written' = [json |-> content, html |-> Untouched, stdout |-> Untouched]
        BY <2>2, <3>1, <4>1 DEF NothingWritten
      <4> QED
        BY <4>2
    <3>2. CASE file = "html"
      <4>1. written' = [json |-> written.json, html |-> content, stdout |-> written.stdout]
        BY <1>3, <2>2, <3>2
      <4> QED
        BY <1>3, <3>2, <4>1
    <3> QED
      BY <3>1, <3>2
  <2>4. PoolInv'
    BY <1>1, <2>1 DEF StudyInv, PoolInv
  <2>5. AllReturned'
    BY <1>1 DEF AllReturned
  <2>6. OutputInv'
    BY <1>1, <1>2, <2>1, <2>3, <2>5 DEF OutputInv
  <2>7. ExitInv'
    BY <2>1 DEF ExitInv
  <2> QED
    BY <2>4, <2>6, <2>7 DEF StudyInv
<1> QED
  BY <1>4, <1>5

\* The report is printed unless it went to a file.
LEMMA StudyInvPrint ==
  ASSUME StudyInv, PrintReport
  PROVE  StudyInv'
<1>1. /\ phase = "print" /\ phase' = "exited" /\ exit_code' = "success"
      /\ UNCHANGED <<command, points, status, results>>
      /\ written' = IF command.json_out \/ command.html THEN written
                    ELSE [written EXCEPT !.stdout = Report]
  BY DEF PrintReport, Exit, Requested
<1>2. /\ written = [json |-> written.json, html |-> written.html, stdout |-> written.stdout]
      /\ AllReturned
      /\ command.json_out => written.json = Report
      /\ command.html => written.html = Report
  BY <1>1 DEF StudyInv, PoolInv, OutputInv
<1>3. Report' = Report /\ AllReturned'
  BY <1>1, <1>2 DEF Report, AllReturned
<1>4. /\ written' = [json |-> written'.json, html |-> written'.html,
                     stdout |-> written'.stdout]
      /\ written'.json = written.json /\ written'.html = written.html
      /\ command.json_out \/ command.html \/ written'.stdout = Report
  BY <1>1, <1>2
<1>5. PoolInv'
  BY <1>1 DEF StudyInv, PoolInv
<1>6. OutputInv'
  BY <1>1, <1>2, <1>3, <1>4 DEF OutputInv
<1>7. ExitInv'
  BY <1>1, <1>2, <1>3, <1>4 DEF ExitInv
<1> QED
  BY <1>5, <1>6, <1>7 DEF StudyInv

\* Every step keeps the invariant.
LEMMA StudyInvStep == StudyInv /\ [Next]_vars => StudyInv'
<1> SUFFICES ASSUME StudyInv, [Next]_vars PROVE StudyInv'
  OBVIOUS
<1>1. ASSUME StartPanics \/ ValidateKernels \/ SweepNothing \/ Unwind PROVE StudyInv'
  <2>1. CASE StartPanics \/ SweepNothing \/ Unwind
    <3>1. PICK code \in {"panic", "failure"} : Exit(code)
      BY <2>1 DEF StartPanics, SweepNothing, Unwind
    <3>2. UNCHANGED <<command, points, status, results, written>>
      BY <2>1 DEF StartPanics, SweepNothing, Unwind
    <3>3. code # "success"
      OBVIOUS
    <3> QED
      BY <3>1, <3>2, <3>3, StudyInvExit
  <2>2. CASE ValidateKernels
    BY <2>2, StudyInvExit DEF ValidateKernels
  <2> QED
    BY <1>1, <2>1, <2>2
<1>2. ASSUME StartStudy \/ StartSweep \/ StartSingle PROVE StudyInv'
  <2>1. phase = "main" /\ \E pts : Run(pts)
    BY <1>2 DEF StartStudy, StartSweep, StartSingle, Starts
  <2> QED
    BY <2>1, StudyInvRun
<1>3. CASE \E i \in DOMAIN points :
             BeginPoint(i) \/ ReturnPoint(i) \/ PanicPoint(i) \/ ExitPoint(i)
  BY <1>3, StudyInvPool
<1>4. CASE Collect
  BY <1>4, StudyInvCollect
<1>5. CASE \E file \in {"json", "html"} : SkipFile(file) \/ WriteFile(file) \/ FailFile(file)
  BY <1>5, StudyInvFile
<1>6. CASE PrintReport
  BY <1>6, StudyInvPrint
<1>7. CASE UNCHANGED vars
  <2>1. UNCHANGED <<command, phase, points, status, results, written, exit_code>>
    BY <1>7 DEF vars
  <2>2. Report' = Report
    BY <2>1 DEF Report
  <2> QED
    BY <2>1, <2>2 DEF StudyInv, PoolInv, OutputInv, ExitInv, NothingWritten, AllReturned
<1> QED
  BY <1>1, <1>2, <1>3, <1>4, <1>5, <1>6, <1>7 DEF Next, Exited

\* Nothing is written or printed unless every simulation returned, the HTML file
\* does not appear without the JSON file asked for, and success means that all
\* that was asked for is there (main, write_study_outputs, run_once): for every
\* command line, and every order in which the simulations end.
THEOREM StudyReportsComplete == Spec => []ReportsAreComplete
<1>1. Spec => []StudyInv
  BY StudyInvInit, StudyInvStep, PTL DEF Spec
<1> QED
  BY <1>1, StudyInvComplete, PTL

-----------------------------------------------------------------------------
(* Quotients and remainders *)

\* Quotient and remainder are what they are called.
LEMMA DivMod ==
  ASSUME NEW a \in Nat, NEW k \in Nat \ {0}
  PROVE  /\ a \div k \in Nat /\ a % k \in 0 .. k - 1
         /\ a = (a \div k) * k + (a % k)
<1> DEFINE q == a \div k
<1>1. a = k * q + (a % k) /\ a % k \in 0 .. k - 1 /\ q \in Nat
  BY SMT
<1>2. k * q = q * k
  <2> HIDE DEF q
  <2> QED
    BY <1>1
<1> HIDE DEF q
<1>3. a = q * k + (a % k)
  BY <1>1, <1>2
<1> QED
  BY <1>1, <1>3 DEF q

\* There is one quotient and one remainder.
LEMMA DivUnique ==
  ASSUME NEW k \in Nat \ {0}, NEW d \in Nat, NEW e \in 0 .. k - 1
  PROVE  (d * k + e) \div k = d /\ (d * k + e) % k = e
<1> DEFINE a == d * k + e
           q == a \div k
           r == a % k
<1>1. a \in Nat /\ d * k \in Nat
  OBVIOUS
<1>2. q \in Nat /\ r \in 0 .. k - 1 /\ a = q * k + r
  BY <1>1, DivMod
<1>3. q * k \in Nat /\ (q + 1) * k = q * k + k /\ (d + 1) * k = d * k + k
  BY <1>2
<1> HIDE DEF q, r
<1>4. ~ (q + 1 <= d)
  <2> SUFFICES ASSUME q + 1 <= d PROVE FALSE
    OBVIOUS
  <2>1. (q + 1) * k <= d * k
    BY <1>2, ProductGrows
  <2> HIDE DEF a
  <2>2. a = d * k + e
    BY DEF a
  <2> QED
    BY <1>1, <1>2, <1>3, <2>1, <2>2
<1>5. ~ (d + 1 <= q)
  <2> SUFFICES ASSUME d + 1 <= q PROVE FALSE
    OBVIOUS
  <2>1. (d + 1) * k <= q * k
    BY <1>2, ProductGrows
  <2> HIDE DEF a
  <2>2. a = d * k + e
    BY DEF a
  <2> QED
    BY <1>1, <1>2, <1>3, <2>1, <2>2
<1>6. q = d
  BY <1>2, <1>4, <1>5
<1>7. r = e
  <2> HIDE DEF a
  <2>1. a = d * k + e
    BY DEF a
  <2> QED
    BY <1>1, <1>2, <1>6, <2>1
<1> QED
  BY <1>6, <1>7 DEF q, r

\* Dividing by k, which is r times x, is dividing by x and then by r.
InTwoSteps(a, x, r, k) ==
  /\ a \div k = (a \div x) \div r
  /\ (a % k) \div x = (a \div x) % r
  /\ (a % k) % x = a % x

\* Dividing twice is dividing by the product.
LEMMA DivTwice ==
  ASSUME NEW a \in Nat, NEW x \in Nat \ {0}, NEW r \in Nat \ {0}
  PROVE  r * x \in Nat \ {0} /\ InTwoSteps(a, x, r, r * x)
<1> DEFINE A == a \div x
           e == a % x
           B == A \div r
           c == A % r
<1>1. A \in Nat /\ e \in 0 .. x - 1 /\ a = A * x + e
  BY DivMod
<1> HIDE DEF A, e
<1>2. B \in Nat /\ c \in 0 .. r - 1 /\ A = B * r + c
  BY <1>1, DivMod
<1> HIDE DEF B, c
<1>3. r * x \in Nat \ {0} /\ c * x \in Nat
  BY <1>2
<1>4. a = B * (r * x) + (c * x + e)
  <2>1. (B * r + c) * x = B * (r * x) + c * x
    BY <1>2
  <2>2. B * (r * x) \in Nat
    BY <1>2, <1>3
  <2> QED
    BY <1>1, <1>2, <1>3, <2>1, <2>2
<1>5. c * x + e \in 0 .. r * x - 1
  <2>1. (c + 1) * x <= r * x
    BY <1>2, ProductGrows
  <2>2. (c + 1) * x = c * x + x
    BY <1>2
  <2> QED
    BY <1>1, <1>3, <2>1, <2>2
<1>6. a \div (r * x) = B /\ a % (r * x) = c * x + e
  <2> DEFINE k == r * x
             f == c * x + e
  <2>1. k \in Nat \ {0} /\ f \in 0 .. k - 1 /\ a = B * k + f
    BY <1>3, <1>4, <1>5
  <2> HIDE DEF k, f
  <2>2. a \div k = B /\ a % k = f
    BY <1>2, <2>1, DivUnique
  <2> QED
    BY <2>2 DEF k, f
<1>7. (c * x + e) \div x = c /\ (c * x + e) % x = e
  BY <1>1, <1>2, DivUnique
<1> QED
  BY <1>3, <1>6, <1>7 DEF A, e, B, c, InTwoSteps

-----------------------------------------------------------------------------
(* Flattening *)

\* Where item q of a flattened sequence of sequences of length k comes from.
Block(q, k) == ((q - 1) \div k) + 1
Place(q, k) == ((q - 1) % k) + 1

\* Item j of block i comes from there.
LEMMA BlockPlace ==
  ASSUME NEW k \in Nat \ {0}, NEW i \in Nat \ {0}, NEW j \in 1 .. k
  PROVE  Block((i - 1) * k + j, k) = i /\ Place((i - 1) * k + j, k) = j
<1> DEFINE d == i - 1
           e == j - 1
<1>1. d \in Nat /\ e \in 0 .. k - 1 /\ d * k \in Nat
  OBVIOUS
<1>2. (d * k + j) - 1 = d * k + e
  BY <1>1
<1>3. (d * k + e) \div k = d /\ (d * k + e) % k = e
  BY <1>1, DivUnique
<1> QED
  BY <1>2, <1>3 DEF Block, Place

\* Every item has its block and its place there.
LEMMA BlockRange ==
  ASSUME NEW k \in Nat, NEW n \in Nat, NEW q \in 1 .. n * k
  PROVE  /\ k # 0 /\ Block(q, k) \in 1 .. n /\ Place(q, k) \in 1 .. k
         /\ q = (Block(q, k) - 1) * k + Place(q, k)
<1>1. k # 0
  OBVIOUS
<1> DEFINE a == q - 1
           d == a \div k
           e == a % k
<1>2. a \in Nat /\ n * k \in Nat /\ a < n * k
  OBVIOUS
<1>3. d \in Nat /\ e \in 0 .. k - 1 /\ a = d * k + e
  BY <1>1, <1>2, DivMod
<1> HIDE DEF d, e
<1>4. d < n
  <2> SUFFICES ASSUME n <= d PROVE FALSE
    BY <1>3
  <2>1. n * k <= d * k
    BY <1>3, ProductGrows
  <2> QED
    BY <1>2, <1>3, <2>1
<1>5. Block(q, k) = d + 1 /\ Place(q, k) = e + 1
  BY DEF Block, Place, d, e
<1> QED
  BY <1>1, <1>3, <1>4, <1>5

\* The first i of the sequences seqs of length k, one after the other.
Joined(seqs, k, i) == [q \in 1 .. i * k |-> seqs[Block(q, k)][Place(q, k)]]

\* The first of them.
LEMMA JoinFirst ==
  ASSUME NEW seqs, NEW k \in Nat, seqs[1] = [j \in 1 .. k |-> seqs[1][j]]
  PROVE  Joined(seqs, k, 1) = seqs[1]
<1>1. 1 .. 1 * k = 1 .. k
  OBVIOUS
<1>2. ASSUME NEW q \in 1 .. k PROVE Block(q, k) = 1 /\ Place(q, k) = q
  <2>1. k \in Nat \ {0} /\ (1 - 1) * k + q = q
    OBVIOUS
  <2> QED
    BY <2>1, BlockPlace
<1>3. Joined(seqs, k, 1) = [q \in 1 .. k |-> seqs[1][q]]
  BY <1>1, <1>2 DEF Joined
<1> QED
  BY <1>3

\* One more.
LEMMA JoinNext ==
  ASSUME NEW seqs, NEW k \in Nat, NEW i \in Nat,
         seqs[i + 1] = [j \in 1 .. k |-> seqs[i + 1][j]]
  PROVE  Joined(seqs, k, i) \o seqs[i + 1] = Joined(seqs, k, i + 1)
<1> DEFINE s == Joined(seqs, k, i)
           t == seqs[i + 1]
           u == Joined(seqs, k, i + 1)
           m == i * k
<1>1. m \in Nat /\ (i + 1) * k = m + k
  OBVIOUS
<1>2. /\ s = [q \in 1 .. m |-> seqs[Block(q, k)][Place(q, k)]]
      /\ u = [q \in 1 .. m + k |-> seqs[Block(q, k)][Place(q, k)]]
  BY <1>1 DEF Joined
<1>3. t = [j \in 1 .. k |-> t[j]]
  OBVIOUS
<1>4. ASSUME NEW q \in m + 1 .. m + k PROVE Block(q, k) = i + 1 /\ Place(q, k) = q - m
  <2> DEFINE j == q - m
  <2>1. k \in Nat \ {0} /\ j \in 1 .. k /\ i + 1 \in Nat \ {0}
        /\ ((i + 1) - 1) * k + j = q
    BY <1>1
  <2> HIDE DEF j
  <2>2. /\ Block(((i + 1) - 1) * k + j, k) = i + 1
        /\ Place(((i + 1) - 1) * k + j, k) = j
    BY <2>1, BlockPlace
  <2> QED
    BY <2>1, <2>2 DEF j
<1> HIDE DEF s, t, u, m
<1>5. Len(s) = m /\ Len(t) = k
  BY <1>1, <1>2, <1>3
<1>6. s \o t = [q \in 1 .. m + k |-> IF q <= m THEN s[q] ELSE t[q - m]]
  <2> DEFINE S == {s[q] : q \in 1 .. m} \cup {t[q] : q \in 1 .. k}
  <2>0. (\A q \in 1 .. m : s[q] \in S) /\ (\A q \in 1 .. k : t[q] \in S)
    OBVIOUS
  <2> HIDE DEF S
  <2>1. s \in Seq(S) /\ t \in Seq(S)
    <3>1. s = [q \in 1 .. m |-> s[q]]
      BY <1>2
    <3>2. s \in Seq(S)
      BY <1>1, <2>0, <3>1
    <3>3. t \in Seq(S)
      BY <1>3, <2>0
    <3> QED
      BY <3>2, <3>3
  <2>2. /\ s \o t \in Seq(S) /\ Len(s \o t) = m + k
        /\ \A q \in 1 .. m + k : (s \o t)[q] = IF q <= m THEN s[q] ELSE t[q - m]
    BY <1>5, <2>1, ConcatProperties
  <2> DEFINE c == s \o t
  <2> HIDE DEF c
  <2>3. c \in [1 .. m + k -> S]
    BY <2>2, LenProperties DEF c
  <2>4. c = [q \in 1 .. m + k |-> c[q]]
    BY <2>3
  <2>5. s \o t = [q \in 1 .. m + k |-> (s \o t)[q]]
    BY <2>4, Zenon DEF c
  <2> QED
    BY <2>2, <2>5, Zenon
<1>7. ASSUME NEW q \in 1 .. m + k PROVE u[q] = IF q <= m THEN s[q] ELSE t[q - m]
  <2>1. CASE q <= m
    BY <1>1, <1>2, <2>1
  <2>2. CASE ~ (q <= m)
    <3>1. q \in m + 1 .. m + k
      BY <1>1, <2>2
    <3> QED
      BY <1>2, <1>4, <2>2, <3>1 DEF t
  <2> QED
    BY <2>1, <2>2
<1>8. s \o t = u
  BY <1>2, <1>6, <1>7
<1> QED
  BY <1>8 DEF s, t, u

\* Flattening a sequence of sequences of one length joins all of them.
LEMMA FlattenSeqJoins ==
  ASSUME NEW n \in Nat, NEW k \in Nat, NEW seqs, seqs = [i \in 1 .. n |-> seqs[i]],
         \A i \in 1 .. n : seqs[i] = [j \in 1 .. k |-> seqs[i][j]]
  PROVE  FlattenSeq(seqs) = Joined(seqs, k, n)
<1>1. Len(seqs) = n
  OBVIOUS
<1>2. CASE n = 0
  <2>1. 1 .. n * k = {} /\ 1 .. n = {}
    BY <1>2
  <2>2. FlattenSeq(seqs) = seqs
    BY <1>1, <1>2 DEF FlattenSeq
  <2> QED
    BY <2>1, <2>2 DEF Joined
<1>3. CASE n # 0
  <2> DEFINE f[i \in 1 .. Len(seqs)] == IF i = 1 THEN seqs[i] ELSE f[i - 1] \o seqs[i]
             g == [i \in 1 .. n |-> Joined(seqs, k, i)]
  <2>1. FlattenSeq(seqs) = f[Len(seqs)]
    BY <1>1, <1>3, Zenon DEF FlattenSeq
  <2>2. ASSUME NEW i \in 1 .. n
        PROVE  Joined(seqs, k, i) = IF i = 1 THEN seqs[i] ELSE g[i - 1] \o seqs[i]
    <3>1. CASE i = 1
      BY <3>1, JoinFirst
    <3>2. CASE i # 1
      <4>1. i - 1 \in 1 .. n /\ i - 1 \in Nat /\ (i - 1) + 1 = i
        BY <3>2
      <4>2. Joined(seqs, k, i - 1) \o seqs[(i - 1) + 1] = Joined(seqs, k, (i - 1) + 1)
        BY <4>1, JoinNext
      <4> QED
        BY <3>2, <4>1, <4>2
    <3> QED
      BY <3>1, <3>2
  <2>3. g = [i \in 1 .. Len(seqs) |-> IF i = 1 THEN seqs[i] ELSE g[i - 1] \o seqs[i]]
    BY <1>1, <2>2
  <2> HIDE DEF g
  <2>4. f = [i \in 1 .. Len(seqs) |-> IF i = 1 THEN seqs[i] ELSE f[i - 1] \o seqs[i]]
    BY <2>3, Zenon
  <2> HIDE DEF f
  <2> DEFINE P == {i \in Nat : i + 1 <= n => f[i + 1] = Joined(seqs, k, i + 1)}
  <2>5. 0 \in P
    BY <1>1, <1>3, <2>4, JoinFirst
  <2>6. ASSUME NEW i \in Nat, i \in P PROVE i + 1 \in P
    <3> SUFFICES ASSUME i + 2 <= n PROVE f[i + 2] = Joined(seqs, k, i + 2)
      OBVIOUS
    <3>1. i + 2 \in 1 .. n /\ i + 2 # 1 /\ (i + 2) - 1 = i + 1 /\ (i + 1) + 1 = i + 2
          /\ i + 1 \in Nat
      OBVIOUS
    <3>2. f[i + 1] = Joined(seqs, k, i + 1)
      BY <2>6
    <3>3. f[i + 2] = f[i + 1] \o seqs[i + 2]
      BY <1>1, <2>4, <3>1
    <3>4. Joined(seqs, k, i + 1) \o seqs[(i + 1) + 1] = Joined(seqs, k, (i + 1) + 1)
      BY <3>1, JoinNext
    <3> QED
      BY <3>1, <3>2, <3>3, <3>4
  <2>7. n - 1 \in P
    <3> HIDE DEF P
    <3>1. n - 1 \in Nat
      BY <1>3
    <3> QED
      BY <2>5, <2>6, <3>1, SetInduction
  <2>8. f[n] = Joined(seqs, k, n)
    BY <2>7
  <2> QED
    BY <1>1, <2>1, <2>8
<1> QED
  BY <1>2, <1>3

-----------------------------------------------------------------------------
(* The arguments of a point *)

\* The options that the preset of a system may change.
NodeOptions == {"gpu", "gpus_per_node", "scale_out_fabric"}

\* What a preset makes of the options.
LEMMA PresetOptions ==
  ASSUME NEW args, Options \subseteq DOMAIN args
  PROVE  /\ DOMAIN WithSystemPreset(args) = DOMAIN args
         /\ \A o \in DOMAIN args \ NodeOptions : WithSystemPreset(args)[o] = args[o]
         /\ WithSystemPreset(args).gpu =
              IF args.system = "none" THEN args.gpu ELSE SystemGpu[args.system]
         /\ WithSystemPreset(args).gpus_per_node =
              IF args.system = "none" THEN args.gpus_per_node ELSE 8
         /\ WithSystemPreset(args).scale_out_fabric =
              IF args.system # "none" /\ args.scale_out_fabric = "none"
                   /\ args.scale_out_bw = 0
              THEN "ndr-400" ELSE args.scale_out_fabric
<1>1. CASE args.system = "none"
  BY <1>1 DEF WithSystemPreset
<1>2. CASE args.system # "none"
  BY <1>2 DEF WithSystemPreset, NodeOptions, Options
<1> QED
  BY <1>1, <1>2

\* The lists of a study are lists.
LEMMA StudyLists ==
  ASSUME command \in CommandLines
  PROVE  IsList(Models) /\ IsList(Tps) /\ IsList(Rates) /\ IsList(Machines)
<1>1. Options \cup ListOptions \subseteq DOMAIN command
  BY CommandLinesAssumption
<1>2. \A list \in ListOptions : Args[list] = command[list]
  <2>1. \A list \in ListOptions : list \in DOMAIN command \ NodeOptions
    BY <1>1 DEF ListOptions, NodeOptions
  <2> QED
    BY <1>1, <2>1, PresetOptions DEF Args
<1>3. \A list \in ListOptions : Args[list] # NotGiven => IsList(Args[list])
  BY <1>2, CommandLinesAssumption
<1>4. \A item : IsList(<<item>>)
  BY DEF IsList
<1>5. \A list \in ListOptions : \A item : IsList(Items(Args[list], item))
  BY <1>3, <1>4 DEF Items
<1>6. IsList(Models) /\ IsList(Tps) /\ IsList(Rates) /\ IsList(Items(Args.study_gpus, Args.gpu))
  BY <1>5 DEF Models, Tps, Rates, ListOptions
<1>7. Systems # <<>> => IsList(Systems)
  BY <1>3 DEF Systems, ListOptions
<1> QED
  BY <1>6, <1>7 DEF Machines

\* The command line that asks for one combination alone.
Alone(model, tp, rate, machine) ==
  LET line == [command EXCEPT !.arrival_rate = rate, !.tp = tp, !.model = model]
      node == WithSystemPreset(line)
      args == IF Systems = <<>> THEN [node EXCEPT !.gpu = machine]
              ELSE IF machine = "none" THEN node
              ELSE WithSystemPreset([line EXCEPT !.system = machine])
  IN  [args |-> args, rate |-> args.arrival_rate]

\* What the figures of a simulation depend on.
SameFigures(a, b) == \A o \in Options \ {"system", "arrival_rate"} : a[o] = b[o]

\* So much and the rate is in its summary.
LEMMA SummarySame ==
  ASSUME NEW p, NEW q, SameFigures(p.args, q.args), p.rate = q.rate
  PROVE  Summary(p) = Summary(q)
BY DEF SameFigures, Options, Summary

\* A point of a study is the simulation that its combination gets alone.
LEMMA PointAlone ==
  ASSUME command \in CommandLines, NEW model, NEW tp, NEW rate, NEW machine
  PROVE  Summary(StudyPoint(model, tp, rate, machine)) =
           Summary(Alone(model, tp, rate, machine))
<1> DEFINE line == [command EXCEPT !.arrival_rate = rate, !.tp = tp, !.model = model]
           node == WithSystemPreset(line)
           args == [Args EXCEPT !.model = model, !.tp = tp, !.arrival_rate = rate]
<1>1. Options \subseteq DOMAIN command
  BY CommandLinesAssumption
<1>2. /\ DOMAIN line = DOMAIN command
      /\ line.arrival_rate = rate /\ line.tp = tp /\ line.model = model
      /\ \A o \in Options \ {"arrival_rate", "tp", "model"} : line[o] = command[o]
  BY <1>1 DEF Options
<1>3. /\ DOMAIN Args = DOMAIN command
      /\ DOMAIN args = DOMAIN command
      /\ args.arrival_rate = rate /\ args.tp = tp /\ args.model = model
      /\ \A o \in Options \ {"arrival_rate", "tp", "model"} : args[o] = Args[o]
  <2>1. DOMAIN Args = DOMAIN command
    BY <1>1, PresetOptions DEF Args
  <2> QED
    BY <1>1, <2>1 DEF Options
<1> HIDE DEF line, args
<1>4. \A o \in Options : args[o] = node[o]
  <2>1. \A o \in {"arrival_rate", "tp", "model"} : node[o] = line[o]
    BY <1>1, <1>2, PresetOptions DEF Options, NodeOptions
  <2>2. \A o \in Options \ {"arrival_rate", "tp", "model"} : node[o] = Args[o]
    <3> DEFINE Rest(o) == o \in Options \ {"arrival_rate", "tp", "model"}
    <3>1. \A o : Rest(o) => o \in DOMAIN command /\ line[o] = command[o]
      BY <1>1, <1>2
    <3>2. /\ Rest("system") /\ Rest("gpu") /\ Rest("gpus_per_node")
          /\ Rest("scale_out_fabric") /\ Rest("scale_out_bw")
      BY DEF Options
    <3>3. /\ node.gpu = Args.gpu /\ node.gpus_per_node = Args.gpus_per_node
          /\ node.scale_out_fabric = Args.scale_out_fabric
      <4> HIDE DEF Rest
      <4> QED
        BY <1>1, <1>2, <3>1, <3>2, PresetOptions DEF Args
    <3>4. \A o : Rest(o) /\ o \notin NodeOptions => node[o] = Args[o]
      BY <1>1, <1>2, <3>1, PresetOptions DEF Args
    <3> QED
      BY <3>3, <3>4 DEF NodeOptions
  <2> QED
    BY <1>2, <1>3, <2>1, <2>2
<1>5. DOMAIN node = DOMAIN command
  BY <1>1, <1>2, PresetOptions
<1> HIDE DEF node
<1> DEFINE p == StudyPoint(model, tp, rate, machine)
           q == Alone(model, tp, rate, machine)
<1>6. p.rate = rate
  BY DEF StudyPoint
<1>7. CASE Systems = <<>>
  <2>1. p.args = [args EXCEPT !.gpu = machine, !.system = "none"]
    BY <1>7 DEF StudyPoint, GpuPoint, args
  <2>2. q.args = [node EXCEPT !.gpu = machine] /\ q.rate = q.args.arrival_rate
    BY <1>7 DEF Alone, node, line
  <2> HIDE DEF p, q
  <2>3. q.rate = rate
    BY <1>1, <1>3, <1>4, <1>5, <2>2 DEF Options
  <2>4. SameFigures(p.args, q.args)
    <3>1. \A o \in Options \ {"system"} :
            p.args[o] = IF o = "gpu" THEN machine ELSE args[o]
      BY <1>1, <1>3, <2>1
    <3>2. \A o \in Options : q.args[o] = IF o = "gpu" THEN machine ELSE node[o]
      BY <1>1, <1>5, <2>2
    <3> QED
      BY <1>4, <3>1, <3>2 DEF SameFigures
  <2> QED
    BY <1>6, <2>3, <2>4, SummarySame DEF p, q
<1>8. CASE Systems # <<>>
  <2> DEFINE here == [args EXCEPT !.system = machine]
             there == [line EXCEPT !.system = machine]
  <2>1. p.args = WithSystemPreset(here)
    BY <1>8 DEF StudyPoint, SystemPoint, args
  <2>2. /\ DOMAIN here = DOMAIN command /\ here.system = machine
        /\ \A o \in Options \ {"system"} : here[o] = args[o]
    BY <1>1, <1>3 DEF Options
  <2>3. /\ DOMAIN there = DOMAIN command /\ there.system = machine
        /\ \A o \in Options \ {"system"} : there[o] = line[o]
    BY <1>1, <1>2 DEF Options
  <2> HIDE DEF here
  <2>4. CASE machine = "none"
    <3>1. q.args = node /\ q.rate = q.args.arrival_rate
      BY <1>8, <2>4 DEF Alone, node, line
    <3>2. p.args = here
      BY <2>1, <2>2, <2>4 DEF WithSystemPreset
    <3> HIDE DEF p, q, there
    <3>3. q.rate = rate
      BY <1>3, <1>4, <3>1 DEF Options
    <3>4. SameFigures(p.args, q.args)
      BY <1>4, <2>2, <3>1, <3>2 DEF SameFigures
    <3> QED
      BY <1>6, <3>3, <3>4, SummarySame DEF p, q
  <2>5. CASE machine # "none"
    <3>1. q.args = WithSystemPreset(there) /\ q.rate = q.args.arrival_rate
      BY <1>8, <2>5 DEF Alone, line
    <3> HIDE DEF p, q, there
    <3>2. \A o \in Options \ NodeOptions : o # "system" => here[o] = there[o]
      <4>1. \A o \in Options \ NodeOptions : node[o] = line[o]
        BY <1>1, <1>2, PresetOptions DEF node
      <4> QED
        BY <1>4, <2>2, <2>3, <4>1
    <3>3. q.rate = rate
      BY <1>1, <1>2, <2>3, <3>1, PresetOptions DEF Options, NodeOptions
    <3>4. \A o \in Options \ NodeOptions : o # "system" => p.args[o] = q.args[o]
      BY <1>1, <2>1, <2>2, <2>3, <3>1, <3>2, PresetOptions
    <3>5. /\ p.args.gpu = q.args.gpu
          /\ p.args.gpus_per_node = q.args.gpus_per_node
      BY <1>1, <2>1, <2>2, <2>3, <2>5, <3>1, PresetOptions
    <3>6. here.scale_out_bw = line.scale_out_bw /\ there.scale_out_bw = line.scale_out_bw
      BY <2>3, <3>2 DEF Options, NodeOptions
    <3>7. /\ there.scale_out_fabric = line.scale_out_fabric
          /\ here.scale_out_fabric = node.scale_out_fabric
      BY <1>4, <2>2, <2>3 DEF Options
    <3>8. node.scale_out_fabric =
            IF line.system # "none" /\ line.scale_out_fabric = "none"
                 /\ line.scale_out_bw = 0
            THEN "ndr-400" ELSE line.scale_out_fabric
      BY <1>1, <1>2, PresetOptions DEF node
    <3>9. p.args.scale_out_fabric = q.args.scale_out_fabric
      BY <1>1, <2>1, <2>2, <2>3, <2>5, <3>1, <3>6, <3>7, <3>8, PresetOptions
    <3>10. SameFigures(p.args, q.args)
      BY <3>4, <3>5, <3>9 DEF SameFigures, NodeOptions
    <3> QED
      BY <1>6, <3>3, <3>10, SummarySame DEF p, q
  <2> QED
    BY <2>4, <2>5
<1> QED
  BY <1>7, <1>8

-----------------------------------------------------------------------------
(* The points of a study *)

\* The digits of i, with which point q is numbered, are the places of q in the
\* blocks of points of one model (of k3), one TP degree (of k2) and one rate.
Digits(q, i, nx, nr, nt, k2, k3) ==
  LET of_model == Place(q, k3)
      of_tp    == Place(of_model, k2)
      rest     == i \div nx
  IN  /\ Block(q, k3) = (rest \div (nr * nt)) + 1
      /\ Block(of_model, k2) = ((rest \div nr) % nt) + 1
      /\ Block(of_tp, nx) = (rest % nr) + 1
      /\ Place(of_tp, nx) = (i % nx) + 1

\* They are.
LEMMA PointDigits ==
  ASSUME NEW i \in Nat, NEW nx \in Nat \ {0}, NEW nr \in Nat \ {0}, NEW nt \in Nat \ {0}
  PROVE  Digits(i + 1, i, nx, nr, nt, nr * nx, nt * (nr * nx))
<1> DEFINE k == nr * nx
           rest == i \div nx
           m == i % (nt * k)
           t == i % k
<1>1. rest \in Nat
  BY DivMod
<1>2. k \in Nat \ {0} /\ InTwoSteps(i, nx, nr, k)
  BY DivTwice, Zenon
<1> HIDE DEF k
<1>3. nt * k \in Nat \ {0} /\ InTwoSteps(i, k, nt, nt * k)
  BY <1>2, DivTwice, Zenon
<1> HIDE DEF rest
<1>4. nt * nr = nr * nt /\ InTwoSteps(rest, nr, nt, nt * nr)
  BY <1>1, DivTwice
<1>5. m \in Nat /\ t \in Nat
  <2>1. m \in 0 .. (nt * k) - 1 /\ t \in 0 .. k - 1
    BY <1>2, <1>3, DivMod, Zenon
  <2> HIDE DEF m, t
  <2> QED
    BY <2>1
<1> HIDE DEF m, t
<1>6. (i + 1) - 1 = i /\ (m + 1) - 1 = m /\ (t + 1) - 1 = t
  BY <1>5
<1>7. Block(i + 1, nt * k) = (rest \div (nr * nt)) + 1 /\ Place(i + 1, nt * k) = m + 1
  BY <1>2, <1>3, <1>4, <1>6, Zenon DEF Block, Place, m, rest, InTwoSteps
<1>8. Block(m + 1, k) = ((rest \div nr) % nt) + 1 /\ Place(m + 1, k) = t + 1
  BY <1>2, <1>3, <1>6, Zenon DEF Block, Place, m, t, rest, InTwoSteps
<1>9. Block(t + 1, nx) = (rest % nr) + 1 /\ Place(t + 1, nx) = (i % nx) + 1
  BY <1>2, <1>6, Zenon DEF Block, Place, t, rest, InTwoSteps
<1> QED
  BY <1>7, <1>8, <1>9 DEF k, rest, Digits

\* The points of one model and TP degree, of one model, and all of them.
RatePoints(m, t, r) == [x \in DOMAIN Machines |->
                          StudyPoint(Models[m], Tps[t], Rates[r], Machines[x])]
TpPoints(m, t) == [r \in DOMAIN Rates |-> RatePoints(m, t, r)]
ModelPoints(m) == [t \in DOMAIN Tps |-> FlattenSeq(TpPoints(m, t))]

\* A study has a point for each combination, numbered as AskedAlone counts.
LEMMA StudyPointsNumbered ==
  ASSUME command \in CommandLines
  PROVE  StudyPoints =
           [i \in 1 .. StudySize |->
              LET rest == (i - 1) \div Len(Machines)
              IN  StudyPoint(Models[(rest \div (Len(Rates) * Len(Tps))) + 1],
                             Tps[((rest \div Len(Rates)) % Len(Tps)) + 1],
                             Rates[(rest % Len(Rates)) + 1],
                             Machines[((i - 1) % Len(Machines)) + 1])]
<1> DEFINE nm == Len(Models)
           nt == Len(Tps)
           nr == Len(Rates)
           nx == Len(Machines)
           P(m, t, r, x) == StudyPoint(Models[m], Tps[t], Rates[r], Machines[x])
<1>1. /\ nm \in Nat /\ nt \in Nat /\ nr \in Nat /\ nx \in Nat
      /\ DOMAIN Models = 1 .. nm /\ DOMAIN Tps = 1 .. nt
      /\ DOMAIN Rates = 1 .. nr /\ DOMAIN Machines = 1 .. nx
  BY StudyLists DEF IsList
<1>2. StudySize = ((nm * nt) * nr) * nx
  BY DEF StudySize
<1>3. StudyPoints = FlattenSeq([m \in 1 .. nm |-> FlattenSeq(ModelPoints(m))])
  BY <1>1 DEF StudyPoints, ModelPoints, TpPoints, RatePoints
<1> HIDE DEF nm, nt, nr, nx, P
<1> DEFINE k2 == nr * nx
           k3 == nt * k2
<1>4. k2 \in Nat /\ k3 \in Nat
  BY <1>1
<1>5. /\ \A m, t, r : RatePoints(m, t, r) = [x \in 1 .. nx |-> P(m, t, r, x)]
      /\ \A m, t : TpPoints(m, t) = [r \in 1 .. nr |-> RatePoints(m, t, r)]
      /\ \A m : ModelPoints(m) = [t \in 1 .. nt |-> FlattenSeq(TpPoints(m, t))]
  BY <1>1 DEF RatePoints, TpPoints, ModelPoints, P
<1>6. ASSUME NEW m, NEW t
      PROVE  FlattenSeq(TpPoints(m, t)) =
               [q \in 1 .. k2 |-> P(m, t, Block(q, nx), Place(q, nx))]
  <2> DEFINE s == TpPoints(m, t)
  <2>1. /\ s = [r \in 1 .. nr |-> s[r]]
        /\ \A r \in 1 .. nr : s[r] = RatePoints(m, t, r)
    BY <1>5
  <2> HIDE DEF s
  <2>2. \A r \in 1 .. nr : s[r] = [x \in 1 .. nx |-> s[r][x]]
    BY <1>5, <2>1
  <2>3. FlattenSeq(s) = Joined(s, nx, nr)
    BY <1>1, <2>1, <2>2, FlattenSeqJoins
  <2>4. \A q \in 1 .. nr * nx : s[Block(q, nx)][Place(q, nx)]
                                  = P(m, t, Block(q, nx), Place(q, nx))
    BY <1>1, <1>5, <2>1, BlockRange
  <2> QED
    BY <2>3, <2>4 DEF s, Joined
<1>7. ASSUME NEW m
      PROVE  FlattenSeq(ModelPoints(m)) =
               [q \in 1 .. k3 |-> P(m, Block(q, k2), Block(Place(q, k2), nx),
                                    Place(Place(q, k2), nx))]
  <2> DEFINE s == ModelPoints(m)
  <2>1. /\ s = [t \in 1 .. nt |-> s[t]]
        /\ \A t \in 1 .. nt : s[t] = FlattenSeq(TpPoints(m, t))
    BY <1>5
  <2> HIDE DEF s, k2
  <2>2. \A t \in 1 .. nt : s[t] = [q \in 1 .. k2 |-> P(m, t, Block(q, nx), Place(q, nx))]
    BY <1>6, <2>1
  <2>3. \A t \in 1 .. nt : s[t] = [q \in 1 .. k2 |-> s[t][q]]
    BY <2>2
  <2>4. FlattenSeq(s) = Joined(s, k2, nt)
    BY <1>1, <1>4, <2>1, <2>3, FlattenSeqJoins
  <2>5. \A q \in 1 .. nt * k2 :
          s[Block(q, k2)][Place(q, k2)]
            = P(m, Block(q, k2), Block(Place(q, k2), nx), Place(Place(q, k2), nx))
    <3> TAKE q \in 1 .. nt * k2
    <3>1. Block(q, k2) \in 1 .. nt /\ Place(q, k2) \in 1 .. k2
      BY <1>1, <1>4, BlockRange
    <3> QED
      BY <2>2, <3>1
  <2> QED
    BY <2>4, <2>5 DEF s, Joined
<1> HIDE DEF k2
<1>8. StudyPoints =
        [q \in 1 .. nm * k3 |->
           P(Block(q, k3), Block(Place(q, k3), k2), Block(Place(Place(q, k3), k2), nx),
             Place(Place(Place(q, k3), k2), nx))]
  <2> DEFINE s == [m \in 1 .. nm |-> FlattenSeq(ModelPoints(m))]
  <2>1. /\ s = [m \in 1 .. nm |-> s[m]]
        /\ \A m \in 1 .. nm : s[m] = FlattenSeq(ModelPoints(m))
    OBVIOUS
  <2> HIDE DEF s, k3
  <2>2. \A m \in 1 .. nm :
          s[m] = [q \in 1 .. k3 |-> P(m, Block(q, k2), Block(Place(q, k2), nx),
                                      Place(Place(q, k2), nx))]
    BY <1>7, <2>1
  <2>3. \A m \in 1 .. nm : s[m] = [q \in 1 .. k3 |-> s[m][q]]
    BY <2>2
  <2>4. FlattenSeq(s) = Joined(s, k3, nm)
    BY <1>1, <1>4, <2>1, <2>3, FlattenSeqJoins
  <2>5. \A q \in 1 .. nm * k3 :
          s[Block(q, k3)][Place(q, k3)]
            = P(Block(q, k3), Block(Place(q, k3), k2), Block(Place(Place(q, k3), k2), nx),
                Place(Place(Place(q, k3), k2), nx))
    <3> TAKE q \in 1 .. nm * k3
    <3>1. Block(q, k3) \in 1 .. nm /\ Place(q, k3) \in 1 .. k3
      BY <1>1, <1>4, BlockRange
    <3> QED
      BY <2>2, <3>1
  <2> QED
    BY <1>3, <2>4, <2>5 DEF s, Joined
<1>9. nm * k3 = StudySize
  BY <1>1, <1>2 DEF k2
<1>10. ASSUME NEW q \in 1 .. nm * k3
       PROVE  Digits(q, q - 1, nx, nr, nt, k2, k3)
  <2>1. k3 # 0
    BY <1>1, <1>4, <1>10, BlockRange
  <2>2. nt # 0 /\ nr # 0 /\ nx # 0
    BY <1>1, <2>1 DEF k2
  <2>3. nm * k3 \in Nat
    BY <1>1, <1>4
  <2> DEFINE i == q - 1
  <2>4. i \in Nat /\ i + 1 = q
    BY <2>3
  <2> HIDE DEF i
  <2>5. Digits(i + 1, i, nx, nr, nt, nr * nx, nt * (nr * nx))
    BY <1>1, <2>2, <2>4, PointDigits
  <2> QED
    BY <2>4, <2>5 DEF i, k2
<1> HIDE DEF k3
<1> QED
  BY <1>8, <1>9, <1>10 DEF P, nm, nt, nr, nx, Digits

-----------------------------------------------------------------------------
(* Reports are of the single runs *)

\* What is written of points, each simulated alone.
Reported(pts) == [i \in DOMAIN pts |-> Summary(pts[i])]

\* What has returned is the summary of its point, so much is written of it, and
\* in a study the points are those of the study.
ReportedInv ==
  /\ command \in CommandLines
  /\ DOMAIN results \subseteq DOMAIN points
  /\ \A i \in DOMAIN results : results[i] = Summary(points[i])
  /\ \A content \in Range(written) \ {Untouched, Cut} :
       IsStudyMode => points = StudyPoints /\ content = Reported(points)
  /\ IsStudyMode => phase \in {"main", "exited"} \/ points = StudyPoints

\* The report of a study is what each combination gives alone.
LEMMA ReportedAlone == ReportedInv => ReportIsTheSingleRuns
<1> SUFFICES ASSUME ReportedInv, IsStudyMode,
                    NEW content \in Range(written) \ {Untouched, Cut}
             PROVE  content = [i \in 1 .. StudySize |-> Summary(AskedAlone(i))]
  BY DEF ReportIsTheSingleRuns
<1>1. points = StudyPoints /\ content = Reported(points) /\ command \in CommandLines
  BY DEF ReportedInv
<1> DEFINE rest(i) == (i - 1) \div Len(Machines)
           model(i) == Models[(rest(i) \div (Len(Rates) * Len(Tps))) + 1]
           tp(i) == Tps[((rest(i) \div Len(Rates)) % Len(Tps)) + 1]
           rate(i) == Rates[(rest(i) % Len(Rates)) + 1]
           machine(i) == Machines[((i - 1) % Len(Machines)) + 1]
<1>2. StudyPoints = [i \in 1 .. StudySize |->
                       StudyPoint(model(i), tp(i), rate(i), machine(i))]
  BY <1>1, StudyPointsNumbered
<1>3. \A i : AskedAlone(i) = Alone(model(i), tp(i), rate(i), machine(i))
  BY Zenon DEF AskedAlone, Alone
<1> HIDE DEF model, tp, rate, machine
<1>4. \A i : Summary(StudyPoint(model(i), tp(i), rate(i), machine(i))) = Summary(AskedAlone(i))
  BY <1>1, <1>3, PointAlone
<1>5. content = [i \in 1 .. StudySize |->
                   Summary(StudyPoint(model(i), tp(i), rate(i), machine(i)))]
  BY <1>1, <1>2 DEF Reported
<1> QED
  BY <1>4, <1>5

\* It holds at the start ...
LEMMA ReportedInit == Init => ReportedInv
<1> SUFFICES ASSUME Init PROVE ReportedInv
  OBVIOUS
<1>1. /\ command \in CommandLines /\ phase = "main" /\ points = <<>> /\ results = <<>>
      /\ NothingWritten
  BY DEF Init, NothingWritten
<1>2. Range(written) = {Untouched}
  BY <1>1 DEF NothingWritten, Range
<1> QED
  BY <1>1, <1>2 DEF ReportedInv

\* ... and is kept by every step.
LEMMA ReportedStep == StudyInv /\ ReportedInv /\ [Next]_vars => ReportedInv'
<1> SUFFICES ASSUME StudyInv, ReportedInv, [Next]_vars PROVE ReportedInv'
  OBVIOUS
<1>1. command' = command
  BY DEF Next, vars, StartPanics, ValidateKernels, StartStudy, StartSweep, SweepNothing,
         StartSingle, Run, BeginPoint, ReturnPoint, PanicPoint, ExitPoint, EndPoint, Unwind,
         Collect, SkipFile, WriteFile, FailFile, PrintReport, Exited
<1>2. IsStudyMode' = IsStudyMode /\ StudyPoints' = StudyPoints
  <2>1. Args' = Args
    BY <1>1 DEF Args
  <2>2. Models' = Models /\ Tps' = Tps /\ Rates' = Rates /\ Systems' = Systems
    BY <2>1 DEF Models, Tps, Rates, Systems
  <2>3. Machines' = Machines
    BY <2>1, <2>2 DEF Machines
  <2>4. StudyPoints' = StudyPoints
    BY <2>1, <2>2, <2>3 DEF StudyPoints, StudyPoint
  <2> QED
    BY <1>1, <2>4 DEF IsStudyMode
<1>3. ASSUME UNCHANGED <<points, results, written>>,
             phase' \in {phase, "exited"} \/ phase \notin {"main", "exited"}
      PROVE  ReportedInv'
  BY <1>1, <1>2, <1>3 DEF ReportedInv
<1>4. CASE StartPanics \/ ValidateKernels \/ SweepNothing \/ Unwind
  <2>1. UNCHANGED <<points, results, written>> /\ phase' = "exited"
    BY <1>4 DEF StartPanics, ValidateKernels, SweepNothing, Unwind, Exit
  <2> QED
    BY <1>3, <2>1
<1>5. CASE StartStudy \/ StartSweep \/ StartSingle
  <2>1. phase = "main" /\ UNCHANGED <<results, written>>
        /\ (IsStudyMode => points' = StudyPoints)
    BY <1>5 DEF StartStudy, StartSweep, StartSingle, Starts, Run
  <2>2. results = <<>> /\ NothingWritten
    BY <2>1 DEF StudyInv, PoolInv, OutputInv
  <2>3. Range(written) = {Untouched} /\ DOMAIN results = {}
    BY <2>2 DEF NothingWritten, Range
  <2> QED
    BY <1>1, <1>2, <2>1, <2>3 DEF ReportedInv
<1>6. ASSUME NEW i \in DOMAIN points, BeginPoint(i) \/ PanicPoint(i) \/ ExitPoint(i)
      PROVE  ReportedInv'
  <2>1. UNCHANGED <<points, results, written>> /\ phase \in {"running", "unwinding"}
    BY <1>6 DEF BeginPoint, PanicPoint, ExitPoint, EndPoint
  <2> QED
    BY <1>3, <2>1
<1>7. ASSUME NEW i \in DOMAIN points, ReturnPoint(i)
      PROVE  ReportedInv'
  <2>1. /\ UNCHANGED <<points, written, phase>>
        /\ results' = [j \in DOMAIN results \cup {i} |->
                        IF j = i THEN Summary(points[i]) ELSE results[j]]
    BY <1>7 DEF ReturnPoint, EndPoint
  <2>2. /\ DOMAIN results' \subseteq DOMAIN points
        /\ \A j \in DOMAIN results' : results'[j] = Summary(points[j])
    BY <2>1 DEF ReportedInv
  <2> QED
    BY <1>1, <1>2, <2>1, <2>2 DEF ReportedInv
<1>8. CASE Collect \/ \E file \in {"json", "html"} : SkipFile(file)
  <2>1. UNCHANGED <<points, results, written>> /\ phase \in {"running", "json", "html"}
    BY <1>8 DEF Collect, SkipFile
  <2> QED
    BY <1>3, <2>1
<1>9. CASE PrintReport \/ \E file \in {"json", "html"} : WriteFile(file) \/ FailFile(file)
  <2>1. UNCHANGED <<points, results>> /\ phase \in {"json", "html", "print"}
    BY <1>9 DEF WriteFile, FailFile, PrintReport
  <2>2. Range(written') \subseteq Range(written) \cup {Untouched, Cut, Report}
    <3>1. \E file, content : /\ content \in {Untouched, Cut, Report}
                            /\ written' \in {written, [written EXCEPT ![file] = content]}
      BY <1>9 DEF WriteFile, FailFile, PrintReport
    <3> QED
      BY <3>1 DEF Range
  <2>3. Report = Reported(points)
    BY <2>1 DEF StudyInv, PoolInv, AllReturned, ReportedInv, Report, Reported
  <2>4. IsStudyMode => points = StudyPoints
    BY <2>1 DEF ReportedInv
  <2> QED
    BY <1>1, <1>2, <2>1, <2>2, <2>3, <2>4 DEF ReportedInv
<1>10. CASE UNCHANGED vars
  BY <1>3, <1>10 DEF vars
<1> QED
  BY <1>4, <1>5, <1>6, <1>7, <1>8, <1>9, <1>10 DEF Next, Exited

\* A study reports for every combination of its lists, in the order of the
\* command line and whatever the order in which simulations end, what the
\* program reports when it is asked for that combination alone (run_study,
\* apply_system_preset): for every command line and lists of any length.
THEOREM StudyReportsSingleRuns == Spec => []ReportIsTheSingleRuns
<1>1. Spec => [](StudyInv /\ ReportedInv)
  BY StudyInvInit, StudyInvStep, ReportedInit, ReportedStep, PTL DEF Spec
<1> QED
  BY <1>1, ReportedAlone, PTL
=============================================================================
