---------------------------- MODULE Review_proofs ----------------------------
(***************************************************************************)
(* Proofs about what is read when the evidence is in: the records of a     *)
(* Capsule, for any number of claims, commands and saves of the author,    *)
(* and the verdicts of the reports.                                        *)
(***************************************************************************)
EXTENDS Capsule, Verdicts, TLAPS

(***************************************************************************)
(* The states of a command.                                                *)
(***************************************************************************)
Underway ==
  [mode : {"running"}, command : DOMAIN Script, step : Nat,
   seen : [Buffer -> [File -> Contents]], record : Record]

Ended == {Over, Failed, Crashed} \cup {Said(s) : s \in {"draft", "runnable", "qualified"}}

StateOK(s) ==
  /\ s \in {Idle} \cup Ended \cup Underway
  /\ s.mode = "running" =>
       /\ s.step \in 1 .. Len(Script[s.command])
       /\ \A f \in File : s.seen["loaded"][f] \in SUBSET Claims

ProcessOK == DOMAIN process = Commands /\ \A p \in Commands : StateOK(process[p])

(***************************************************************************)
(* TypeOK, and more: a function is what process is, and a load fails on a  *)
(* torn file.                                                              *)
(***************************************************************************)
Typed == TypeOK /\ ProcessOK

-----------------------------------------------------------------------------
(***************************************************************************)
(* The scripts.                                                            *)
(***************************************************************************)
Evaluating == {"run", "calibrate"}

LEMMA Scripts ==
  /\ DOMAIN Script = {"confirm", "release", "run", "calibrate", "doctor", "replay"}
  /\ Script["confirm"] = Confirmation /\ Script["release"] = Releasing
  /\ Script["run"] = Evaluation("run") /\ Script["calibrate"] = Evaluation("calibration")
  /\ Script["doctor"] = Readiness /\ Script["replay"] = Replaying
BY DEF Script

LEMMA ScriptLengths ==
  /\ Len(Script["confirm"]) = 4 /\ Len(Script["release"]) = 7
  /\ Len(Script["run"]) = 12 /\ Len(Script["calibrate"]) = 12
  /\ Len(Script["doctor"]) = 6 /\ Len(Script["replay"]) = 13
BY Scripts DEF Confirmation, Releasing, Evaluation, Readiness, Replaying

LEMMA EvaluationSteps ==
  ASSUME NEW kind \in {"run", "calibration"}, NEW k \in 1 .. 12
  PROVE  LET s == Evaluation(kind)[k]
         IN  /\ s.do \in {"load", "read", "create", "fill", "execute"}
             /\ s.do = "load" => s.file \in File /\ s.in \in Buffer
             /\ s.do = "read" => s.file \in File
             /\ s.do = "create" <=> k \in {8, 11}
             /\ s.do = "fill" <=> k \in {9, 12}
             /\ s.do = "execute" <=> k = 10
             /\ k \in {8, 9} => s.kind = "release"
             /\ k \in {10, 11, 12} => s.kind = kind
BY DEF Evaluation, Load, Read, Persist, File, Buffer

LEMMA ReleasingSteps ==
  ASSUME NEW k \in 1 .. 7
  PROVE  LET s == Releasing[k]
         IN  /\ s.do \in {"load", "read", "create", "fill"}
             /\ s.do = "load" => s.file \in File /\ s.in \in Buffer
             /\ s.do = "read" => s.file \in File
             /\ s.do = "create" <=> k = 6
             /\ s.do = "fill" <=> k = 7
             /\ k \in {6, 7} => s.kind = "release"
BY DEF Releasing, Load, Read, Persist, File, Buffer

LEMMA ConfirmationSteps ==
  ASSUME NEW k \in 1 .. 4
  PROVE  LET s == Confirmation[k]
         IN  /\ s.do \in {"load", "truncate", "write"}
             /\ s.do = "load" => s.file \in File /\ s.in \in Buffer
BY DEF Confirmation, Load, Do, File, Buffer

LEMMA ReadinessSteps ==
  ASSUME NEW k \in 1 .. 6
  PROVE  LET s == Readiness[k]
         IN  /\ s.do \in {"load", "read", "look"}
             /\ s.do = "load" => s.file \in File /\ s.in \in Buffer
             /\ s.do = "read" => s.file \in File
             /\ s.do = "look" <=> k = 6
BY DEF Readiness, Load, Read, Do, File, Buffer

LEMMA ReplayingSteps ==
  ASSUME NEW k \in 1 .. 13
  PROVE  LET s == Replaying[k]
         IN  /\ s.do \in {"open", "load", "read", "compare"}
             /\ s.do = "load" => s.file \in File /\ s.in \in Buffer
             /\ s.do = "read" => s.file \in File
             /\ s.do = "compare" <=> k \in {7, 13}
BY DEF Replaying, Load, Read, Do, File, Buffer

(***************************************************************************)
(* What a step s, the k-th of the script of c, tells of its command.       *)
(***************************************************************************)
Tells(s, c, k) ==
  /\ s.do = "load" => s.file \in File /\ s.in \in Buffer
  /\ s.do = "read" => s.file \in File
  /\ s.do \in {"truncate", "write"} => c = "confirm"
  /\ s.do = "execute" =>
       c \in Evaluating /\ k = 10 /\ s.kind \in {"run", "calibration"}
  /\ s.do = "look" => c = "doctor" /\ k = 6
  /\ s.do = "compare" => c = "replay" /\ k \in {7, 13}
  /\ s.do = "create" =>
       /\ k + 1 \in 1 .. Len(Script[c])
       /\ Script[c][k + 1].do = "fill"
  /\ s.do \in {"create", "fill"} =>
       \/ c = "release" /\ k \in {6, 7} /\ s.kind = "release"
       \/ c \in Evaluating /\ k \in {8, 9} /\ s.kind = "release"
       \/ c \in Evaluating /\ k \in {11, 12} /\ s.kind # "release"
  /\ c \in Evaluating => /\ s.do = "create" <=> k \in {8, 11}
                        /\ s.do = "fill" <=> k \in {9, 12}

LEMMA StepTells ==
  ASSUME NEW c \in DOMAIN Script, NEW k \in 1 .. Len(Script[c])
  PROVE  Tells(Script[c][k], c, k)
<1> USE Scripts, ScriptLengths DEF Evaluating, Tells
<1>1. CASE c \in Evaluating
  <2>1. PICK kind \in {"run", "calibration"} : Script[c] = Evaluation(kind)
    BY <1>1
  <2>2. k \in 1 .. 12 /\ Len(Script[c]) = 12
    BY <1>1
  <2>3. k \in {8, 11} => k + 1 \in {9, 12} /\ k + 1 \in 1 .. 12
    BY <2>2
  <2>4. k \in {8, 11} => Script[c][k + 1].do = "fill"
    BY SMTT(30), <2>1, <2>3, EvaluationSteps
  <2>5. QED
    BY <1>1, <2>1, <2>2, <2>3, <2>4, EvaluationSteps
<1>2. CASE c = "release"
  <2>1. k \in {6} => k + 1 = 7 /\ k + 1 \in 1 .. 7
    OBVIOUS
  <2>2. QED
    BY <1>2, <2>1, ReleasingSteps
<1>3. CASE c = "confirm"
  BY <1>3, ConfirmationSteps
<1>4. CASE c = "doctor"
  BY <1>4, ReadinessSteps
<1>5. CASE c = "replay"
  BY <1>5, ReplayingSteps
<1>6. QED
  BY <1>1, <1>2, <1>3, <1>4, <1>5

-----------------------------------------------------------------------------
(***************************************************************************)
(* Types.                                                                  *)
(***************************************************************************)
LEMMA RunningState ==
  ASSUME NEW s, StateOK(s), s.mode = "running"
  PROVE  /\ s \in Underway
         /\ s.command \in DOMAIN Script
         /\ s.step \in 1 .. Len(Script[s.command])
         /\ s.seen \in [Buffer -> [File -> Contents]]
         /\ s.record \in Record
         /\ \A f \in File : s.seen["loaded"][f] \in SUBSET Claims
<1>1. s \notin {Idle} \cup Ended
  BY DEF Idle, Ended, Over, Failed, Crashed, Said
<1>2. s \in Underway
  BY <1>1 DEF StateOK
<1>3. QED
  BY <1>2 DEF StateOK, Underway

LEMMA Becoming ==
  ASSUME ProcessOK, NEW p \in Commands, NEW s, StateOK(s), Becomes(p, s)
  PROVE  /\ ProcessOK'
         /\ process'[p] = s
         /\ \A q \in Commands \ {p} : process'[q] = process[q]
BY DEF ProcessOK, Becomes

LEMMA EndedStates ==
  /\ StateOK(Over) /\ StateOK(Failed) /\ StateOK(Crashed)
  /\ Over.mode # "running" /\ Failed.mode # "running" /\ Crashed.mode # "running"
  /\ \A x \in {"draft", "runnable", "qualified"} :
       StateOK(Said(x)) /\ Said(x).mode # "running"
BY DEF StateOK, Ended, Over, Failed, Crashed, Said

(***************************************************************************)
(* A command that skips to a later step of its script is there or is over. *)
(***************************************************************************)
Skipped(p, n, s) ==
  /\ ProcessOK'
  /\ \A q \in Commands \ {p} : process'[q] = process[q]
  /\ IF s.step + n > Len(Script[s.command])
       THEN process'[p] = Over
       ELSE /\ process'[p].mode = "running"
            /\ process'[p].command = s.command
            /\ process'[p].step = s.step + n
            /\ process'[p].seen = s.seen
            /\ process'[p].record = s.record

LEMMA Skipping ==
  ASSUME ProcessOK, NEW p \in Commands, NEW n \in {1, 2},
         NEW s, StateOK(s), s.mode = "running", Skip(p, n, s)
  PROVE  Skipped(p, n, s)
<1> DEFINE t == [s EXCEPT !.step = @ + n]
<1>1. /\ s \in Underway
      /\ s.command \in DOMAIN Script
      /\ s.step \in 1 .. Len(Script[s.command])
      /\ \A f \in File : s.seen["loaded"][f] \in SUBSET Claims
  BY RunningState
<1>2. Len(Script[s.command]) \in Nat
  BY <1>1, Scripts, ScriptLengths
<1>3. /\ t \in Underway /\ t.mode = "running" /\ t.command = s.command
      /\ t.step = s.step + n /\ t.seen = s.seen /\ t.record = s.record
  BY <1>1 DEF Underway
<1>4. CASE s.step + n > Len(Script[s.command])
  BY <1>4, EndedStates, Becoming DEF Skip, Skipped
<1>5. CASE ~(s.step + n > Len(Script[s.command]))
  <2>1. t.step \in 1 .. Len(Script[t.command])
    BY <1>1, <1>2, <1>3, <1>5
  <2>2. StateOK(t)
    BY <1>1, <1>3, <2>1 DEF StateOK
  <2>3. Becomes(p, t)
    BY <1>5 DEF Skip
  <2>4. QED
    BY <1>3, <1>5, <2>2, <2>3, Becoming DEF Skipped
<1>6. QED
  BY <1>4, <1>5

LEMMA Releases ==
  ASSUME NEW contents \in [File -> Contents]
  PROVE  Release(contents) \in Record /\ Release(contents).of = contents
BY DEF Release, Record

LEMMA Blank == Nothing \in [Buffer -> [File -> Contents]]
BY DEF Nothing, Contents

LEMMA GivenOK ==
  ASSUME NEW c \in DOMAIN Script, NEW r \in Record
  PROVE  StateOK(Given(c, r)) /\ Given(c, r).mode = "running"
<1>1. Given(c, r) \in Underway
  BY Blank DEF Given, Underway
<1>2. 1 \in 1 .. Len(Script[c])
  <2>1. \/ c = "confirm" \/ c = "release" \/ c = "run"
        \/ c = "calibrate" \/ c = "doctor" \/ c = "replay"
    BY Scripts
  <2>2. Len(Script[c]) \in {4, 6, 7, 12, 13}
    BY <2>1, ScriptLengths
  <2>3. \A n \in {4, 6, 7, 12, 13} : 1 \in 1 .. n
    OBVIOUS
  <2>4. QED
    BY <2>2, <2>3, Zenon
<1>3. \A f \in File : Nothing["loaded"][f] \in SUBSET Claims
  BY DEF Nothing, Buffer
<1>4. QED
  BY <1>1, <1>2, <1>3 DEF StateOK, Given

(***************************************************************************)
(* What a step of a command finds.                                         *)
(***************************************************************************)
LEMMA AtStep ==
  ASSUME Typed, NEW p \in Commands, Running(p)
  PROVE  /\ StateOK(process[p])
         /\ process[p].mode = "running"
         /\ process[p] \in Underway
         /\ process[p].command \in DOMAIN Script
         /\ process[p].step \in 1 .. Len(Script[process[p].command])
         /\ process[p].seen \in [Buffer -> [File -> Contents]]
         /\ process[p].record \in Record
         /\ \A f \in File : Seen(p, "loaded")[f] \in SUBSET Claims
         /\ This(p) = Script[process[p].command][process[p].step]
BY RunningState DEF Typed, ProcessOK, Running, Seen, This

(***************************************************************************)
(* A state of which a command has seen another file.                       *)
(***************************************************************************)
LEMMA SeenOK ==
  ASSUME NEW s, StateOK(s), s.mode = "running", NEW b \in Buffer, NEW f \in File,
         NEW x \in Contents, b = "frozen" \/ x \in SUBSET Claims
  PROVE  LET t == [s EXCEPT !.seen[b][f] = x]
         IN  /\ StateOK(t) /\ t.mode = "running"
             /\ t.command = s.command /\ t.step = s.step /\ t.record = s.record
             /\ t.seen = [s.seen EXCEPT ![b][f] = x]
<1> DEFINE t == [s EXCEPT !.seen[b][f] = x]
<1>1. /\ s \in Underway
      /\ s.step \in 1 .. Len(Script[s.command])
      /\ s.seen \in [Buffer -> [File -> Contents]]
      /\ \A g \in File : s.seen["loaded"][g] \in SUBSET Claims
  BY RunningState
<1>2. [s.seen EXCEPT ![b][f] = x] \in [Buffer -> [File -> Contents]]
  BY <1>1
<1>3. /\ t \in Underway /\ t.mode = "running" /\ t.command = s.command /\ t.step = s.step
      /\ t.record = s.record /\ t.seen = [s.seen EXCEPT ![b][f] = x]
  BY <1>1, <1>2 DEF Underway
<1>4. \A g \in File : t.seen["loaded"][g] \in SUBSET Claims
  BY <1>1, <1>3 DEF Buffer
<1>5. QED
  BY <1>1, <1>3, <1>4 DEF StateOK

(***************************************************************************)
(* The rest of the types, and that they are all.                           *)
(***************************************************************************)
Rest ==
  /\ edits \in 0 .. MaxEdits
  /\ tree \in [File -> Contents]
  /\ partial \cup whole \cup printed \cup tainted \subseteq Record
  /\ touched \subseteq Commands

LEMMA TypedInParts ==
  /\ Typed <=> Rest /\ ProcessOK
  /\ Typed' <=> Rest' /\ ProcessOK'
<1>1. ASSUME NEW s, StateOK(s), s.mode = "running"
      PROVE  Running_(s)
  BY <1>1, RunningState DEF Running_
<1>2. QED
  BY <1>1 DEF Typed, Rest, ProcessOK, TypeOK

LEMMA Changing ==
  ASSUME Rest, NEW f \in File, NEW x \in Contents, NEW by, Change(f, x, by)
  PROVE  /\ tree' \in [File -> Contents]
         /\ touched' \subseteq Commands
         /\ touched \subseteq touched'
         /\ \A q \in Commands \ by : Running(q) => q \in touched'
         /\ \A q \in Commands : ~Running(q) /\ q \notin touched => q \notin touched'
BY DEF Rest, Change

LEMMA StatesOK ==
  ASSUME ProcessOK, NEW p \in Commands
  PROVE  StateOK(process[p])
BY DEF ProcessOK

(***************************************************************************)
(* The forms that the steps of a command take.  It goes on, by n steps of  *)
(* its script, or it stops.                                                *)
(***************************************************************************)
Others(p) == \A q \in Commands \ {p} : process'[q] = process[q]

Goes(p, n, seen, record) ==
  /\ ProcessOK' /\ Others(p)
  /\ IF process[p].step + n > Len(Script[process[p].command])
       THEN process'[p] = Over
       ELSE /\ process'[p].mode = "running"
            /\ process'[p].command = process[p].command
            /\ process'[p].step = process[p].step + n
            /\ process'[p].seen = seen
            /\ process'[p].record = record

GoesOn(p, n) == Goes(p, n, process[p].seen, process[p].record)

Stops(p) ==
  /\ ProcessOK' /\ Others(p)
  /\ process'[p].mode # "running"
  /\ UNCHANGED <<edits, tree, partial, whole, printed, touched, tainted>>

Passes(p) ==
  /\ This(p).do \in {"open", "compare"}
  /\ GoesOn(p, 1)
  /\ UNCHANGED <<edits, tree, partial, whole, printed, touched, tainted>>

Sees(p, b, f) ==
  /\ \/ This(p).do = "load" /\ This(p).in = b /\ This(p).file = f
     \/ This(p).do = "read" /\ "frozen" = b /\ This(p).file = f
  /\ Goes(p, 1, [process[p].seen EXCEPT ![b][f] = tree[f]], process[p].record)
  /\ UNCHANGED <<edits, tree, partial, whole, printed, touched, tainted>>

Confirms(p, x, seen) ==
  /\ process[p].command = "confirm"
  /\ Change("domain", x, {p})
  /\ Goes(p, 1, seen, process[p].record)
  /\ UNCHANGED <<edits, partial, whole, printed, tainted>>

Creates(p) ==
  /\ This(p).do = "create"
  /\ partial' = partial \cup {ToPersist(p)}
  /\ GoesOn(p, 1)
  /\ UNCHANGED <<edits, tree, whole, printed, touched, tainted>>

Has(p, n) ==
  /\ \/ This(p).do = "create" /\ n = 2
     \/ This(p).do = "fill" /\ n = 1
  /\ whole' = whole \cup {ToPersist(p)}
  /\ partial' \subseteq partial
  /\ PrintRef(p, ToPersist(p))
  /\ GoesOn(p, n)
  /\ UNCHANGED <<edits, tree, touched, tainted>>

Executes(p, observed) ==
  LET basis == [Seen(p, "loaded") EXCEPT !["candidate"] = tree["candidate"]]
      r == [kind |-> This(p).kind, of |-> Seen(p, "frozen"),
            result |-> Found(This(p).kind, basis, observed)]
  IN  /\ This(p).do = "execute"
      /\ Goes(p, 1, process[p].seen, r)
      /\ tainted' = IF p \in touched THEN tainted \cup {r} ELSE tainted
      /\ UNCHANGED <<edits, tree, partial, whole, printed, touched>>

(* A command that proceeds as it is. *)
LEMMA Proceeding ==
  ASSUME Typed, NEW p \in Commands, Running(p), Proceed(p, process[p])
  PROVE  GoesOn(p, 1)
<1>1. /\ ProcessOK /\ StateOK(process[p]) /\ process[p].mode = "running"
      /\ Skip(p, 1, process[p])
  BY AtStep, TypedInParts DEF Proceed
<1>2. Skipped(p, 1, process[p])
  BY <1>1, Skipping
<1>3. QED
  BY <1>2 DEF Skipped, GoesOn, Goes, Others

(* A command that fails or ends. *)
LEMMA Ending ==
  ASSUME ProcessOK, NEW p \in Commands,
         NEW s \in {Over, Failed, Crashed} \cup
                  {Said(x) : x \in {"draft", "runnable", "qualified"}},
         Becomes(p, s)
  PROVE  /\ ProcessOK'
         /\ process'[p] = s
         /\ process'[p].mode # "running"
         /\ Others(p)
BY EndedStates, Becoming DEF Others

(* A command that reads a file. *)
LEMMA SawFile ==
  ASSUME Typed, NEW p \in Commands, Running(p), NEW b \in Buffer, NEW f \in File,
         NEW x \in Contents, b = "frozen" \/ x \in SUBSET Claims,
         Proceed(p, [process[p] EXCEPT !.seen[b][f] = x])
  PROVE  Goes(p, 1, [process[p].seen EXCEPT ![b][f] = x], process[p].record)
<1> DEFINE t == [process[p] EXCEPT !.seen[b][f] = x]
<1>1. StateOK(process[p]) /\ process[p].mode = "running" /\ ProcessOK
  BY AtStep, TypedInParts
<1>2. /\ StateOK(t) /\ t.mode = "running"
      /\ t.command = process[p].command /\ t.step = process[p].step
      /\ t.record = process[p].record
      /\ t.seen = [process[p].seen EXCEPT ![b][f] = x]
  BY <1>1, SeenOK
<1>3. Skip(p, 1, t)
  BY DEF Proceed
<1> HIDE DEF t
<1>4. Skipped(p, 1, t)
  BY <1>1, <1>2, <1>3, Skipping
<1>5. QED
  BY <1>2, <1>4 DEF Skipped, Goes, Others

LEMMA ToldAt ==
  ASSUME Typed, NEW p \in Commands, Running(p)
  PROVE  Tells(This(p), process[p].command, process[p].step)
BY AtStep, StepTells

LEMMA LoadFileForm ==
  ASSUME Typed, NEW p \in Commands, LoadFile(p)
  PROVE  Stops(p) \/ \E b \in Buffer, f \in File : Sees(p, b, f)
<1> DEFINE f == This(p).file
           b == This(p).in
<1>1. Running(p) /\ This(p).do = "load"
  BY DEF LoadFile, At
<1>2. /\ f \in File /\ b \in Buffer
      /\ UNCHANGED <<edits, tree, partial, whole, printed, touched, tainted>>
  BY <1>1, ToldAt DEF Tells, LoadFile
<1>3. Rest /\ ProcessOK
  BY TypedInParts
<1>4. \/ Fail(p)
      \/ tree[f] # Torn /\ Proceed(p, [process[p] EXCEPT !.seen[b][f] = tree[f]])
  BY DEF LoadFile
<1>5. CASE Fail(p)
  BY <1>2, <1>3, <1>5, Ending DEF Fail, Stops
<1>6. CASE tree[f] # Torn /\ Proceed(p, [process[p] EXCEPT !.seen[b][f] = tree[f]])
  <2> HIDE DEF f, b
  <2>1. tree[f] \in Contents /\ tree[f] \in SUBSET Claims
    BY <1>2, <1>3, <1>6 DEF Rest, Contents, Torn
  <2>2. Goes(p, 1, [process[p].seen EXCEPT ![b][f] = tree[f]], process[p].record)
    BY <1>1, <1>2, <1>6, <2>1, SawFile
  <2>3. Sees(p, b, f)
    BY <1>1, <1>2, <2>2 DEF Sees, f, b
  <2>4. QED
    BY <1>2, <2>3
<1>7. QED
  BY <1>4, <1>5, <1>6

LEMMA ReadFileForm ==
  ASSUME Typed, NEW p \in Commands, ReadFile(p)
  PROVE  \E f \in File : Sees(p, "frozen", f)
<1> DEFINE f == This(p).file
<1>1. Running(p) /\ This(p).do = "read"
  BY DEF ReadFile, At
<1>2. /\ f \in File /\ "frozen" \in Buffer
      /\ UNCHANGED <<edits, tree, partial, whole, printed, touched, tainted>>
      /\ Proceed(p, [process[p] EXCEPT !.seen["frozen"][f] = tree[f]])
  BY <1>1, ToldAt DEF Tells, ReadFile, Buffer
<1>3. tree[f] \in Contents
  BY <1>2, TypedInParts DEF Rest
<1> HIDE DEF f
<1>4. Goes(p, 1, [process[p].seen EXCEPT !["frozen"][f] = tree[f]], process[p].record)
  BY <1>1, <1>2, <1>3, SawFile
<1>5. Sees(p, "frozen", f)
  BY <1>1, <1>2, <1>4 DEF Sees, f
<1>6. QED
  BY <1>2, <1>5

LEMMA ConfirmForm ==
  ASSUME Typed, NEW p \in Commands, Truncate(p) \/ WriteDomain(p)
  PROVE  \E x \in Contents : \E seen : Confirms(p, x, seen)
<1>1. /\ Running(p) /\ This(p).do \in {"truncate", "write"}
      /\ UNCHANGED <<edits, partial, whole, printed, tainted>>
  BY DEF Truncate, WriteDomain, At
<1>2. /\ process[p].command = "confirm"
      /\ Seen(p, "loaded")["domain"] \in SUBSET Claims
      /\ Seen(p, "frozen")["domain"] \in Contents
  BY <1>1, ToldAt, AtStep DEF Tells, File, Buffer, Seen
<1>3. CASE Truncate(p)
  <2>1. PICK c \in Claims :
          Proceed(p, [process[p] EXCEPT
                        !.seen["frozen"]["domain"] = Seen(p, "loaded")["domain"] \cup {c}])
    BY <1>3 DEF Truncate
  <2> DEFINE x == Seen(p, "loaded")["domain"] \cup {c}
  <2>2. x \in Contents /\ "frozen" \in Buffer /\ "domain" \in File /\ Torn \in Contents
    BY <1>2 DEF Contents, Buffer, File
  <2>3. Proceed(p, [process[p] EXCEPT !.seen["frozen"]["domain"] = x])
    BY <2>1
  <2> HIDE DEF x
  <2>4. Goes(p, 1, [process[p].seen EXCEPT !["frozen"]["domain"] = x], process[p].record)
    BY <1>1, <2>2, <2>3, SawFile
  <2>5. Change("domain", Torn, {p})
    BY <1>3 DEF Truncate
  <2>6. Confirms(p, Torn, [process[p].seen EXCEPT !["frozen"]["domain"] = x])
    BY <1>1, <1>2, <2>4, <2>5 DEF Confirms
  <2>7. QED
    BY <2>2, <2>6
<1>4. CASE WriteDomain(p)
  <2>1. Goes(p, 1, process[p].seen, process[p].record)
    BY <1>1, <1>4, Proceeding DEF WriteDomain, GoesOn
  <2>2. Confirms(p, Seen(p, "frozen")["domain"], process[p].seen)
    BY <1>1, <1>2, <1>4, <2>1 DEF Confirms, WriteDomain
  <2>3. QED
    BY <1>2, <2>2
<1>5. QED
  BY <1>3, <1>4

LEMMA PersistForm ==
  ASSUME Typed, NEW p \in Commands, Create(p) \/ Fill(p) \/ Verify(p)
  PROVE  Creates(p) \/ Stops(p) \/ \E n \in {1, 2} : Has(p, n)
<1>1. /\ Running(p) /\ This(p).do \in {"create", "fill"}
      /\ UNCHANGED <<edits, tree, touched, tainted>>
  BY DEF Create, Fill, Verify, At
<1>2. ProcessOK /\ StateOK(process[p]) /\ process[p].mode = "running"
  BY <1>1, TypedInParts, AtStep
<1>3. CASE Create(p)
  BY <1>1, <1>3, Proceeding DEF Create, Creates, At
<1>4. CASE Fill(p)
  <2>1. Has(p, 1)
    BY <1>1, <1>4, Proceeding DEF Fill, Has, At
  <2>2. QED
    BY <2>1
<1>5. CASE Verify(p)
  <2>1. CASE ToPersist(p) \in whole
    <3>1. GoesOn(p, 2)
      <4>1. Skipped(p, 2, process[p])
        BY <1>2, <1>5, <2>1, Skipping DEF Verify
      <4> QED
        BY <4>1 DEF Skipped, GoesOn, Goes, Others
    <3>2. whole' = whole \cup {ToPersist(p)} /\ partial' \subseteq partial
      BY <1>5, <2>1 DEF Verify
    <3>3. Has(p, 2)
      BY <1>1, <1>5, <2>1, <3>1, <3>2 DEF Verify, Has, At
    <3>4. QED
      BY <3>3
  <2>2. CASE ToPersist(p) \notin whole
    BY <1>1, <1>2, <1>5, <2>2, Ending DEF Verify, Fail, Stops
  <2>3. QED
    BY <2>1, <2>2
<1>6. QED
  BY <1>3, <1>4, <1>5

LEMMA Founds ==
  ASSUME NEW kind \in {"run", "calibration"}, NEW contents, NEW observed
  PROVE  Found(kind, contents, observed) \in
           {"accept", "reject", "inconclusive", "qualified", "unqualified"}
BY DEF Found, Verdict

LEMMA ExecuteForm ==
  ASSUME Typed, NEW p \in Commands, Execute(p)
  PROVE  \E observed \in BOOLEAN : Executes(p, observed)
<1>1. /\ Running(p) /\ This(p).do = "execute"
      /\ UNCHANGED <<edits, tree, partial, whole, printed, touched>>
  BY DEF Execute, At
<1> DEFINE basis == [Seen(p, "loaded") EXCEPT !["candidate"] = tree["candidate"]]
           r(o) == [kind |-> This(p).kind, of |-> Seen(p, "frozen"),
                    result |-> Found(This(p).kind, basis, o)]
<1>2. PICK observed \in BOOLEAN :
        /\ Proceed(p, [process[p] EXCEPT !.record = r(observed)])
        /\ tainted' = IF p \in touched THEN tainted \cup {r(observed)} ELSE tainted
  BY DEF Execute
<1>3. r(observed) \in Record
  <2>1. This(p).kind \in {"run", "calibration"}
    BY <1>1, ToldAt DEF Tells
  <2>2. Seen(p, "frozen") \in [File -> Contents]
    BY <1>1, AtStep DEF Seen, Buffer
  <2>3. Found(This(p).kind, basis, observed) \in
          {"none", "accept", "reject", "inconclusive", "qualified", "unqualified"}
    BY <2>1, Founds
  <2> HIDE DEF basis
  <2>4. QED
    BY <2>1, <2>2, <2>3 DEF Record
<1>4. \A x \in Record : Proceed(p, [process[p] EXCEPT !.record = x]) =>
                          Goes(p, 1, process[p].seen, x)
  <2> SUFFICES ASSUME NEW x \in Record, Proceed(p, [process[p] EXCEPT !.record = x])
               PROVE  Goes(p, 1, process[p].seen, x)
    OBVIOUS
  <2> DEFINE t == [process[p] EXCEPT !.record = x]
  <2>1. /\ ProcessOK /\ StateOK(process[p]) /\ process[p] \in Underway
        /\ process[p].mode = "running"
    BY <1>1, AtStep, TypedInParts
  <2>2. /\ t \in Underway /\ t.mode = "running" /\ t.command = process[p].command
        /\ t.step = process[p].step /\ t.seen = process[p].seen /\ t.record = x
    BY <2>1 DEF Underway
  <2>3. StateOK(t)
    BY <2>1, <2>2 DEF StateOK
  <2>4. Skip(p, 1, t)
    BY DEF Proceed
  <2> HIDE DEF t
  <2>5. Skipped(p, 1, t)
    BY <2>1, <2>2, <2>3, <2>4, Skipping
  <2>6. QED
    BY <2>2, <2>5 DEF Skipped, Goes, Others
<1>5. Goes(p, 1, process[p].seen, r(observed))
  <2> HIDE DEF r
  <2>1. QED
    BY <1>2, <1>3, <1>4
<1>6. Executes(p, observed)
  BY <1>1, <1>2, <1>5 DEF Executes
<1>7. QED
  BY <1>6

LEMMA LastForms ==
  ASSUME Typed, NEW p \in Commands,
         \/ Look(p) \/ Open(p) \/ Compare(p) \/ RefuseConfirmation(p) \/ Crash(p)
  PROVE  Stops(p) \/ Passes(p)
<1>1. /\ Running(p) /\ ProcessOK
      /\ UNCHANGED <<edits, tree, partial, whole, printed, touched, tainted>>
  BY TypedInParts DEF Look, Open, Compare, RefuseConfirmation, Crash, At
<1>2. CASE Look(p)
  <2>1. Stage(p) \in {"draft", "runnable", "qualified"}
    BY DEF Stage
  <2>2. PICK s \in {Over, Failed, Crashed} \cup
                   {Said(x) : x \in {"draft", "runnable", "qualified"}} : Becomes(p, s)
    BY <1>2, <2>1 DEF Look, Fail
  <2>3. QED
    BY <1>1, <2>2, Ending DEF Stops
<1>3. CASE Open(p) \/ Compare(p)
  <2>1. CASE Fail(p)
    BY <1>1, <2>1, Ending DEF Fail, Stops
  <2>2. CASE Proceed(p, process[p])
    BY <1>1, <1>3, <2>2, Proceeding DEF Open, Compare, At, Passes
  <2>3. QED
    BY <1>3, <2>1, <2>2 DEF Open, Compare
<1>4. CASE RefuseConfirmation(p)
  BY <1>1, <1>4, Ending DEF RefuseConfirmation, Fail, Stops
<1>5. CASE Crash(p)
  BY <1>1, <1>5, Ending DEF Crash, Stops
<1>6. QED
  BY <1>2, <1>3, <1>4, <1>5

LEMMA Forms ==
  ASSUME Typed, NEW p \in Commands, Step(p) \/ Crash(p)
  PROVE  /\ Running(p)
         /\ \/ Stops(p) \/ Passes(p) \/ Creates(p)
            \/ \E b \in Buffer, f \in File : Sees(p, b, f)
            \/ \E x \in Contents : \E seen : Confirms(p, x, seen)
            \/ \E n \in {1, 2} : Has(p, n)
            \/ \E observed \in BOOLEAN : Executes(p, observed)
<1>1. Running(p)
  BY DEF Step, Crash, LoadFile, ReadFile, Truncate, RefuseConfirmation, WriteDomain,
         Create, Fill, Verify, Execute, Look, Open, Compare, At
<1>2. "frozen" \in Buffer
  BY DEF Buffer
<1>3. CASE LoadFile(p) \/ ReadFile(p)
  BY <1>1, <1>2, <1>3, LoadFileForm, ReadFileForm
<1>4. CASE Truncate(p) \/ WriteDomain(p)
  BY <1>1, <1>4, ConfirmForm
<1>5. CASE Create(p) \/ Fill(p) \/ Verify(p)
  BY <1>1, <1>5, PersistForm
<1>6. CASE Execute(p)
  BY <1>1, <1>6, ExecuteForm
<1>7. CASE Look(p) \/ Open(p) \/ Compare(p) \/ RefuseConfirmation(p) \/ Crash(p)
  BY <1>1, <1>7, LastForms
<1>8. QED
  BY <1>3, <1>4, <1>5, <1>6, <1>7 DEF Step

Starts(p, c, r) ==
  /\ ~Running(p) /\ Others(p) /\ ProcessOK'
  /\ process'[p] = Given(c, r)
  /\ process'[p].mode = "running"
  /\ r = Release(Nothing["frozen"]) \/ r \in whole \cup partial
  /\ UNCHANGED <<edits, tree, partial, whole, printed, touched, tainted>>

LEMMA BeginForm ==
  ASSUME Typed, NEW p \in Commands, Begin(p)
  PROVE  \E c \in DOMAIN Script, r \in Record : Starts(p, c, r)
<1>1. /\ ProcessOK /\ Rest /\ process[p] = Idle
      /\ UNCHANGED <<edits, tree, partial, whole, printed, touched, tainted>>
  BY TypedInParts DEF Begin
<1>2. ~Running(p)
  BY <1>1 DEF Running, Idle
<1>3. Release(Nothing["frozen"]) \in Record
  <2>1. Nothing["frozen"] \in [File -> Contents]
    BY Blank DEF Buffer
  <2>2. QED
    BY <2>1, Releases
<1>4. "replay" \in DOMAIN Script
  BY Scripts
<1>5. PICK c \in DOMAIN Script, r \in Record :
        /\ Becomes(p, Given(c, r))
        /\ r = Release(Nothing["frozen"]) \/ r \in whole \cup partial
  BY <1>1, <1>3, <1>4 DEF Begin, Rest
<1>6. StateOK(Given(c, r)) /\ Given(c, r).mode = "running"
  BY GivenOK
<1>7. Starts(p, c, r)
  BY <1>1, <1>2, <1>5, <1>6, Becoming DEF Starts, Others
<1>8. QED
  BY <1>7

(***************************************************************************)
(* The types stay.                                                         *)
(***************************************************************************)
LEMMA InitTyped == Init => Typed
<1> SUFFICES ASSUME Init PROVE Rest /\ ProcessOK
  BY TypedInParts
<1>1. Rest
  BY CapsuleAssumption DEF Init, Rest, Contents
<1>2. StateOK(Idle)
  BY DEF StateOK, Idle
<1>3. QED
  BY <1>1, <1>2 DEF Init, ProcessOK

LEMMA PersistedRecord ==
  ASSUME Typed, NEW p \in Commands, Running(p)
  PROVE  ToPersist(p) \in Record
<1>1. Seen(p, "frozen") \in [File -> Contents] /\ process[p].record \in Record
  BY AtStep DEF Seen, Buffer
<1>2. QED
  BY <1>1, Releases DEF ToPersist

LEMMA EditTyped ==
  ASSUME Typed, NEW f \in File, Edit(f)
  PROVE  Typed'
<1>1. Rest /\ ProcessOK
  BY TypedInParts
<1>2. PICK x \in SUBSET Claims : Change(f, x, {})
  BY DEF Edit
<1>3. x \in Contents
  BY DEF Contents
<1>4. tree' \in [File -> Contents] /\ touched' \subseteq Commands
  BY <1>1, <1>2, <1>3, Changing
<1>5. Rest'
  <2>1. edits' \in 0 .. MaxEdits
    BY <1>1, CapsuleAssumption DEF Edit, Rest
  <2>2. QED
    BY <1>1, <1>4, <2>1 DEF Edit, Rest
<1>6. ProcessOK'
  BY <1>1 DEF Edit, ProcessOK
<1>7. QED
  BY <1>5, <1>6, TypedInParts

LEMMA ExecutedRecord ==
  ASSUME Typed, NEW p \in Commands, Running(p), This(p).do = "execute",
         NEW basis, NEW observed
  PROVE  [kind |-> This(p).kind, of |-> Seen(p, "frozen"),
          result |-> Found(This(p).kind, basis, observed)] \in Record
<1>1. This(p).kind \in {"run", "calibration"}
  BY ToldAt DEF Tells
<1>2. Seen(p, "frozen") \in [File -> Contents]
  BY AtStep DEF Seen, Buffer
<1>3. Found(This(p).kind, basis, observed) \in
        {"none", "accept", "reject", "inconclusive", "qualified", "unqualified"}
  BY <1>1, Founds
<1>4. QED
  BY <1>1, <1>2, <1>3 DEF Record

LEMMA NextTyped == Typed /\ [Next]_vars => Typed'
<1> SUFFICES ASSUME Typed, [Next]_vars PROVE Typed'
  OBVIOUS
<1>1. Rest /\ ProcessOK
  BY TypedInParts
<1>2. ASSUME NEW f \in File, Edit(f) PROVE Typed'
  BY <1>2, EditTyped
<1>3. ASSUME NEW p \in Commands, Begin(p) PROVE Typed'
  <2>1. ProcessOK' /\ UNCHANGED <<edits, tree, partial, whole, printed, touched, tainted>>
    BY <1>3, BeginForm DEF Starts
  <2>2. QED
    BY <1>1, <2>1, TypedInParts DEF Rest
<1>4. ASSUME NEW p \in Commands, Step(p) \/ Crash(p) PROVE Typed'
  <2>1. Running(p)
    BY <1>4, Forms
  <2>2. CASE \/ Stops(p) \/ Passes(p) \/ \E b \in Buffer, f \in File : Sees(p, b, f)
    <3>1. ProcessOK' /\ UNCHANGED <<edits, tree, partial, whole, printed, touched, tainted>>
      BY <2>2 DEF Stops, Passes, Sees, GoesOn, Goes
    <3>2. QED
      BY <1>1, <3>1, TypedInParts DEF Rest
  <2>3. CASE Creates(p) \/ \E n \in {1, 2} : Has(p, n)
    <3>1. /\ ProcessOK' /\ UNCHANGED <<edits, tree, touched, tainted>>
          /\ partial' \subseteq partial \cup {ToPersist(p)}
          /\ whole' \subseteq whole \cup {ToPersist(p)}
          /\ printed' \subseteq printed \cup {ToPersist(p)}
      BY <2>3 DEF Creates, Has, GoesOn, Goes, PrintRef
    <3>2. ToPersist(p) \in Record
      BY <2>1, PersistedRecord
    <3>3. QED
      BY <1>1, <3>1, <3>2, TypedInParts DEF Rest
  <2>4. ASSUME NEW x \in Contents, NEW seen, Confirms(p, x, seen)
        PROVE  Typed'
    <3>1. /\ ProcessOK' /\ UNCHANGED <<edits, partial, whole, printed, tainted>>
          /\ Change("domain", x, {p})
      BY <2>4 DEF Confirms, Goes
    <3>2. tree' \in [File -> Contents] /\ touched' \subseteq Commands
      BY <1>1, <3>1, Changing DEF File
    <3>3. QED
      BY <1>1, <3>1, <3>2, TypedInParts DEF Rest
  <2>5. ASSUME NEW observed \in BOOLEAN, Executes(p, observed)
        PROVE  Typed'
    <3>1. PICK r \in Record : tainted' \subseteq tainted \cup {r}
      BY <2>1, <2>5, ExecutedRecord DEF Executes
    <3>2. ProcessOK' /\ UNCHANGED <<edits, tree, partial, whole, printed, touched>>
      BY <2>5 DEF Executes, Goes
    <3>3. QED
      BY <1>1, <3>1, <3>2, TypedInParts DEF Rest
  <2>6. QED
    BY <1>4, <2>2, <2>3, <2>4, <2>5, Forms
<1>5. CASE UNCHANGED vars
  BY <1>1, <1>5, TypedInParts DEF vars, Rest, ProcessOK
<1>6. QED
  BY <1>2, <1>3, <1>4, <1>5 DEF Next

(***************************************************************************)
(* The types of the Capsule, whatever its commands interleave with: a      *)
(* command is at a step of its script and has read contents, and what is   *)
(* under .eval/ are records.                                               *)
(***************************************************************************)
THEOREM CapsuleTyped == Spec => []TypeOK
<1>1. Spec => []Typed
  BY InitTyped, NextTyped, PTL DEF Spec
<1>2. Typed => TypeOK
  BY DEF Typed
<1>3. QED
  BY <1>1, <1>2, PTL

-----------------------------------------------------------------------------
(***************************************************************************)
(* A command under which the directory has not changed has seen what is    *)
(* there, of every file its script has read so far.                        *)
(***************************************************************************)
Seeing(at, seen, directory) ==
  /\ at.do = "load" => seen[at.in][at.file] = directory[at.file]
  /\ at.do = "read" => seen["frozen"][at.file] = directory[at.file]

Mirror(s, directory) ==
  \A k \in 1 .. (s.step - 1) : Seeing(Script[s.command][k], s.seen, directory)

Mirrors ==
  \A p \in Commands \ touched :
    Running(p) /\ process[p].command # "confirm" => Mirror(process[p], tree)

LEMMA MirrorGrows ==
  ASSUME Typed, NEW p \in Commands, Running(p), Mirror(process[p], tree),
         NEW n \in {1, 2}, n = 2 => This(p).do = "create",
         NEW seen, NEW record, Goes(p, n, seen, record), process'[p].mode = "running",
         This(p).do = "load" => seen[This(p).in][This(p).file] = tree[This(p).file],
         This(p).do = "read" => seen["frozen"][This(p).file] = tree[This(p).file],
         \A b \in Buffer, f \in File : seen[b][f] \in {process[p].seen[b][f], tree[f]}
  PROVE  Mirror(process'[p], tree)
<1> DEFINE c == process[p].command
           i == process[p].step
<1>1. /\ c \in DOMAIN Script /\ i \in 1 .. Len(Script[c])
      /\ This(p) = Script[c][i]
      /\ Len(Script[c]) \in Nat
  BY AtStep, Scripts, ScriptLengths
<1>0. i \in Nat /\ 1 <= i
  BY <1>1
<1>2. process'[p].command = c /\ process'[p].step = i + n /\ process'[p].seen = seen
  <2>1. process'[p].mode # "over"
    OBVIOUS
  <2> QED
    BY <2>1 DEF Goes, Over
<1>3. Seeing(This(p), seen, tree)
  BY DEF Seeing
<1>4. ASSUME NEW k \in 1 .. (i - 1) PROVE Seeing(Script[c][k], seen, tree)
  <2>4. \A a, b \in Nat : a <= b => \A j \in 1 .. (a - 1) : j \in 1 .. b
    OBVIOUS
  <2>5. i \in Nat /\ i <= Len(Script[c])
    BY <1>1
  <2>6. k \in 1 .. (i - 1)
    BY <1>4
  <2> HIDE DEF c, i
  <2>1. k \in 1 .. Len(Script[c])
    BY <1>1, <2>4, <2>5, <2>6
  <2> USE DEF c, i
  <2>2. Seeing(Script[c][k], process[p].seen, tree)
    BY DEF Mirror
  <2>3. Tells(Script[c][k], c, k)
    BY <1>1, <2>1, StepTells
  <2> QED
    BY <2>2, <2>3 DEF Tells, Seeing, Buffer
<1>5. ASSUME n = 2 PROVE Seeing(Script[c][i + 1], seen, tree)
  <2>1. Script[c][i + 1].do = "fill"
    BY <1>1, <1>5, ToldAt DEF Tells
  <2> QED
    BY <2>1 DEF Seeing
<1> HIDE DEF c, i
<1>6. ASSUME NEW k \in 1 .. (i + n - 1) PROVE Seeing(Script[c][k], seen, tree)
  <2>1. k \in Nat /\ 1 <= k /\ k <= i + n - 1 /\ (n = 1 \/ n = 2)
    BY <1>0
  <2>2. k <= i - 1 \/ k = i \/ (n = 2 /\ k = i + 1)
    BY <2>1, <1>0
  <2>3. k \in 1 .. (i - 1) \/ k = i \/ (n = 2 /\ k = i + 1)
    BY <2>1, <2>2, <1>0
  <2> QED
    BY <1>1, <1>3, <1>4, <1>5, <2>3
<1>7. ASSUME NEW k \in 1 .. (process'[p].step - 1)
      PROVE  Seeing(Script[process'[p].command][k], process'[p].seen, tree)
  <2>1. process'[p].step - 1 = i + n - 1
    BY <1>0, <1>2
  <2>2. k \in 1 .. (i + n - 1)
    BY <2>1
  <2> QED
    BY <1>2, <1>6, <2>2
<1> QED
  BY <1>7 DEF Mirror

LEMMA MirrorsStay ==
  ASSUME Typed, Mirrors, [Next]_vars
  PROVE  Mirrors'
<1> SUFFICES ASSUME NEW q \in Commands \ touched', Running(q)',
                    process'[q].command # "confirm"
             PROVE  Mirror(process'[q], tree')
  BY DEF Mirrors
<1>1. Rest /\ process'[q].mode = "running"
  BY TypedInParts DEF Running
<1>2. ASSUME process'[q] = process[q], tree' = tree, q \notin touched
      PROVE  Mirror(process'[q], tree')
  BY <1>1, <1>2 DEF Mirrors, Running
<1>3. ASSUME NEW f \in File, Edit(f)
      PROVE  Mirror(process'[q], tree')
  <2>1. PICK x \in SUBSET Claims : Change(f, x, {})
    BY <1>3 DEF Edit
  <2>2. Running(q)
    BY <1>1, <1>3 DEF Edit, Running
  <2>3. q \in touched'
    BY <2>1, <2>2 DEF Change
  <2>4. QED
    BY <2>3
<1>4. ASSUME NEW p \in Commands, Begin(p)
      PROVE  Mirror(process'[q], tree')
  <2>1. PICK c \in DOMAIN Script, r \in Record : Starts(p, c, r)
    BY <1>4, BeginForm
  <2>2. CASE q = p
    <3>1. process'[q].step = 1
      BY <2>1, <2>2 DEF Starts, Given
    <3>2. 1 .. (process'[q].step - 1) = {}
      BY <3>1
    <3>3. QED
      BY <3>2 DEF Mirror
  <2>3. CASE q # p
    BY <1>2, <2>1, <2>3 DEF Starts, Others
  <2>4. QED
    BY <2>2, <2>3
<1>5. ASSUME NEW p \in Commands, Step(p) \/ Crash(p)
      PROVE  Mirror(process'[q], tree')
  <2>1. Running(p)
    BY <1>5, Forms
  <2>2. ASSUME NEW x \in Contents, NEW seen, Confirms(p, x, seen)
        PROVE  Mirror(process'[q], tree')
    <3>1. CASE q = p
      <4>1. process'[p].command = "confirm"
        BY <1>1, <2>2, <3>1 DEF Confirms, Goes, Over
      <4>2. QED
        BY <3>1, <4>1
    <3>2. CASE q # p
      <4>1. process'[q] = process[q]
        BY <2>2, <3>2 DEF Confirms, Goes, Others
      <4>2. q \in touched'
        BY <1>1, <2>2, <3>2, <4>1 DEF Confirms, Change, Running
      <4>3. QED
        BY <4>2
    <3>3. QED
      BY <3>1, <3>2
  <2>3. ASSUME NEW n \in {1, 2}, NEW seen, NEW record, Goes(p, n, seen, record),
               n = 2 => This(p).do = "create",
               UNCHANGED <<tree, touched>>,
               This(p).do = "load" => seen[This(p).in][This(p).file] = tree[This(p).file],
               This(p).do = "read" => seen["frozen"][This(p).file] = tree[This(p).file],
               \A b \in Buffer, f \in File : seen[b][f] \in {process[p].seen[b][f], tree[f]}
        PROVE  Mirror(process'[q], tree')
    <3>1. CASE q = p
      <4>1. process'[p].command = process[p].command
        BY <1>1, <2>3, <3>1 DEF Goes, Over
      <4>2. Mirror(process[p], tree)
        BY <2>1, <2>3, <3>1, <4>1 DEF Mirrors
      <4>3. Mirror(process'[p], tree)
        BY <1>1, <2>1, <2>3, <3>1, <4>2, MirrorGrows
      <4>4. QED
        BY <2>3, <3>1, <4>3
    <3>2. CASE q # p
      BY <1>2, <2>3, <3>2 DEF Goes, Others
    <3>3. QED
      BY <3>1, <3>2
  <2>4. ASSUME Stops(p)
        PROVE  Mirror(process'[q], tree')
    BY <1>1, <1>2, <2>4 DEF Stops, Others
  <2>5. ASSUME \/ Passes(p) \/ Creates(p) \/ \E n \in {1, 2} : Has(p, n)
               \/ \E observed \in BOOLEAN : Executes(p, observed)
        PROVE  Mirror(process'[q], tree')
    <3>1. PICK n, record :
            /\ n \in {1, 2} /\ Goes(p, n, process[p].seen, record)
            /\ n = 2 => This(p).do = "create"
            /\ This(p).do \notin {"load", "read"}
            /\ UNCHANGED <<tree, touched>>
      <4>1. CASE Passes(p) \/ Creates(p)
        BY <4>1 DEF Passes, Creates, GoesOn
      <4>2. ASSUME NEW n \in {1, 2}, Has(p, n)
            PROVE  /\ Goes(p, n, process[p].seen, process[p].record)
                   /\ n = 2 => This(p).do = "create"
                   /\ This(p).do \notin {"load", "read"}
                   /\ UNCHANGED <<tree, touched>>
        BY <4>2 DEF Has, GoesOn
      <4>3. ASSUME NEW observed \in BOOLEAN, Executes(p, observed)
            PROVE  \E record : /\ Goes(p, 1, process[p].seen, record)
                               /\ This(p).do \notin {"load", "read"}
                               /\ UNCHANGED <<tree, touched>>
        BY <4>3 DEF Executes
      <4>4. QED
        BY <2>5, <4>1, <4>2, <4>3
    <3>2. QED
      BY <2>3, <3>1
  <2>6. ASSUME NEW b \in Buffer, NEW f \in File, Sees(p, b, f)
        PROVE  Mirror(process'[q], tree')
    <3> DEFINE seen == [process[p].seen EXCEPT ![b][f] = tree[f]]
    <3>1. /\ Goes(p, 1, seen, process[p].record)
          /\ UNCHANGED <<tree, touched>>
          /\ \/ This(p).do = "load" /\ This(p).in = b /\ This(p).file = f
             \/ This(p).do = "read" /\ "frozen" = b /\ This(p).file = f
      BY <2>6 DEF Sees
    <3>2. process[p].seen \in [Buffer -> [File -> Contents]]
      BY <2>1, AtStep
    <3>3. /\ seen[b][f] = tree[f]
          /\ \A d \in Buffer, g \in File : seen[d][g] \in {process[p].seen[d][g], tree[g]}
      BY <3>2
    <3> HIDE DEF seen
    <3>4. QED
      BY <2>3, <3>1, <3>3
  <2>7. QED
    BY <1>5, <2>2, <2>4, <2>5, <2>6, Forms
<1>6. CASE UNCHANGED vars
  BY <1>2, <1>6 DEF vars
<1>7. QED
  BY <1>3, <1>4, <1>5, <1>6 DEF Next

-----------------------------------------------------------------------------
(***************************************************************************)
(* What a verdict says of the contents it is computed of.                  *)
(***************************************************************************)
LEMMA VerdictSays ==
  ASSUME NEW contents, NEW observed
  PROVE  /\ Verdict(contents, observed) = "accept" =>
              Judged(contents) /\ Claims \subseteq contents["candidate"]
         /\ Verdict(contents, observed) = "reject" =>
              Judged(contents) /\ ~(Claims \subseteq contents["candidate"])
<1> DEFINE status(c) == Status(c, contents, observed)
           statuses == {status(c) : c \in Claims}
<1>1. ASSUME statuses \cap {"inconclusive", "measurement_error"} = {}, NEW c \in Claims
      PROVE  /\ c \in contents["domain"] \cap contents["evaluator"]
             /\ status(c) = IF c \in contents["candidate"] THEN "pass" ELSE "fail"
  <2>1. status(c) \in statuses
    OBVIOUS
  <2>2. status(c) \notin {"inconclusive", "measurement_error"}
    BY <1>1, <2>1
  <2>3. QED
    BY <2>2 DEF Status
<1> HIDE DEF status
<1>2. Verdict(contents, observed) = "accept" =>
        statuses \cap {"inconclusive", "measurement_error"} = {} /\ "fail" \notin statuses
  BY DEF Verdict, status
<1>3. Verdict(contents, observed) = "reject" =>
        statuses \cap {"inconclusive", "measurement_error"} = {} /\ "fail" \in statuses
  BY DEF Verdict, status
<1>4. QED
  BY <1>1, <1>2, <1>3 DEF Judged

LEMMA FoundHolds ==
  ASSUME NEW kind \in {"run", "calibration"}, NEW contents, NEW basis, NEW observed,
         \A f \in File : basis[f] = contents[f]
  PROVE  Holds([kind |-> kind, of |-> contents, result |-> Found(kind, basis, observed)])
<1> DEFINE r == [kind |-> kind, of |-> contents, result |-> Found(kind, basis, observed)]
<1>1. /\ Judged(basis) <=> Judged(contents)
      /\ basis["candidate"] = contents["candidate"]
      /\ Verdict(basis, observed) \in {"accept", "reject", "inconclusive"}
  BY DEF Judged, File, Verdict
<1>2. r.result \in {"accept", "qualified"} =>
        Judged(contents) /\ Claims \subseteq contents["candidate"]
  BY <1>1, VerdictSays DEF Found
<1>3. r.result = "reject" => Judged(contents) /\ ~(Claims \subseteq contents["candidate"])
  BY <1>1, VerdictSays DEF Found
<1>4. r.of = contents
  OBVIOUS
<1> HIDE DEF r
<1>5. Holds(r)
  BY <1>2, <1>3, <1>4 DEF Holds
<1>6. QED
  BY <1>5 DEF r

(***************************************************************************)
(* What a command has read when it executes the Candidate, or looks, or    *)
(* compares.                                                               *)
(***************************************************************************)
LEMMA EvaluationReads ==
  ASSUME NEW kind \in {"run", "calibration"}
  PROVE  /\ Evaluation(kind)[1] = Load("domain", "loaded")
         /\ Evaluation(kind)[2] = Load("evaluator", "loaded")
         /\ Evaluation(kind)[5] = Read("candidate")
         /\ Evaluation(kind)[6] = Read("domain")
         /\ Evaluation(kind)[7] = Read("evaluator")
BY DEF Evaluation

LEMMA EvaluationSeen ==
  ASSUME Typed, NEW p \in Commands, Running(p), Mirror(process[p], tree),
         process[p].command \in Evaluating, process[p].step = 10
  PROVE  /\ Seen(p, "loaded")["domain"] = tree["domain"]
         /\ Seen(p, "loaded")["evaluator"] = tree["evaluator"]
         /\ \A f \in File : Seen(p, "frozen")[f] = tree[f]
<1> DEFINE s == process[p]
<1>1. PICK kind \in {"run", "calibration"} : Script[s.command] = Evaluation(kind)
  BY Scripts DEF Evaluating
<1>2. \A k \in {1, 2, 5, 6, 7} :
        LET at == Evaluation(kind)[k]
        IN  /\ at.do = "load" => s.seen[at.in][at.file] = tree[at.file]
            /\ at.do = "read" => s.seen["frozen"][at.file] = tree[at.file]
  <2>1. \A k \in {1, 2, 5, 6, 7} : k \in 1 .. (s.step - 1)
    OBVIOUS
  <2>2. QED
    BY <1>1, <2>1 DEF Mirror, Seeing
<1>3. /\ s.seen["loaded"]["domain"] = tree["domain"]
      /\ s.seen["loaded"]["evaluator"] = tree["evaluator"]
      /\ s.seen["frozen"]["candidate"] = tree["candidate"]
      /\ s.seen["frozen"]["domain"] = tree["domain"]
      /\ s.seen["frozen"]["evaluator"] = tree["evaluator"]
  BY <1>2, EvaluationReads DEF Load, Read
<1>4. QED
  BY <1>3 DEF Seen, File

LEMMA ReadinessSeen ==
  ASSUME Typed, NEW p \in Commands, Running(p), Mirror(process[p], tree),
         process[p].command = "doctor", process[p].step = 6
  PROVE  \A f \in File : Seen(p, "frozen")[f] = tree[f]
<1> DEFINE s == process[p]
<1>1. /\ Readiness[3] = Read("candidate") /\ Readiness[4] = Read("domain")
      /\ Readiness[5] = Read("evaluator")
  BY DEF Readiness
<1>2. \A k \in {3, 4, 5} : Readiness[k].do = "read" =>
        s.seen["frozen"][Readiness[k].file] = tree[Readiness[k].file]
  <2>1. \A k \in {3, 4, 5} : k \in 1 .. (s.step - 1)
    OBVIOUS
  <2>2. QED
    BY <2>1, Scripts DEF Mirror, Seeing
<1>3. /\ s.seen["frozen"]["candidate"] = tree["candidate"]
      /\ s.seen["frozen"]["domain"] = tree["domain"]
      /\ s.seen["frozen"]["evaluator"] = tree["evaluator"]
  BY <1>1, <1>2 DEF Read
<1>4. QED
  BY <1>3 DEF Seen, File

LEMMA ReplayingSeen ==
  ASSUME Typed, NEW p \in Commands, Running(p), Mirror(process[p], tree),
         process[p].command = "replay", process[p].step \in {7, 13}
  PROVE  Seen(p, "frozen") = tree
<1> DEFINE s == process[p]
<1>1. /\ Replaying[4] = Read("candidate") /\ Replaying[5] = Read("domain")
      /\ Replaying[6] = Read("evaluator")
  BY DEF Replaying
<1>2. \A k \in {4, 5, 6} : Replaying[k].do = "read" =>
        s.seen["frozen"][Replaying[k].file] = tree[Replaying[k].file]
  <2>1. \A k \in {4, 5, 6} : k \in 1 .. (s.step - 1)
    OBVIOUS
  <2>2. QED
    BY <2>1, Scripts DEF Mirror, Seeing
<1>3. /\ s.seen["frozen"]["candidate"] = tree["candidate"]
      /\ s.seen["frozen"]["domain"] = tree["domain"]
      /\ s.seen["frozen"]["evaluator"] = tree["evaluator"]
  BY <1>1, <1>2 DEF Read
<1>4. Seen(p, "frozen") \in [File -> Contents] /\ tree \in [File -> Contents]
  BY AtStep, TypedInParts DEF Seen, Buffer, Rest
<1>5. QED
  BY <1>3, <1>4 DEF Seen, File

-----------------------------------------------------------------------------
(***************************************************************************)
(* The record of a command that is under way says what is so, or was       *)
(* computed while the directory changed.                                   *)
(***************************************************************************)
RecordsHold ==
  \A p \in Commands : Running(p) => process[p].record \in tainted \/ Holds(process[p].record)

LEMMA ReleasesHold ==
  ASSUME NEW contents
  PROVE  Holds(Release(contents))
BY DEF Holds, Release

LEMMA ExecutedHolds ==
  ASSUME Typed, Mirrors, NEW p \in Commands, Running(p), NEW observed,
         Executes(p, observed), process'[p].mode = "running"
  PROVE  process'[p].record \in tainted' \/ Holds(process'[p].record)
<1> DEFINE basis == [Seen(p, "loaded") EXCEPT !["candidate"] = tree["candidate"]]
           r == [kind |-> This(p).kind, of |-> Seen(p, "frozen"),
                 result |-> Found(This(p).kind, basis, observed)]
<1>1. /\ This(p).do = "execute"
      /\ process'[p].record = r
      /\ tainted' = IF p \in touched THEN tainted \cup {r} ELSE tainted
  BY DEF Executes, Goes, Over
<1>2. CASE p \in touched
  BY <1>1, <1>2
<1>3. CASE p \notin touched
  <2>1. /\ process[p].command \in Evaluating /\ process[p].step = 10
        /\ This(p).kind \in {"run", "calibration"}
    BY <1>1, ToldAt DEF Tells
  <2>2. Mirror(process[p], tree)
    BY <1>3, <2>1 DEF Mirrors, Evaluating
  <2>3. /\ Seen(p, "loaded")["domain"] = tree["domain"]
        /\ Seen(p, "loaded")["evaluator"] = tree["evaluator"]
        /\ \A f \in File : Seen(p, "frozen")[f] = tree[f]
    BY <2>1, <2>2, EvaluationSeen
  <2>4. Seen(p, "loaded") \in [File -> Contents]
    BY AtStep DEF Seen, Buffer
  <2>5. \A f \in File : basis[f] = Seen(p, "frozen")[f]
    BY <2>3, <2>4 DEF File
  <2> HIDE DEF basis
  <2>6. QED
    BY <1>1, <2>1, <2>5, FoundHolds
<1>4. QED
  BY <1>2, <1>3

LEMMA RecordsHoldStay ==
  ASSUME Typed, Mirrors, RecordsHold, UntouchedRecordsHold, [Next]_vars
  PROVE  RecordsHold'
<1> SUFFICES ASSUME NEW q \in Commands, Running(q)'
             PROVE  process'[q].record \in tainted' \/ Holds(process'[q].record)
  BY DEF RecordsHold
<1>1. Rest /\ process'[q].mode = "running"
  BY TypedInParts DEF Running
<1>2. ASSUME process'[q] = process[q], tainted \subseteq tainted'
      PROVE  process'[q].record \in tainted' \/ Holds(process'[q].record)
  BY <1>1, <1>2 DEF RecordsHold, Running
<1>3. ASSUME NEW f \in File, Edit(f)
      PROVE  process'[q].record \in tainted' \/ Holds(process'[q].record)
  BY <1>2, <1>3 DEF Edit
<1>4. ASSUME NEW p \in Commands, Begin(p)
      PROVE  process'[q].record \in tainted' \/ Holds(process'[q].record)
  <2>1. PICK c \in DOMAIN Script, r \in Record : Starts(p, c, r)
    BY <1>4, BeginForm
  <2>2. r \in tainted \/ Holds(r)
    BY <2>1, ReleasesHold DEF Starts, UntouchedRecordsHold
  <2>3. q = p => process'[q].record = r
    BY <2>1 DEF Starts, Given
  <2>4. UNCHANGED tainted /\ Others(p)
    BY <2>1 DEF Starts
  <2>5. QED
    BY <1>2, <2>2, <2>3, <2>4 DEF Others
<1>5. ASSUME NEW p \in Commands, Step(p) \/ Crash(p)
      PROVE  process'[q].record \in tainted' \/ Holds(process'[q].record)
  <2>1. Running(p)
    BY <1>5, Forms
  <2>2. ASSUME NEW n, NEW seen, Goes(p, n, seen, process[p].record), UNCHANGED tainted
        PROVE  process'[q].record \in tainted' \/ Holds(process'[q].record)
    <3>1. CASE q = p
      <4>1. process'[p].record = process[p].record
        BY <1>1, <2>2, <3>1 DEF Goes, Over
      <4>2. QED
        BY <2>1, <2>2, <3>1, <4>1 DEF RecordsHold
    <3>2. CASE q # p
      BY <1>2, <2>2, <3>2 DEF Goes, Others
    <3>3. QED
      BY <3>1, <3>2
  <2>3. CASE Stops(p)
    BY <1>1, <1>2, <2>3 DEF Stops, Others
  <2>4. CASE Passes(p) \/ Creates(p)
    BY <2>2, <2>4 DEF Passes, Creates, GoesOn
  <2>5. ASSUME NEW n \in {1, 2}, Has(p, n)
        PROVE  process'[q].record \in tainted' \/ Holds(process'[q].record)
    BY <2>2, <2>5 DEF Has, GoesOn
  <2>6. ASSUME NEW b \in Buffer, NEW f \in File, Sees(p, b, f)
        PROVE  process'[q].record \in tainted' \/ Holds(process'[q].record)
    BY <2>2, <2>6 DEF Sees
  <2>7. ASSUME NEW x \in Contents, NEW seen, Confirms(p, x, seen)
        PROVE  process'[q].record \in tainted' \/ Holds(process'[q].record)
    BY <2>2, <2>7 DEF Confirms
  <2>8. ASSUME NEW observed \in BOOLEAN, Executes(p, observed)
        PROVE  process'[q].record \in tainted' \/ Holds(process'[q].record)
    <3>1. CASE q = p
      BY <1>1, <2>1, <2>8, <3>1, ExecutedHolds
    <3>2. CASE q # p
      BY <1>2, <2>8, <3>2 DEF Executes, Goes, Others
    <3>3. QED
      BY <3>1, <3>2
  <2>9. QED
    BY <1>5, <2>3, <2>4, <2>5, <2>6, <2>7, <2>8, Forms
<1>6. CASE UNCHANGED vars
  BY <1>2, <1>6 DEF vars
<1>7. QED
  BY <1>3, <1>4, <1>5, <1>6 DEF Next

(***************************************************************************)
(* What lies under .eval/ changes only when a command persists; nothing    *)
(* that is all there goes away.                                            *)
(***************************************************************************)
Keeps == UNCHANGED <<partial, whole, printed>> /\ tainted \subseteq tainted'

LEMMA StoreSteps ==
  ASSUME Typed, [Next]_vars
  PROVE  \/ Keeps
         \/ \E p \in Commands :
              Running(p) /\ (Creates(p) \/ \E n \in {1, 2} : Has(p, n))
<1>1. ASSUME NEW p \in Commands, Begin(p) PROVE Keeps
  BY <1>1, BeginForm DEF Starts, Keeps
<1>2. ASSUME NEW p \in Commands, Step(p) \/ Crash(p)
      PROVE  Keeps \/ (Running(p) /\ (Creates(p) \/ \E n \in {1, 2} : Has(p, n)))
  <2>1. CASE Stops(p) \/ Passes(p)
    BY <2>1 DEF Stops, Passes, Keeps
  <2>2. ASSUME NEW b \in Buffer, NEW f \in File, Sees(p, b, f) PROVE Keeps
    BY <2>2 DEF Sees, Keeps
  <2>3. ASSUME NEW x \in Contents, NEW seen, Confirms(p, x, seen) PROVE Keeps
    BY <2>3 DEF Confirms, Keeps
  <2>4. ASSUME NEW observed \in BOOLEAN, Executes(p, observed) PROVE Keeps
    BY <2>4 DEF Executes, Keeps
  <2>5. QED
    BY <1>2, <2>1, <2>2, <2>3, <2>4, Forms
<1>3. ASSUME NEW f \in File, Edit(f) PROVE Keeps
  BY <1>3 DEF Edit, Keeps
<1>4. CASE UNCHANGED vars
  BY <1>4 DEF vars, Keeps
<1>5. QED
  BY <1>1, <1>2, <1>3, <1>4 DEF Next

LEMMA WholeGrows ==
  ASSUME Typed, [Next]_vars
  PROVE  whole \subseteq whole'
BY StoreSteps DEF Keeps, Creates, Has

LEMMA UntouchedRecordsStay ==
  ASSUME Typed, RecordsHold, UntouchedRecordsHold, [Next]_vars
  PROVE  UntouchedRecordsHold'
<1>1. CASE Keeps
  BY <1>1 DEF Keeps, UntouchedRecordsHold
<1>2. ASSUME NEW p \in Commands, Running(p), Creates(p) \/ \E n \in {1, 2} : Has(p, n)
      PROVE  UntouchedRecordsHold'
  <2>1. /\ whole' \cup partial' \subseteq whole \cup partial \cup {ToPersist(p)}
        /\ UNCHANGED tainted
    BY <1>2 DEF Creates, Has
  <2>2. ToPersist(p) \in tainted \/ Holds(ToPersist(p))
    BY <1>2, ReleasesHold DEF ToPersist, RecordsHold
  <2>3. QED
    BY <2>1, <2>2 DEF UntouchedRecordsHold
<1>3. QED
  BY <1>1, <1>2, StoreSteps

-----------------------------------------------------------------------------
(***************************************************************************)
(* An evaluation executes when the release it names is all there.          *)
(***************************************************************************)
Backed(s) ==
  s.command \in Evaluating =>
    /\ s.step >= 10 => Release(s.seen["frozen"]) \in whole
    /\ s.step >= 11 => s.record.of = s.seen["frozen"]

ReleasedFirst == \A p \in Commands : Running(p) => Backed(process[p])

LEMMA EvaluatingAt ==
  ASSUME Typed, NEW p \in Commands, Running(p), process[p].command \in Evaluating
  PROVE  /\ process[p].step \in 1 .. 12
         /\ This(p).do \in {"load", "read", "create", "fill", "execute"}
         /\ This(p).do = "create" <=> process[p].step \in {8, 11}
         /\ This(p).do = "fill" <=> process[p].step \in {9, 12}
         /\ This(p).do = "execute" <=> process[p].step = 10
         /\ process[p].step \in {8, 9} => ToPersist(p) = Release(Seen(p, "frozen"))
<1>1. PICK kind \in {"run", "calibration"} : Script[process[p].command] = Evaluation(kind)
  BY Scripts DEF Evaluating
<1>2. process[p].step \in 1 .. 12 /\ This(p) = Evaluation(kind)[process[p].step]
  BY <1>1, AtStep, ScriptLengths, Scripts DEF Evaluating
<1>3. QED
  BY <1>2, EvaluationSteps DEF ToPersist

LEMMA ReleasedFirstStays ==
  ASSUME Typed, ReleasedFirst, [Next]_vars
  PROVE  ReleasedFirst'
<1> SUFFICES ASSUME NEW q \in Commands, Running(q)', process'[q].command \in Evaluating
             PROVE  /\ process'[q].step >= 10 =>
                         Release(process'[q].seen["frozen"]) \in whole'
                    /\ process'[q].step >= 11 =>
                         process'[q].record.of = process'[q].seen["frozen"]
  BY DEF ReleasedFirst, Backed
<1> DEFINE Goal == /\ process'[q].step >= 10 =>
                        Release(process'[q].seen["frozen"]) \in whole'
                   /\ process'[q].step >= 11 =>
                        process'[q].record.of = process'[q].seen["frozen"]
<1> HIDE DEF Goal
<1>1. process'[q].mode = "running" /\ whole \subseteq whole'
  BY WholeGrows DEF Running
<1>2. ASSUME process'[q] = process[q]
      PROVE  Goal
  BY <1>1, <1>2 DEF ReleasedFirst, Backed, Running, Goal
<1>3. ASSUME NEW p \in Commands, Begin(p)
      PROVE  Goal
  <2>1. PICK c \in DOMAIN Script, r \in Record : Starts(p, c, r)
    BY <1>3, BeginForm
  <2>2. q = p => process'[q].step = 1
    BY <2>1 DEF Starts, Given
  <2>3. CASE q = p
    BY <2>2, <2>3 DEF Goal
  <2>4. QED
    BY <1>2, <2>1, <2>3 DEF Starts, Others
<1>4. ASSUME NEW p \in Commands, Step(p) \/ Crash(p)
      PROVE  Goal
  <2>1. Running(p)
    BY <1>4, Forms
  <2>2. CASE q # p
    <3>1. Others(p)
      BY <1>4, Forms DEF Stops, Passes, Creates, Sees, Confirms, Has, Executes, GoesOn, Goes
    <3>2. QED
      BY <1>2, <2>2, <3>1 DEF Others
  <2>3. CASE q = p
    <3>1. ~Stops(p)
      BY <1>1, <2>3 DEF Stops
    <3>2. ASSUME NEW n, NEW seen, NEW record, Goes(p, n, seen, record)
          PROVE  /\ process'[p].command = process[p].command
                 /\ process'[p].step = process[p].step + n
                 /\ process'[p].seen = seen /\ process'[p].record = record
                 /\ process[p].command \in Evaluating
      BY <1>1, <2>3, <3>2 DEF Goes, Over
    <3>3. ASSUME process[p].command \in Evaluating
          PROVE  Backed(process[p])
      BY <2>1 DEF ReleasedFirst
    <3>4. CASE Passes(p)
      BY <2>1, <3>2, <3>4, EvaluatingAt DEF Passes, GoesOn
    <3>5. CASE Creates(p)
      <4>1. /\ process[p].command \in Evaluating /\ process[p].step \in {8, 11}
            /\ process'[p].step = process[p].step + 1
            /\ process'[p].seen = process[p].seen /\ process'[p].record = process[p].record
        BY <2>1, <3>2, <3>5, EvaluatingAt DEF Creates, GoesOn
      <4>2. QED
        BY <1>1, <2>3, <3>3, <4>1 DEF Backed, Goal
    <3>6. ASSUME NEW n \in {1, 2}, Has(p, n)
          PROVE  Goal
      <4>1. /\ process[p].command \in Evaluating
            /\ process'[p].step = process[p].step + n
            /\ process'[p].seen = process[p].seen /\ process'[p].record = process[p].record
        BY <3>2, <3>6 DEF Has, GoesOn
      <4>2. process[p].step \in {8, 9, 11, 12} /\ ToPersist(p) \in whole'
        BY <2>1, <3>6, <4>1, EvaluatingAt DEF Has
      <4>3. CASE process[p].step \in {8, 9}
        <5>1. Release(process[p].seen["frozen"]) \in whole'
          BY <2>1, <4>1, <4>2, <4>3, EvaluatingAt DEF Seen
        <5>2. ~(process'[p].step >= 11)
          BY <2>1, <3>6, <4>1, <4>3, EvaluatingAt DEF Has
        <5>3. QED
          BY <2>3, <4>1, <5>1, <5>2 DEF Goal
      <4>4. CASE process[p].step \in {11, 12}
        BY <1>1, <2>3, <3>3, <4>1, <4>4 DEF Backed, Goal
      <4>5. QED
        BY <4>2, <4>3, <4>4
    <3>7. ASSUME NEW b \in Buffer, NEW f \in File, Sees(p, b, f)
          PROVE  Goal
      <4>1. /\ process[p].command \in Evaluating
            /\ process'[p].step = process[p].step + 1
            /\ This(p).do \in {"load", "read"}
        BY <3>2, <3>7 DEF Sees
      <4>2. process[p].step \in 1 .. 7
        BY <2>1, <4>1, EvaluatingAt
      <4>3. QED
        BY <2>3, <4>1, <4>2 DEF Goal
    <3>8. ASSUME NEW x \in Contents, NEW seen, Confirms(p, x, seen)
          PROVE  Goal
      BY <3>2, <3>8 DEF Confirms, Evaluating
    <3>9. ASSUME NEW observed \in BOOLEAN, Executes(p, observed)
          PROVE  Goal
      <4>1. /\ process[p].command \in Evaluating
            /\ process'[p].step = process[p].step + 1
            /\ process'[p].seen = process[p].seen
            /\ process'[p].record.of = Seen(p, "frozen")
            /\ This(p).do = "execute"
        BY <3>2, <3>9 DEF Executes
      <4>2. process[p].step = 10
        BY <2>1, <4>1, EvaluatingAt
      <4>3. QED
        BY <1>1, <2>3, <3>3, <4>1, <4>2 DEF Backed, Goal, Seen
    <3>10. QED
      BY <1>4, <3>1, <3>4, <3>5, <3>6, <3>7, <3>8, <3>9, Forms
  <2>4. QED
    BY <2>2, <2>3
<1>5. ASSUME NEW f \in File, Edit(f)
      PROVE  Goal
  BY <1>2, <1>5 DEF Edit
<1>6. ASSUME UNCHANGED vars
      PROVE  Goal
  BY <1>2, <1>6 DEF vars
<1>7. Goal
  BY <1>3, <1>4, <1>5, <1>6 DEF Next
<1>8. QED
  BY <1>7 DEF Goal

LEMMA PrintedRunsStay ==
  ASSUME Typed, ReleasedFirst, PrintedRunsReplay, [Next]_vars
  PROVE  PrintedRunsReplay'
<1>1. CASE Keeps
  BY <1>1 DEF Keeps, PrintedRunsReplay
<1>2. ASSUME NEW p \in Commands, Running(p), Creates(p)
      PROVE  PrintedRunsReplay'
  BY <1>2 DEF Creates, PrintedRunsReplay
<1>3. ASSUME NEW p \in Commands, Running(p), NEW n \in {1, 2}, Has(p, n)
      PROVE  PrintedRunsReplay'
  <2> DEFINE r == ToPersist(p)
             c == process[p].command
             k == process[p].step
  <2>1. whole \subseteq whole' /\ r \in whole'
    BY <1>3 DEF Has
  <2>2. ASSUME k + 1 >= Len(Script[c])
        PROVE  Release(r.of) \in whole'
    <3>1. \/ c = "release" /\ This(p).kind = "release"
          \/ c \in Evaluating /\ k \in {8, 9}
          \/ c \in Evaluating /\ k \in {11, 12} /\ This(p).kind # "release"
      BY <1>3, ToldAt DEF Tells, Has
    <3>2. CASE This(p).kind = "release"
      <4>1. r = Release(Seen(p, "frozen")) /\ Release(r.of) = r
        BY <3>2 DEF ToPersist, Release
      <4>2. QED
        BY <2>1, <4>1
    <3>3. CASE c \in Evaluating /\ k \in {8, 9}
      <4>1. Len(Script[c]) = 12
        BY <3>3, ScriptLengths DEF Evaluating
      <4>2. QED
        BY <2>2, <3>3, <4>1
    <3>4. CASE c \in Evaluating /\ k \in {11, 12} /\ This(p).kind # "release"
      <4>1. r = process[p].record
        BY <3>4 DEF ToPersist
      <4>2. Backed(process[p])
        BY <1>3 DEF ReleasedFirst
      <4>3. r.of = process[p].seen["frozen"] /\ Release(process[p].seen["frozen"]) \in whole
        BY <3>4, <4>1, <4>2 DEF Backed
      <4>4. QED
        BY <2>1, <4>3
    <3>5. QED
      BY <3>1, <3>2, <3>3, <3>4
  <2>3. \/ printed' = printed
        \/ k + 1 >= Len(Script[c]) /\ printed' = printed \cup {r}
    BY <1>3 DEF Has, PrintRef
  <2> HIDE DEF r, c, k
  <2>4. QED
    BY <2>1, <2>2, <2>3 DEF PrintedRunsReplay
<1>4. QED
  BY <1>1, <1>2, <1>3, StoreSteps

-----------------------------------------------------------------------------
(***************************************************************************)
(* The inductive invariant.                                                *)
(***************************************************************************)
Inv ==
  /\ Typed
  /\ Mirrors
  /\ RecordsHold
  /\ UntouchedRecordsHold
  /\ ReleasedFirst
  /\ PrintedRunsReplay

LEMMA Invariance == Spec => []Inv
<1>1. Init => Inv
  <2> SUFFICES ASSUME Init PROVE Inv
    OBVIOUS
  <2>1. \A p \in Commands : ~Running(p)
    BY DEF Init, Running, Idle
  <2>2. QED
    BY <2>1, InitTyped
       DEF Init, Inv, Mirrors, RecordsHold, UntouchedRecordsHold, ReleasedFirst,
           PrintedRunsReplay
<1>2. Inv /\ [Next]_vars => Inv'
  BY NextTyped, MirrorsStay, RecordsHoldStay, UntouchedRecordsStay, ReleasedFirstStays,
     PrintedRunsStay DEF Inv
<1>3. QED
  BY <1>1, <1>2, PTL DEF Spec

(***************************************************************************)
(* A run or a calibration says what is so of the release it names, unless  *)
(* the directory changed while its command ran: loadCapsule,               *)
(* releaseCapsule and the execution then have read the same bytes, whatever*)
(* commands ran or died at the same time and were edited before.           *)
(***************************************************************************)
THEOREM RecordsTellTheirRelease == Spec => []UntouchedRecordsHold
<1>1. Inv => UntouchedRecordsHold
  BY DEF Inv
<1>2. QED
  BY <1>1, Invariance, PTL

(***************************************************************************)
(* A ref that evaluateCapsule, calibrateEvaluator or releaseCapsule had    *)
(* printed is of a record that is all there, and so is the release that    *)
(* replay opens for it.                                                    *)
(***************************************************************************)
THEOREM PrintedRefsReplay == Spec => []PrintedRunsReplay
<1>1. Inv => PrintedRunsReplay
  BY DEF Inv
<1>2. QED
  BY <1>1, Invariance, PTL

(***************************************************************************)
(* A replay that succeeds while nothing changes compared the run with the  *)
(* directory as it is: its two rebuilt releases both are the directory.    *)
(***************************************************************************)
THEOREM ReplaysCompareTheDirectory == Spec => ReplayMeansCurrent
<1>1. ASSUME Inv, [Next]_vars
      PROVE  [\A p \in Commands \ touched :
                At(p, "compare") /\ process'[p] = Over => tree = process[p].record.of]_vars
  <2> SUFFICES ASSUME NEW p \in Commands \ touched, At(p, "compare"), process'[p] = Over
               PROVE  tree = process[p].record.of
    OBVIOUS
  <2>1. /\ Typed /\ Mirrors /\ Running(p) /\ This(p).do = "compare"
    BY <1>1 DEF Inv, At
  <2>2. process[p].command = "replay" /\ process[p].step \in {7, 13}
    BY <2>1, ToldAt DEF Tells
  <2>3. Seen(p, "frozen") = tree
    BY <2>1, <2>2, ReplayingSeen DEF Mirrors
  <2>4. process'[p] # process[p]
    BY <2>1 DEF Running, Over
  <2>5. Step(p) \/ Crash(p)
    <3>1. \A f \in File : ~Edit(f)
      BY <2>4 DEF Edit
    <3>2. ~(UNCHANGED vars)
      BY <2>4 DEF vars
    <3>3. PICK q \in Commands : Begin(q) \/ Step(q) \/ Crash(q)
      BY <1>1, <3>1, <3>2 DEF Next
    <3>4. Begin(q) => Others(q) /\ ~Running(q)
      BY <2>1, BeginForm DEF Starts
    <3>5. Step(q) \/ Crash(q) => Others(q) \/ q = p
      <4>1. ASSUME Step(q) \/ Crash(q) PROVE Others(q)
        BY <2>1, <4>1, Forms
           DEF Stops, Passes, Creates, Sees, Confirms, Has, Executes, GoesOn, Goes
      <4>2. QED
        BY <4>1
    <3>6. QED
      BY <2>1, <2>4, <3>3, <3>4, <3>5 DEF Others
  <2>6. Compare(p)
    <3>1. ~Crash(p)
      <4>1. Crash(p) => process'[p] = Crashed
        BY <2>1 DEF Crash, Becomes, Typed, ProcessOK
      <4>2. QED
        BY <4>1 DEF Crashed, Over
    <3>2. QED
      BY <2>1, <2>5, <3>1
         DEF Step, LoadFile, ReadFile, Truncate, RefuseConfirmation, WriteDomain, Create,
             Fill, Verify, Execute, Look, Open, At
  <2>7. ~Fail(p)
    <3>1. Fail(p) => process'[p] = Failed
      BY <2>1 DEF Fail, Becomes, Typed, ProcessOK
    <3>2. QED
      BY <3>1 DEF Failed, Over
  <2>8. QED
    BY <2>3, <2>6, <2>7 DEF Compare
<1>2. Spec => []Inv
  BY Invariance
<1>3. QED
  BY <1>1, <1>2, PTL DEF Spec, ReplayMeansCurrent

(***************************************************************************)
(* doctor calls a directory that lies still "qualified" only when the Gold *)
(* Candidate that is in it satisfies every confirmed and checked claim: a  *)
(* calibration counts by the release it names, and says what is so of it.  *)
(***************************************************************************)
THEOREM StagesAreEarned == Spec => QualifiedStageEarned
<1>1. ASSUME Inv, [Next]_vars
      PROVE  [\A p \in Commands \ touched :
                Look(p) /\ process'[p] = Said("qualified")
                  /\ {r \in tainted : r.kind = "calibration"} = {}
                  => Judged(tree) /\ Claims \subseteq tree["candidate"]]_vars
  <2> SUFFICES ASSUME NEW p \in Commands \ touched,
                      Look(p), process'[p] = Said("qualified"),
                      {r \in tainted : r.kind = "calibration"} = {}
               PROVE  Judged(tree) /\ Claims \subseteq tree["candidate"]
    OBVIOUS
  <2>1. /\ Typed /\ Mirrors /\ UntouchedRecordsHold
        /\ Running(p) /\ This(p).do = "look"
    BY <1>1 DEF Inv, Look, At
  <2>2. process[p].command = "doctor" /\ process[p].step = 6
    BY <2>1, ToldAt DEF Tells
  <2>3. \A f \in File : Seen(p, "frozen")[f] = tree[f]
    BY <2>1, <2>2, ReadinessSeen DEF Mirrors
  <2>4. Stage(p) = "qualified"
    <3>1. Fail(p) => process'[p] = Failed
      BY <2>1 DEF Fail, Becomes, Typed, ProcessOK
    <3>2. Becomes(p, Said(Stage(p))) => process'[p] = Said(Stage(p))
      BY <2>1 DEF Becomes, Typed, ProcessOK
    <3>3. Failed # Said("qualified")
      BY DEF Failed, Said
    <3>4. Said(Stage(p)) = Said("qualified") => Stage(p) = "qualified"
      BY DEF Said
    <3>5. QED
      BY <3>1, <3>2, <3>3, <3>4 DEF Look
  <2>5. PICK r \in whole : /\ r.kind = "calibration" /\ r.result = "qualified"
                           /\ r.of = Seen(p, "frozen")
    BY <2>4 DEF Stage
  <2>6. r \notin tainted
    BY <2>5
  <2>7. Holds(r)
    BY <2>1, <2>6 DEF UntouchedRecordsHold
  <2>8. Judged(r.of) /\ Claims \subseteq r.of["candidate"]
    BY <2>5, <2>7 DEF Holds
  <2>9. QED
    BY <2>3, <2>5, <2>8 DEF Judged, File
<1>2. Spec => []Inv
  BY Invariance
<1>3. QED
  BY <1>1, <1>2, PTL DEF Spec, QualifiedStageEarned

-----------------------------------------------------------------------------
(***************************************************************************)
(* The reports.  What the summary of a Task tells of its pair.             *)
(***************************************************************************)
Arm == {"control", "treatment"}
Bucket == {"trigger", "non-trigger", "holdout"}
Validity == {"valid", "invalid", "insufficient"}

Summary ==
  [bucket : Bucket, paired : Validity, suite : Validity,
   status : Validity \cup {"fail", "pass"}, kept : BOOLEAN, activated : BOOLEAN,
   control : BOOLEAN, whole : BOOLEAN, passed : BOOLEAN, dearer : BOOLEAN]

Telling(t) ==
  /\ t.kept => t.paired = "valid" /\ t.whole /\ t.passed /\ t.activated /\ ~t.dearer
  /\ t.suite = "valid" => t.paired # "invalid" /\ ~t.control /\ t.whole
  /\ t.bucket = "trigger" /\ t.status \notin {"invalid", "insufficient"} => t.activated
  /\ t.bucket = "non-trigger" /\ t.status \notin {"invalid", "insufficient", "fail"} =>
       ~t.activated

LEMMA ResultsAre ==
  ASSUME NEW a \in Arm, NEW r \in Results(a)
  PROVE  /\ r.overall \in Validity /\ r.created \in BOOLEAN
         /\ r.gap \in {"none", "usage", "claim"}
         /\ r.overall = "valid" => r.gap = "none"
         /\ r.overall = "invalid" => r.gap = "none"
BY DEF Results, ArmResults, Validity

LEMMA PairedIs ==
  ASSUME NEW p, p.control.overall \in Validity, p.treatment.overall \in Validity
  PROVE  /\ PairedValidity(p) \in Validity
         /\ PairedValidity(p) = "valid" =>
              p.control.overall = "valid" /\ p.treatment.overall = "valid"
BY DEF PairedValidity, Combine, Validity

LEMMA SummariesTell ==
  ASSUME NEW bucket \in Bucket, NEW p, DOMAIN p = Arm,
         p.control \in Results("control"), p.treatment \in Results("treatment")
  PROVE  SummaryOf(bucket, p) \in Summary /\ Telling(SummaryOf(bucket, p))
<1> DEFINE t == SummaryOf(bucket, p)
<1>1. /\ p.control.overall \in Validity /\ p.control.created \in BOOLEAN
      /\ p.control.gap \in {"none", "usage", "claim"}
      /\ p.control.overall = "valid" => p.control.gap = "none"
      /\ p.treatment.overall \in Validity /\ p.treatment.created \in BOOLEAN
      /\ p.treatment.gap \in {"none", "usage", "claim"}
      /\ p.treatment.overall = "valid" => p.treatment.gap = "none"
  BY ResultsAre DEF Arm
<1>2. /\ PairedValidity(p) \in Validity
      /\ PairedValidity(p) = "valid" =>
           p.control.overall = "valid" /\ p.treatment.overall = "valid"
  BY <1>1, PairedIs
<1>3. AssessActivation(bucket, p) \in Validity \cup {"fail", "pass"}
  BY DEF AssessActivation, Validity
<1>4. EffectiveTaskValidity(bucket, p) \in Validity
  BY DEF EffectiveTaskValidity, Validity
<1>5. /\ t.whole <=> p.control.gap = "none" /\ p.treatment.gap = "none"
      /\ t.passed <=> Passed(p.control) /\ Passed(p.treatment)
  <2>1. \A a \in Arm : p[a] = IF a = "control" THEN p.control ELSE p.treatment
    BY DEF Arm
  <2>2. QED
    BY <2>1 DEF SummaryOf, Arm
<1>6. t \in Summary
  <2>1. /\ (\A a \in DOMAIN p : p[a].gap = "none") \in BOOLEAN
        /\ (\A a \in DOMAIN p : Passed(p[a])) \in BOOLEAN
        /\ (RecommendAction(p) = "keep") \in BOOLEAN
        /\ CostHigher(p) \in BOOLEAN
    BY DEF CostHigher
  <2>2. QED
    BY <1>1, <1>2, <1>3, <1>4, <2>1 DEF SummaryOf, Summary
<1>7. t.kept => t.paired = "valid" /\ t.whole /\ t.passed /\ t.activated /\ ~t.dearer
  <2>1. ASSUME RecommendAction(p) = "keep"
        PROVE  /\ PairedValidity(p) \notin {"invalid", "insufficient"} /\ p.treatment.created
               /\ Passed(p.control) /\ Passed(p.treatment) /\ ~CostHigher(p)
    BY <2>1 DEF RecommendAction
  <2>2. QED
    BY <1>1, <1>2, <1>5, <2>1 DEF SummaryOf, Validity
<1>8. t.suite = "valid" => t.paired # "invalid" /\ ~t.control /\ t.whole
  <2> SUFFICES ASSUME EffectiveTaskValidity(bucket, p) = "valid"
               PROVE  t.paired # "invalid" /\ ~t.control /\ t.whole
    BY DEF SummaryOf
  <2>1. /\ PairedValidity(p) # "invalid" /\ AssessActivation(bucket, p) # "invalid"
        /\ PairedValidity(p) = "valid" \/ PairedReasons(p) = {"GOAL_NOT_ACTIVATED"}
    <3>1. ~(PairedValidity(p) = "invalid" \/ AssessActivation(bucket, p) = "invalid")
      BY DEF EffectiveTaskValidity
    <3>2. AssessActivation(bucket, p) # "insufficient"
      BY <3>1 DEF EffectiveTaskValidity
    <3>3. CASE PairedValidity(p) # "valid" /\ PairedReasons(p) # {"GOAL_NOT_ACTIVATED"}
      BY <3>1, <3>2, <3>3 DEF EffectiveTaskValidity
    <3>4. QED
      BY <3>1, <3>3
  <2>2. ~p.control.created
    BY <1>1, <2>1 DEF AssessActivation
  <2>3. PairedReasons(p) = {"GOAL_NOT_ACTIVATED"} =>
          p.control.gap = "none" /\ p.treatment.gap = "none"
    <3>1. /\ p.control.gap = "usage" \/ p.treatment.gap = "usage" =>
               "USAGE_MISSING" \in PairedReasons(p)
          /\ p.control.gap = "claim" \/ p.treatment.gap = "claim" =>
               "COMPLETION_CLAIM_MISSING" \in PairedReasons(p)
      BY DEF PairedReasons, Reasons
    <3>2. QED
      BY <1>1, <3>1
  <2>4. QED
    BY <1>1, <1>2, <1>5, <2>1, <2>2, <2>3 DEF SummaryOf
<1>9. /\ t.bucket = "trigger" /\ t.status \notin {"invalid", "insufficient"} => t.activated
      /\ t.bucket = "non-trigger" /\ t.status \notin {"invalid", "insufficient", "fail"} =>
           ~t.activated
  BY DEF SummaryOf, AssessActivation
<1> HIDE DEF t
<1>10. Telling(t)
  BY <1>7, <1>8, <1>9 DEF Telling
<1>11. QED
  BY <1>6, <1>10 DEF t

(***************************************************************************)
(* The Tasks run in an order, each once: those that have run and those to  *)
(* come are the buckets of it.                                             *)
(***************************************************************************)
Orders == {<<"trigger", "non-trigger", "holdout">>, <<"non-trigger", "trigger", "holdout">>}

InOrder(order) ==
  /\ \A i \in 1 .. Len(tasks) : tasks[i].bucket = order[i]
  /\ \A i \in 1 .. Len(buckets) : buckets[i] = order[Len(tasks) + i]

Advised ==
  /\ advice \in {"none", "keep", "iterate_binding", "keep_baseline", "run_more"}
  /\ advice # "none" => buckets = <<>> /\ advice = SuiteAction(tasks)

VInv ==
  /\ buckets \in Seq(Bucket) /\ tasks \in Seq(Summary)
  /\ Len(buckets) + Len(tasks) = 3
  /\ \E order \in Orders : InOrder(order)
  /\ DOMAIN pair \subseteq Arm
  /\ \A a \in DOMAIN pair : pair[a] \in Results(a)
  /\ buckets = <<>> => DOMAIN pair = {}
  /\ \A i \in 1 .. Len(tasks) : Telling(tasks[i])
  /\ Advised

LEMMA OrdersAre ==
  ASSUME NEW order \in Orders
  PROVE  /\ \A i \in 1 .. 3 : order[i] \in Bucket
         /\ \A i, j \in 1 .. 3 : order[i] = order[j] => i = j
BY DEF Orders, Bucket

LEMMA SuiteActions ==
  SuiteAction(tasks) \in {"keep", "iterate_binding", "keep_baseline", "run_more"}
BY DEF SuiteAction

LEMMA VInit == VerdictsInit => VInv
<1> SUFFICES ASSUME VerdictsInit PROVE VInv
  OBVIOUS
<1>1. buckets \in Orders /\ pair = <<>> /\ tasks = <<>> /\ advice = "none"
  BY DEF VerdictsInit, Orders
<1>2. buckets \in Seq(Bucket) /\ Len(buckets) = 3 /\ buckets # <<>>
  <2>1. ASSUME NEW x \in Bucket, NEW y \in Bucket, NEW z \in Bucket
        PROVE  <<x, y, z>> \in Seq(Bucket) /\ Len(<<x, y, z>>) = 3 /\ <<x, y, z>> # <<>>
    OBVIOUS
  <2>2. /\ "trigger" \in Bucket /\ "non-trigger" \in Bucket /\ "holdout" \in Bucket
        /\ buckets = <<"trigger", "non-trigger", "holdout">>
             \/ buckets = <<"non-trigger", "trigger", "holdout">>
    BY <1>1 DEF Orders, Bucket
  <2>3. QED
    BY <2>1, <2>2
<1>3. tasks \in Seq(Summary) /\ Len(tasks) = 0 /\ DOMAIN pair = {}
  BY <1>1
<1>4. InOrder(buckets)
  BY <1>2, <1>3 DEF InOrder
<1>5. QED
  BY <1>1, <1>2, <1>3, <1>4 DEF VInv, Advised

LEMMA VNext == VInv /\ [VerdictsNext]_rvars => VInv'
<1> SUFFICES ASSUME VInv, [VerdictsNext]_rvars PROVE VInv'
  OBVIOUS
<1>1. /\ buckets \in Seq(Bucket) /\ tasks \in Seq(Summary)
      /\ Len(buckets) \in Nat /\ Len(tasks) \in Nat /\ Len(buckets) + Len(tasks) = 3
      /\ buckets = <<>> => Len(buckets) = 0
      /\ DOMAIN pair \subseteq Arm
      /\ \A a \in DOMAIN pair : pair[a] \in Results(a)
      /\ buckets = <<>> => DOMAIN pair = {}
      /\ Advised
  BY DEF VInv
<1>2. PICK order \in Orders : InOrder(order)
  BY DEF VInv
<1>3. ASSUME NEW a \in {"control", "treatment"}, EvaluateArm(a)
      PROVE  VInv'
  <2>1. PICK r \in Results(a) :
          pair' = [b \in DOMAIN pair \cup {a} |-> IF b = a THEN r ELSE pair[b]]
    BY <1>3 DEF EvaluateArm
  <2>2. UNCHANGED <<buckets, tasks, advice>> /\ buckets # <<>>
    BY <1>3 DEF EvaluateArm
  <2>3. DOMAIN pair' \subseteq Arm /\ \A b \in DOMAIN pair' : pair'[b] \in Results(b)
    BY <1>1, <2>1 DEF Arm
  <2>4. QED
    BY <1>1, <2>2, <2>3 DEF VInv, Advised, InOrder
<1>4. CASE ReportTask
  <2> DEFINE t == SummaryOf(Head(buckets), pair)
  <2>1. /\ DOMAIN pair = Arm
        /\ tasks' = Append(tasks, t) /\ buckets' = Tail(buckets)
        /\ pair' = <<>> /\ advice' = advice
    BY <1>4 DEF ReportTask, Arm
  <2>2. buckets # <<>>
    BY <1>1, <2>1 DEF Arm
  <2>3. Head(buckets) \in Bucket /\ Head(buckets) = buckets[1] /\ Len(buckets) >= 1
    BY <1>1, <2>2
  <2>4. pair.control \in Results("control") /\ pair.treatment \in Results("treatment")
    BY <1>1, <2>1 DEF Arm
  <2>5. t \in Summary /\ Telling(t) /\ t.bucket = Head(buckets)
    <3>1. t.bucket = Head(buckets)
      BY DEF SummaryOf
    <3>2. QED
      BY <2>1, <2>3, <2>4, <3>1, SummariesTell
  <2> HIDE DEF t
  <2>6. /\ tasks' \in Seq(Summary) /\ Len(tasks') = Len(tasks) + 1
        /\ \A i \in 1 .. Len(tasks) : tasks'[i] = tasks[i]
        /\ tasks'[Len(tasks) + 1] = t
    BY <1>1, <2>1, <2>5
  <2>7. /\ buckets' \in Seq(Bucket) /\ Len(buckets') = Len(buckets) - 1
        /\ \A i \in 1 .. Len(buckets') : buckets'[i] = buckets[i + 1]
    BY <1>1, <2>1, <2>2
  <2>8. InOrder(order)'
    <3>1. \A i \in 1 .. Len(tasks') : tasks'[i].bucket = order[i]
      <4>1. t.bucket = order[Len(tasks) + 1]
        BY <1>1, <1>2, <2>3, <2>5 DEF InOrder
      <4>2. QED
        BY <1>1, <1>2, <2>6, <4>1 DEF InOrder
    <3>2. \A i \in 1 .. Len(buckets') : buckets'[i] = order[Len(tasks') + i]
      <4> TAKE i \in 1 .. Len(buckets')
      <4>1. i + 1 \in 1 .. Len(buckets) /\ Len(tasks) + (i + 1) = Len(tasks') + i
        BY <1>1, <2>6, <2>7
      <4>2. QED
        BY <1>2, <2>7, <4>1 DEF InOrder
    <3>3. QED
      BY <3>1, <3>2 DEF InOrder
  <2>9. \A i \in 1 .. Len(tasks') : Telling(tasks'[i])
    BY <1>1, <2>5, <2>6 DEF VInv
  <2>10. advice' = "none"
    BY <1>1, <2>1, <2>2 DEF Advised
  <2>11. DOMAIN pair' = {}
    BY <2>1
  <2>12. QED
    BY <1>1, <2>6, <2>7, <2>8, <2>9, <2>10, <2>11 DEF VInv, Advised
<1>5. CASE ReportSuite
  <2>1. /\ buckets = <<>> /\ advice' = SuiteAction(tasks)
        /\ UNCHANGED <<buckets, pair, tasks>>
    BY <1>5 DEF ReportSuite
  <2>2. Advised'
    BY <2>1, SuiteActions DEF Advised
  <2>3. QED
    BY <2>1, <2>2 DEF VInv, InOrder
<1>6. CASE UNCHANGED rvars
  BY <1>6 DEF rvars, VInv, Advised, InOrder
<1>7. QED
  BY <1>3, <1>4, <1>5, <1>6 DEF VerdictsNext

LEMMA VInvariance == VerdictsSpec => []VInv
BY VInit, VNext, PTL DEF VerdictsSpec

LEMMA TasksInRange ==
  ASSUME VInv
  PROVE  \A t \in Range(tasks) : \E i \in 1 .. Len(tasks) : t = tasks[i]
BY DEF VInv, Range

(***************************************************************************)
(* The types of the reports.                                               *)
(***************************************************************************)
THEOREM VerdictsTyped == VerdictsSpec => []VerdictsTypeOK
<1>1. VInv => VerdictsTypeOK
  <2> SUFFICES ASSUME VInv PROVE VerdictsTypeOK
    OBVIOUS
  <2>1. \A t \in Range(tasks) : t \in Summary
    BY TasksInRange DEF VInv
  <2>2. \A t \in Range(tasks) : {t.paired, t.suite} \subseteq {"valid", "invalid", "insufficient"}
    BY <2>1 DEF Summary, Validity
  <2>3. QED
    BY <2>2 DEF VInv, VerdictsTypeOK, Arm, Advised
<1>2. QED
  BY <1>1, VInvariance, PTL

(***************************************************************************)
(* "keep" is earned: what recommendAction and buildSuiteReport advise to   *)
(* keep was verified, measured in full, and had its Goal where it must and *)
(* only there, in both orders that the Tasks of a Suite can have.          *)
(***************************************************************************)
THEOREM AdviceIsEarned == VerdictsSpec => []KeepIsEarned
<1>1. VInv => KeepIsEarned
  <2> SUFFICES ASSUME VInv PROVE KeepIsEarned
    OBVIOUS
  <2>1. \A t \in Range(tasks) : Telling(t)
    BY TasksInRange DEF VInv
  <2>2. ASSUME advice = "keep", NEW t \in Range(tasks)
        PROVE  /\ t.paired # "invalid" /\ ~t.control /\ t.whole
               /\ t.bucket = "trigger" => t.activated
               /\ t.bucket = "non-trigger" => ~t.activated
    <3>1. SuiteAction(tasks) = "keep"
      BY <2>2 DEF VInv, Advised
    <3>2. /\ SuiteValidity(tasks) \notin {"invalid", "insufficient"}
          /\ StatusOf(tasks, "non-trigger") # "fail"
      BY <3>1 DEF SuiteAction
    <3>3. PICK i \in 1 .. Len(tasks) : t = tasks[i]
      BY TasksInRange
    <3>4. tasks \in Seq(Summary) /\ t \in Summary /\ i \in DOMAIN tasks
      BY <3>3 DEF VInv
    <3>5. t.suite \notin {"invalid", "insufficient"} /\ t.status \notin {"invalid", "insufficient"}
      <4> DEFINE all == {tasks[k].suite : k \in DOMAIN tasks} \cup
                        {tasks[k].status : k \in DOMAIN tasks}
      <4>1. t.suite \in all /\ t.status \in all
        BY <3>3, <3>4
      <4>2. Combine(all) \notin {"invalid", "insufficient"}
        BY <3>2 DEF SuiteValidity
      <4> HIDE DEF all
      <4>3. QED
        BY <4>1, <4>2 DEF Combine
    <3>6. t.suite = "valid"
      BY <3>4, <3>5 DEF Summary, Validity
    <3>7. ASSUME t.bucket = "non-trigger"
          PROVE  t.status # "fail"
      <4>1. PICK order \in Orders : InOrder(order)
        BY DEF VInv
      <4>2. Len(tasks) \in 0 .. 3
        <5>1. buckets \in Seq(Bucket) /\ tasks \in Seq(Summary) /\ Len(buckets) + Len(tasks) = 3
          BY DEF VInv
        <5>2. Len(buckets) \in Nat /\ Len(tasks) \in Nat
          BY <5>1
        <5>3. \A m, n \in Nat : m + n = 3 => n \in 0 .. 3
          OBVIOUS
        <5>4. QED
          BY <5>1, <5>2, <5>3
      <4>3. ASSUME NEW u \in Range(tasks), u.bucket = "non-trigger"
            PROVE  u = t
        <5>1. PICK j \in 1 .. Len(tasks) : u = tasks[j]
          BY TasksInRange
        <5>2. order[i] = order[j] /\ i \in 1 .. 3 /\ j \in 1 .. 3
          BY <3>3, <3>7, <4>1, <4>2, <4>3, <5>1 DEF InOrder
        <5>3. i = j
          BY <5>2, OrdersAre
        <5>4. QED
          BY <3>3, <5>1, <5>3
      <4>4. (CHOOSE u \in Range(tasks) : u.bucket = "non-trigger") = t
        BY <3>7, <4>3
      <4>5. QED
        BY <3>2, <4>4 DEF StatusOf
    <3>8. QED
      BY <2>1, <3>5, <3>6, <3>7 DEF Telling
  <2>3. QED
    BY <2>1, <2>2 DEF KeepIsEarned, Telling
<1>2. QED
  BY <1>1, VInvariance, PTL
=============================================================================
