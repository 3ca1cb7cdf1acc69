--------------------------- MODULE ProgramProofs ---------------------------
(***************************************************************************)
(* Theorems about how a program is put together before it serves: the files *)
(* it is loaded from, the routes it answers on and the schedules of its     *)
(* tasks, for any files, routes and schedules.                              *)
(***************************************************************************)
EXTENDS Imports, Routes, Cron, FiniteSetTheorems, SequenceTheorems, WellFoundedInduction, TLAPS

-----------------------------------------------------------------------------
(* Loading                                                                  *)

Walks ==
    [stack : Seq([file : Files, next : Nat \ {0}]), done : SUBSET Files, merged : Seq(Files), failed : BOOLEAN]

OnStack(stack, done) ==
    /\ \A k \in DOMAIN stack : stack[k].file \notin done /\ Readable(stack[k].file)
    /\ \A j, k \in DOMAIN stack : stack[j].file = stack[k].file => j = k

\* The imports a call of visit is past are of files that are done, but for the one the
\* call above it is about.
Past(stack, done) ==
    \A k \in DOMAIN stack : \A n \in DOMAIN Imports(stack[k].file) :
        n < stack[k].next =>
            LET imp == Imports(stack[k].file)[n]
            IN /\ ImportOk(imp)
               /\ imp.from \in done \/ (k < Len(stack) /\ imp.from = stack[k + 1].file)

\* Each file of the stack is reached from those below it.
Path(stack) ==
    /\ \A k \in DOMAIN stack : stack[k].file \in Program
    /\ \A j, k \in DOMAIN stack : j < k => stack[k].file \in Reached(Imported(stack[j].file))

Done(done) ==
    /\ done \subseteq Program
    /\ \A f \in done : Readable(f) /\ \A n \in DOMAIN Imports(f) : ImportOk(Imports(f)[n])

\* The files that are done, each once and after its imports.
Ordered(done, merged) ==
    /\ \A i \in DOMAIN merged : merged[i] \in done
    /\ \A f \in done : \E i \in DOMAIN merged : merged[i] = f
    /\ \A i, j \in DOMAIN merged : merged[i] = merged[j] => i = j
    /\ \A i \in DOMAIN merged : \A f \in Imported(merged[i]) : \E j \in DOMAIN merged : j < i /\ merged[j] = f

Rooted(stack, done) ==
    IF stack = <<>> THEN question.entry \in done ELSE stack[1].file = question.entry

Walk(s) ==
    /\ s \in Walks
    /\ IF s.failed THEN Refused
       ELSE /\ OnStack(s.stack, s.done) /\ Past(s.stack, s.done) /\ Path(s.stack)
            /\ Done(s.done) /\ Ordered(s.done, s.merged) /\ Rooted(s.stack, s.done)

ImportQuestion ==
    Asked("import") /\ question.files \in [Files -> Sources] /\ question.entry \in Files

ImportInv == ImportQuestion /\ (answer = None \/ Walk(answer))
-----------------------------------------------------------------------------
(* What is reached                                                          *)

LEMMA ImportTypes ==
    ASSUME ImportQuestion, NEW f \in Files
    PROVE /\ Imports(f) \in Seq([from : Files, names : SUBSET Names])
          /\ Readable(f) \in BOOLEAN
          /\ Imported(f) \subseteq Files
<1>1. question.files[f] \in Sources  BY DEF ImportQuestion
<1>2. Imports(f) \in Seq([from : Files, names : SUBSET Names]) /\ Readable(f) \in BOOLEAN
  BY <1>1 DEF Sources, Imports, Readable
<1>. DEFINE R == [from : Files, names : SUBSET Names]
<1>3. \A r \in R : r.from \in Files  OBVIOUS
<1>. HIDE DEF R
<1>4. Imports(f) \in Seq(R)  BY <1>2 DEF R
<1>5. \A n \in DOMAIN Imports(f) : Imports(f)[n] \in R  BY <1>4
<1>6. Imported(f) \subseteq Files  BY <1>3, <1>5 DEF Imported
<1>. QED  BY <1>2, <1>6

LEMMA ReachedLeast ==
    ASSUME NEW fs, NEW all \in SUBSET Files, fs \subseteq all, Closed(all)
    PROVE Reached(fs) \subseteq all
BY DEF Reached

LEMMA ReachedClosed ==
    ASSUME ImportQuestion, NEW fs \in SUBSET Files
    PROVE /\ Reached(fs) \in SUBSET Files
          /\ fs \subseteq Reached(fs)
          /\ \A f \in Reached(fs) : Imported(f) \subseteq Reached(fs)
<1>1. Reached(fs) \in SUBSET Files /\ fs \subseteq Reached(fs)  BY DEF Reached
<1>2. ASSUME NEW f \in Reached(fs), NEW g \in Imported(f)
      PROVE g \in Reached(fs)
  <2>1. g \in Files  BY <1>1, ImportTypes
  <2>2. ASSUME NEW all \in SUBSET Files, fs \subseteq all, Closed(all)
        PROVE g \in all
    BY <2>2, f \in all DEF Reached, Closed
  <2>. QED  BY <2>1, <2>2 DEF Reached
<1>. QED  BY <1>1, <1>2

LEMMA ProgramClosed ==
    ASSUME ImportQuestion
    PROVE /\ Program \in SUBSET Files /\ question.entry \in Program
          /\ \A f \in Program : Imported(f) \subseteq Program
BY {question.entry} \in SUBSET Files, ReachedClosed DEF Program, ImportQuestion

\* What a file imports, and what that reaches, is reached from it.
LEMMA ReachedOn ==
    ASSUME ImportQuestion, NEW f \in Files, NEW g \in Files, NEW n \in DOMAIN Imports(g),
           g = f \/ g \in Reached(Imported(f))
    PROVE Imports(g)[n].from \in Reached(Imported(f))
<1>1. Imports(g)[n].from \in Imported(g)  BY DEF Imported
<1>2. Imported(f) \in SUBSET Files  BY ImportTypes
<1>. QED  BY <1>1, <1>2, ReachedClosed
-----------------------------------------------------------------------------
(* The steps of the walk                                                    *)

\* As Past, but the last import of the uppermost call is of f, that is being visited.
PastBut(stack, done, f) ==
    \A k \in DOMAIN stack : \A n \in DOMAIN Imports(stack[k].file) :
        n < stack[k].next =>
            LET imp == Imports(stack[k].file)[n]
            IN /\ ImportOk(imp)
               /\ \/ imp.from \in done
                  \/ k < Len(stack) /\ imp.from = stack[k + 1].file
                  \/ k = Len(stack) /\ imp.from = f

LEMMA VisitKeeps ==
    ASSUME ImportQuestion, NEW s \in Walks, NEW f \in Files, ~s.failed,
           OnStack(s.stack, s.done), PastBut(s.stack, s.done, f), Path(s.stack),
           Done(s.done), Ordered(s.done, s.merged),
           s.stack = <<>> => f = question.entry, s.stack # <<>> => s.stack[1].file = question.entry,
           f \in Program, \A k \in DOMAIN s.stack : f \in Reached(Imported(s.stack[k].file))
    PROVE Walk(visit(s, f))
<1>. DEFINE Frames == [file : Files, next : Nat \ {0}]
            frame == [file |-> f, next |-> 1]
<1>0. s.stack \in Seq(Frames) /\ s.done \in SUBSET Files /\ s.merged \in Seq(Files) /\ s.failed \in BOOLEAN
  BY DEF Walks
<1>1. CASE f \in s.done
  <2>1. visit(s, f) = s  BY <1>1 DEF visit
  <2>2. Past(s.stack, s.done)  BY <1>1 DEF Past, PastBut
  <2>3. Rooted(s.stack, s.done)  BY <1>1 DEF Rooted
  <2>. QED  BY <2>1, <2>2, <2>3 DEF Walk
<1>2. CASE f \notin s.done /\ (f \in on_stack(s) \/ ~Readable(f))
  <2>1. visit(s, f) = Fail(s)  BY <1>2 DEF visit
  <2>2. Fail(s) \in Walks /\ Fail(s).failed  BY <1>0 DEF Fail, Walks
  <2>3. ~Readable(f) \/ f \in Reached(Imported(f))  BY <1>2 DEF on_stack
  <2>4. Refused  BY <2>3 DEF Refused
  <2>. QED  BY <2>1, <2>2, <2>4 DEF Walk
<1>3. CASE f \notin s.done /\ f \notin on_stack(s) /\ Readable(f)
  <2>. DEFINE stack == Append(s.stack, frame)
  <2>1. /\ visit(s, f) = Enter(s, f) /\ Enter(s, f).stack = stack /\ Enter(s, f).done = s.done
        /\ Enter(s, f).merged = s.merged /\ Enter(s, f).failed = s.failed
    BY <1>3 DEF visit, Enter, Walks
  <2>2. frame \in Frames /\ frame.file = f /\ frame.next = 1  OBVIOUS
  <2>3. /\ stack \in Seq(Frames) /\ Len(stack) = Len(s.stack) + 1 /\ DOMAIN stack = 1..Len(s.stack) + 1
        /\ \A k \in 1..Len(s.stack) : stack[k] = s.stack[k]
        /\ stack[Len(s.stack) + 1] = frame
    BY <1>0, <2>2
  <2>4. DOMAIN s.stack = 1..Len(s.stack) /\ Len(s.stack) \in Nat  BY <1>0
  <2>5. Enter(s, f) \in Walks  BY <1>0, <2>3 DEF Enter, Walks
  <2>. HIDE DEF stack, frame, Frames
  <2>6. OnStack(stack, s.done)
    <3>1. \A k \in DOMAIN s.stack : s.stack[k].file # f  BY <1>3 DEF on_stack
    <3>2. \A k \in DOMAIN stack : (k \in DOMAIN s.stack /\ stack[k] = s.stack[k]) \/ (k = Len(s.stack) + 1 /\ stack[k].file = f)
      BY <2>2, <2>3, <2>4
    <3>3. \A k \in DOMAIN stack : stack[k].file \notin s.done /\ Readable(stack[k].file)
      BY <1>3, <3>2 DEF OnStack
    <3>4. \A j, k \in DOMAIN stack : stack[j].file = stack[k].file => j = k
      BY <3>1, <3>2 DEF OnStack
    <3>. QED  BY <3>3, <3>4 DEF OnStack
  <2>7. Past(stack, s.done)
    <3>. SUFFICES ASSUME NEW k \in DOMAIN stack, NEW n \in DOMAIN Imports(stack[k].file), n < stack[k].next
                  PROVE LET imp == Imports(stack[k].file)[n]
                        IN /\ ImportOk(imp)
                           /\ imp.from \in s.done \/ (k < Len(stack) /\ imp.from = stack[k + 1].file)
      BY DEF Past
    <3>1. CASE k \in 1..Len(s.stack)
      <4>1. stack[k] = s.stack[k] /\ k \in DOMAIN s.stack  BY <2>3, <2>4, <3>1
      <4>2. k = Len(s.stack) => stack[k + 1].file = f  BY <2>2, <2>3
      <4>3. k < Len(s.stack) => stack[k + 1] = s.stack[k + 1]  BY <2>3, <2>4, <3>1
      <4>. DEFINE imp == Imports(s.stack[k].file)[n]
      <4>4. /\ ImportOk(imp)
            /\ \/ imp.from \in s.done
               \/ k < Len(s.stack) /\ imp.from = s.stack[k + 1].file
               \/ k = Len(s.stack) /\ imp.from = f
        BY <4>1 DEF PastBut
      <4>. HIDE DEF imp
      <4>5. k < Len(stack)  BY <2>3, <2>4, <3>1
      <4>6. ImportOk(imp) /\ (imp.from \in s.done \/ (k < Len(stack) /\ imp.from = stack[k + 1].file))
        BY <4>2, <4>3, <4>4, <4>5
      <4>. QED  BY <4>1, <4>6 DEF imp
    <3>2. CASE k = Len(s.stack) + 1
      <4>1. Imports(f) \in Seq([from : Files, names : SUBSET Names])  BY ImportTypes
      <4>2. stack[k].file = f /\ stack[k].next = 1  BY <2>2, <2>3, <3>2
      <4>. QED  BY <4>1, <4>2
    <3>. QED  BY <2>3, <2>4, <3>1, <3>2
  <2>8. Path(stack)
    <3>1. \A k \in DOMAIN stack : (k \in DOMAIN s.stack /\ stack[k] = s.stack[k]) \/ (k = Len(s.stack) + 1 /\ stack[k].file = f)
      BY <2>2, <2>3, <2>4
    <3>2. ASSUME NEW j \in DOMAIN stack, NEW k \in DOMAIN stack, j < k
          PROVE stack[k].file \in Reached(Imported(stack[j].file))
      <4>1. j \in DOMAIN s.stack /\ stack[j] = s.stack[j]  BY <2>3, <2>4, <3>2
      <4>. QED  BY <3>1, <3>2, <4>1 DEF Path
    <3>3. \A k \in DOMAIN stack : stack[k].file \in Program  BY <3>1 DEF Path
    <3>. QED  BY <3>2, <3>3 DEF Path
  <2>9. Rooted(stack, s.done)  BY <2>2, <2>3, <2>4 DEF Rooted
  <2>. QED  BY <2>1, <2>5, <2>6, <2>7, <2>8, <2>9 DEF Walk
<1>. QED  BY <1>1, <1>2, <1>3

LEMMA ImportInvInit == AskImport => ImportInv
BY DEF AskImport, ImportInv, ImportQuestion

\* The invariant is about the state of the walk alone: the question stays what it is.
LEMMA WalkStays ==
    ASSUME UNCHANGED question
    PROVE \A s : Walk(s) <=> Walk(s)'
<1>1. /\ \A f : Imports(f)' = Imports(f) /\ Readable(f)' = Readable(f)
      /\ \A f, name : Exports(f, name)' = Exports(f, name)
  BY DEF Imports, Readable, Exports
<1>2. \A imp : ImportOk(imp)' = ImportOk(imp)  BY <1>1 DEF ImportOk
<1>3. \A f : Imported(f)' = Imported(f)  BY <1>1 DEF Imported
<1>4. \A fs : Closed(fs)' = Closed(fs)  BY <1>3 DEF Closed
<1>5. \A fs : Reached(fs)' = Reached(fs)  BY <1>4 DEF Reached
<1>6. Program' = Program  BY <1>5 DEF Program
<1>7. Refused' = Refused  BY <1>1, <1>2, <1>3, <1>5, <1>6 DEF Refused
<1>8. \A stack, done : OnStack(stack, done)' = OnStack(stack, done) /\ Past(stack, done)' = Past(stack, done)
  BY <1>1, <1>2 DEF OnStack, Past
<1>9. \A stack, done : Path(stack)' = Path(stack) /\ Rooted(stack, done)' = Rooted(stack, done)
  BY <1>3, <1>5, <1>6 DEF Path, Rooted
<1>10. \A done, merged : Done(done)' = Done(done) /\ Ordered(done, merged)' = Ordered(done, merged)
  BY <1>1, <1>2, <1>3, <1>6 DEF Done, Ordered
<1>. QED  BY <1>7, <1>8, <1>9, <1>10 DEF Walk

LEMMA EntryKeeps ==
    ASSUME ImportInv, LoadEntry
    PROVE ImportInv'
<1>. DEFINE s == Unloaded
<1>1. ImportQuestion /\ ImportQuestion'  BY DEF ImportInv, ImportQuestion, LoadEntry, Asked
<1>2. /\ s.stack = <<>> /\ s.done = {} /\ s.merged = <<>> /\ s.failed = FALSE /\ s \in Walks
  BY DEF Unloaded, Walks
<1>. HIDE DEF s
<1>3. question.entry \in Files /\ question.entry \in Program  BY <1>1, ProgramClosed DEF ImportQuestion
<1>4. OnStack(s.stack, s.done) /\ PastBut(s.stack, s.done, question.entry) /\ Path(s.stack)
  BY <1>2 DEF OnStack, PastBut, Path
<1>5. Done(s.done) /\ Ordered(s.done, s.merged)  BY <1>2 DEF Done, Ordered
<1>. DEFINE f == question.entry
<1>a. f \in Files /\ f \in Program  BY <1>3
<1>b. s.stack = <<>> => f = question.entry  OBVIOUS
<1>c. s.stack # <<>> => s.stack[1].file = question.entry  BY <1>2
<1>d. \A k \in DOMAIN s.stack : f \in Reached(Imported(s.stack[k].file))  BY <1>2
<1>e. PastBut(s.stack, s.done, f)  BY <1>4
<1>f. s \in Walks /\ ~s.failed  BY <1>2
<1>. HIDE DEF f
<1>6. Walk(visit(s, f))
  BY <1>1, <1>4, <1>5, <1>a, <1>b, <1>c, <1>d, <1>e, <1>f, VisitKeeps
<1>7. question' = question /\ answer' = visit(s, f)  BY DEF LoadEntry, s, f
<1>. DEFINE w == visit(s, f)
<1>8. question' = question /\ answer' = w /\ Walk(w)  BY <1>6, <1>7
<1>. HIDE DEF w
<1>9. Walk(answer)'
  BY <1>8, WalkStays
<1>. QED  BY <1>1, <1>9 DEF ImportInv

LEMMA ImportKeeps ==
    ASSUME ImportInv, LoadImport
    PROVE ImportInv'
<1>. DEFINE Frames == [file : Files, next : Nat \ {0}]
            imp == Imports(Top.file)[Top.next]
            s == [answer EXCEPT !.stack = Passed]
            f == imp.from
            w == visit(s, f)
<1>1. ImportQuestion /\ ImportQuestion'  BY DEF ImportInv, ImportQuestion, LoadImport, Asked
<1>2. /\ answer \in Walks /\ ~answer.failed
      /\ OnStack(answer.stack, answer.done) /\ Past(answer.stack, answer.done) /\ Path(answer.stack)
      /\ Done(answer.done) /\ Ordered(answer.done, answer.merged) /\ Rooted(answer.stack, answer.done)
  BY DEF ImportInv, Walk, LoadImport, Loading
<1>3. /\ answer.stack \in Seq(Frames) /\ answer.stack # <<>>
      /\ answer.done \in SUBSET Files /\ answer.merged \in Seq(Files) /\ answer.failed = FALSE
  BY <1>2 DEF Walks, LoadImport, Loading
<1>4. Depth \in Nat \ {0} /\ DOMAIN answer.stack = 1..Depth /\ Depth = Len(answer.stack) /\ Top = answer.stack[Depth]
  BY <1>3 DEF Depth, Top
<1>. HIDE DEF Frames
<1>5. Top \in Frames /\ \A k \in 1..Depth : answer.stack[k] \in Frames  BY <1>3, <1>4
<1>6. Top.file \in Files /\ Top.next \in Nat \ {0}  BY <1>5 DEF Frames
<1>7. /\ Passed \in Seq(Frames) /\ DOMAIN Passed = 1..Depth /\ Len(Passed) = Depth
      /\ Passed[Depth].file = Top.file /\ Passed[Depth].next = Top.next + 1
      /\ \A k \in 1..Depth : k # Depth => Passed[k] = answer.stack[k]
  <2>. DEFINE frame == [file |-> Top.file, next |-> Top.next + 1]
  <2>1. frame \in Frames /\ frame.file = Top.file /\ frame.next = Top.next + 1  BY <1>6 DEF Frames
  <2>2. Passed = [answer.stack EXCEPT ![Depth] = frame]  BY DEF Passed
  <2>. HIDE DEF frame
  <2>3. answer.stack \in [1..Depth -> Frames]  BY <1>3, <1>4
  <2>4. Passed \in [1..Depth -> Frames] /\ Passed[Depth] = frame /\ \A k \in 1..Depth : k # Depth => Passed[k] = answer.stack[k]
    BY <1>4, <2>1, <2>2, <2>3
  <2>5. Passed \in Seq(Frames) /\ Len(Passed) = Depth  BY <1>4, <2>4
  <2>. QED  BY <2>1, <2>4, <2>5
<1>8. \A k \in 1..Depth : Passed[k].file = answer.stack[k].file  BY <1>4, <1>7
<1>9. Top.next \in DOMAIN Imports(Top.file) /\ question' = question
  BY DEF LoadImport
<1>10. f \in Imported(Top.file) /\ Imported(Top.file) \in SUBSET Files
  BY <1>1, <1>6, <1>9, ImportTypes DEF Imported
<1>11. Top.file \in Program  BY <1>2, <1>4 DEF Path
<1>12. f \in Files /\ f \in Program  BY <1>1, <1>10, <1>11, ProgramClosed
<1>13. CASE ~ImportOk(imp)
  <2>1. answer' = Fail(answer)  BY <1>13 DEF LoadImport
  <2>2. Fail(answer) \in Walks /\ Fail(answer).failed  BY <1>2 DEF Fail, Walks
  <2>3. Refused  BY <1>9, <1>11, <1>13 DEF Refused
  <2>. DEFINE failed == Fail(answer)
  <2>4. Walk(failed)  BY <2>2, <2>3 DEF Walk
  <2>. HIDE DEF failed
  <2>5. Walk(answer)'  BY <1>9, <2>1, <2>4, WalkStays DEF failed
  <2>. QED  BY <1>1, <2>5 DEF ImportInv
<1>14. CASE ImportOk(imp)
  <2>1. answer' = w  BY <1>14 DEF LoadImport
  <2>2. s \in Walks /\ s.stack = Passed /\ s.done = answer.done /\ s.merged = answer.merged /\ ~s.failed
    <3>1. Passed \in Seq([file : Files, next : Nat \ {0}])  BY <1>7 DEF Frames
    <3>. QED  BY <1>2, <1>3, <3>1 DEF Walks
  <2>3. OnStack(Passed, answer.done)  BY <1>2, <1>4, <1>7, <1>8 DEF OnStack
  <2>4. PastBut(Passed, answer.done, f)
    <3>. SUFFICES ASSUME NEW k \in 1..Depth, NEW n \in DOMAIN Imports(answer.stack[k].file), n < Passed[k].next
                  PROVE LET i == Imports(answer.stack[k].file)[n]
                        IN /\ ImportOk(i)
                           /\ \/ i.from \in answer.done
                              \/ k < Len(Passed) /\ i.from = Passed[k + 1].file
                              \/ k = Len(Passed) /\ i.from = f
      BY <1>7, <1>8 DEF PastBut
    <3>. DEFINE i == Imports(answer.stack[k].file)[n]
    <3>1. CASE n < answer.stack[k].next
      <4>1. ImportOk(i) /\ (i.from \in answer.done \/ (k < Depth /\ i.from = answer.stack[k + 1].file))
        BY <1>2, <1>4, <3>1 DEF Past
      <4>. HIDE DEF i
      <4>2. k < Depth => Passed[k + 1].file = answer.stack[k + 1].file  BY <1>4, <1>8
      <4>. QED  BY <1>7, <4>1, <4>2 DEF i
    <3>2. CASE ~(n < answer.stack[k].next)
      <4>1. k = Depth  BY <1>7, <3>2
      <4>2. n \in Nat
        <5>1. Imports(Top.file) \in Seq([from : Files, names : SUBSET Names])  BY <1>1, <1>6, ImportTypes
        <5>. QED  BY <1>4, <4>1, <5>1
      <4>3. n = Top.next  BY <1>4, <1>6, <1>7, <3>2, <4>1, <4>2
      <4>4. i = imp  BY <1>4, <4>1, <4>3
      <4>. QED  BY <1>7, <1>14, <4>1, <4>4
    <3>. QED  BY <3>1, <3>2
  <2>5. Path(Passed)
    <3>1. \A k \in 1..Depth : Passed[k].file \in Program  BY <1>2, <1>4, <1>8 DEF Path
    <3>2. \A j, k \in 1..Depth : j < k => Passed[k].file \in Reached(Imported(Passed[j].file))
      BY <1>2, <1>4, <1>8 DEF Path
    <3>. QED  BY <1>7, <3>1, <3>2 DEF Path
  <2>6. Passed # <<>> /\ Passed[1].file = question.entry
    BY <1>2, <1>3, <1>4, <1>7, <1>8 DEF Rooted
  <2>7. ASSUME NEW k \in DOMAIN Passed
        PROVE f \in Reached(Imported(Passed[k].file))
    <3>. DEFINE g == answer.stack[k].file
    <3>1. k \in 1..Depth /\ Passed[k].file = g  BY <1>7, <1>8
    <3>2. g \in Files  BY <1>5, <3>1 DEF Frames
    <3>3. Top.file = g \/ Top.file \in Reached(Imported(g))  BY <1>2, <1>4, <3>1 DEF Path
    <3>. HIDE DEF g
    <3>. QED  BY <1>1, <1>6, <1>9, <3>1, <3>2, <3>3, ReachedOn
  <2>. HIDE DEF s, f
  <2>8. Walk(visit(s, f))
    <3>1. OnStack(s.stack, s.done) /\ PastBut(s.stack, s.done, f) /\ Path(s.stack)  BY <2>2, <2>3, <2>4, <2>5
    <3>2. Done(s.done) /\ Ordered(s.done, s.merged)  BY <1>2, <2>2
    <3>3. s.stack = <<>> => f = question.entry  BY <2>2, <2>6
    <3>4. s.stack # <<>> => s.stack[1].file = question.entry  BY <2>2, <2>6
    <3>5. \A k \in DOMAIN s.stack : f \in Reached(Imported(s.stack[k].file))  BY <2>2, <2>7
    <3>. QED  BY <1>1, <1>12, <2>2, <3>1, <3>2, <3>3, <3>4, <3>5, VisitKeeps
  <2>. HIDE DEF w
  <2>9. Walk(answer)'  BY <1>9, <2>1, <2>8, WalkStays DEF w
  <2>. QED  BY <1>1, <2>9 DEF ImportInv
<1>. QED  BY <1>13, <1>14

\* What is done stays ordered when a file whose imports are done is added.
LEMMA OrderedAdds ==
    ASSUME NEW done \in SUBSET Files, NEW merged \in Seq(Files), Ordered(done, merged),
           NEW f \in Files, f \notin done, Imported(f) \subseteq done
    PROVE Ordered(done \cup {f}, Append(merged, f))
<1>. DEFINE longer == Append(merged, f)
<1>1. /\ Len(merged) \in Nat /\ DOMAIN merged = 1..Len(merged) /\ DOMAIN longer = 1..Len(merged) + 1
      /\ longer[Len(merged) + 1] = f /\ \A i \in 1..Len(merged) : longer[i] = merged[i]
  OBVIOUS
<1>. HIDE DEF longer
<1>2. \A i \in DOMAIN longer : (i \in DOMAIN merged /\ longer[i] = merged[i] /\ i < Len(merged) + 1)
                                  \/ (i = Len(merged) + 1 /\ longer[i] = f)
  BY <1>1
<1>3. \A i \in DOMAIN longer : longer[i] \in done \cup {f}  BY <1>2 DEF Ordered
<1>4. \A g \in done \cup {f} : \E i \in DOMAIN longer : longer[i] = g
  <2>1. \A g \in done : \E i \in 1..Len(merged) : longer[i] = g  BY <1>1 DEF Ordered
  <2>. QED  BY <1>1, <2>1
<1>5. \A i, j \in DOMAIN longer : longer[i] = longer[j] => i = j
  <2>1. \A i \in DOMAIN merged : merged[i] # f  BY DEF Ordered
  <2>. QED  BY <1>2, <2>1 DEF Ordered
<1>6. ASSUME NEW i \in DOMAIN longer, NEW g \in Imported(longer[i])
      PROVE \E j \in DOMAIN longer : j < i /\ longer[j] = g
  <2>1. CASE i \in DOMAIN merged /\ longer[i] = merged[i]
    <3>1. PICK j \in DOMAIN merged : j < i /\ merged[j] = g  BY <2>1 DEF Ordered
    <3>. QED  BY <1>1, <3>1
  <2>2. CASE i = Len(merged) + 1 /\ longer[i] = f
    <3>1. g \in done  BY <2>2
    <3>2. PICK j \in DOMAIN merged : merged[j] = g  BY <3>1 DEF Ordered
    <3>. QED  BY <1>1, <2>2, <3>2
  <2>. QED  BY <1>2, <2>1, <2>2
<1>. QED  BY <1>3, <1>4, <1>5, <1>6 DEF Ordered, longer

LEMMA MergedKeeps ==
    ASSUME ImportInv, LoadMerged
    PROVE ImportInv'
<1>. DEFINE Frames == [file : Files, next : Nat \ {0}]
            f == Top.file
            stack == SubSeq(answer.stack, 1, Depth - 1)
            done == answer.done \cup {f}
            merged == Append(answer.merged, f)
            w == [stack |-> stack, done |-> done, merged |-> merged, failed |-> FALSE]
<1>1. ImportQuestion /\ ImportQuestion' /\ question' = question
  BY DEF ImportInv, ImportQuestion, LoadMerged, Asked
<1>2. /\ answer \in Walks /\ ~answer.failed
      /\ OnStack(answer.stack, answer.done) /\ Past(answer.stack, answer.done) /\ Path(answer.stack)
      /\ Done(answer.done) /\ Ordered(answer.done, answer.merged) /\ Rooted(answer.stack, answer.done)
  BY DEF ImportInv, Walk, LoadMerged, Loading
<1>3. /\ answer.stack \in Seq(Frames) /\ answer.stack # <<>>
      /\ answer.done \in SUBSET Files /\ answer.merged \in Seq(Files)
  BY <1>2 DEF Walks, LoadMerged, Loading
<1>4. Depth \in Nat \ {0} /\ DOMAIN answer.stack = 1..Depth /\ Depth = Len(answer.stack) /\ Top = answer.stack[Depth]
  BY <1>3 DEF Depth, Top
<1>. HIDE DEF Frames
<1>d. Depth \in Nat /\ Depth >= 1  BY <1>4
<1>5. Top \in Frames  BY <1>3, <1>4
<1>6. f \in Files /\ Top.next \in Nat \ {0}  BY <1>5 DEF Frames
<1>7. /\ stack \in Seq(Frames) /\ Len(stack) = Depth - 1 /\ DOMAIN stack = 1..Depth - 1
      /\ \A k \in 1..Depth - 1 : stack[k] = answer.stack[k]
  BY <1>3, <1>4
<1>8. /\ f \in Program /\ f \notin answer.done /\ Readable(f)
      /\ \A k \in 1..Depth - 1 : answer.stack[k].file # f
  BY <1>2, <1>4 DEF OnStack, Path
<1>. HIDE DEF stack
<1>9. \A n \in DOMAIN Imports(f) : ImportOk(Imports(f)[n]) /\ Imports(f)[n].from \in answer.done
  <2>1. Imports(f) \in Seq([from : Files, names : SUBSET Names]) /\ Top.next \notin DOMAIN Imports(f)
    BY <1>1, <1>6, ImportTypes DEF LoadMerged
  <2>2. \A n \in DOMAIN Imports(f) : n < Top.next  BY <1>6, <2>1
  <2>. QED  BY <1>2, <1>4, <2>2 DEF Past
<1>10. Imported(f) \subseteq answer.done  BY <1>9 DEF Imported
<1>11. Ordered(done, merged)  BY <1>2, <1>3, <1>6, <1>8, <1>10, OrderedAdds
<1>12. Done(done)  BY <1>2, <1>8, <1>9 DEF Done
<1>13. w \in Walks /\ w.stack = stack /\ w.done = done /\ w.merged = merged /\ ~w.failed
  <2>1. stack \in Seq([file : Files, next : Nat \ {0}])  BY <1>7 DEF Frames
  <2>2. merged \in Seq(Files) /\ done \in SUBSET Files  BY <1>3, <1>6
  <2>. HIDE DEF merged, done
  <2>. QED  BY <2>1, <2>2 DEF Walks
<1>. HIDE DEF f, merged
<1>14. OnStack(stack, done)
  <2>1. \A k \in 1..Depth - 1 : answer.stack[k].file \notin done /\ Readable(answer.stack[k].file)
    BY <1>2, <1>4, <1>8 DEF OnStack
  <2>2. \A j, k \in 1..Depth - 1 : answer.stack[j].file = answer.stack[k].file => j = k
    BY <1>2, <1>4 DEF OnStack
  <2>. QED  BY <1>7, <2>1, <2>2 DEF OnStack
<1>15. Past(stack, done)
  <2>. SUFFICES ASSUME NEW k \in 1..Depth - 1, NEW n \in DOMAIN Imports(answer.stack[k].file), n < answer.stack[k].next
                PROVE LET i == Imports(answer.stack[k].file)[n]
                      IN ImportOk(i) /\ (i.from \in done \/ (k < Len(stack) /\ i.from = stack[k + 1].file))
    BY <1>7 DEF Past
  <2>. DEFINE i == Imports(answer.stack[k].file)[n]
  <2>1. ImportOk(i) /\ (i.from \in answer.done \/ (k < Depth /\ i.from = answer.stack[k + 1].file))
    BY <1>2, <1>4 DEF Past
  <2>. HIDE DEF i
  <2>2. k + 1 = Depth => answer.stack[k + 1].file = f  BY <1>4 DEF f
  <2>3. k + 1 # Depth => k < Len(stack) /\ stack[k + 1] = answer.stack[k + 1]  BY <1>4, <1>7
  <2>. QED  BY <2>1, <2>2, <2>3 DEF i
<1>16. Path(stack)
  <2>1. /\ \A k \in 1..Depth - 1 : answer.stack[k].file \in Program
        /\ \A j, k \in 1..Depth - 1 : j < k => answer.stack[k].file \in Reached(Imported(answer.stack[j].file))
    BY <1>2, <1>4 DEF Path
  <2>. QED  BY <1>7, <2>1 DEF Path
<1>17. Rooted(stack, done)
  <2>1. answer.stack[1].file = question.entry  BY <1>2, <1>3 DEF Rooted
  <2>2. CASE Depth = 1
    <3>1. stack = <<>>  BY <1>7, <2>2
    <3>. QED  BY <1>4, <2>1, <2>2, <3>1 DEF Rooted, f
  <2>3. CASE Depth # 1
    <3>1. 1 \in 1..Depth - 1  BY <1>d, <2>3
    <3>2. stack # <<>>
      <4>1. Len(stack) # 0  BY <1>4, <1>7, <2>3
      <4>. QED  BY <4>1
    <3>. QED  BY <1>7, <2>1, <3>1, <3>2 DEF Rooted
  <2>. QED  BY <2>2, <2>3
<1>. HIDE DEF done
<1>18. Walk(w)
  <2>. HIDE DEF w
  <2>. QED  BY <1>11, <1>12, <1>13, <1>14, <1>15, <1>16, <1>17 DEF Walk
<1>19. answer' = w  BY DEF LoadMerged, stack, done, merged, f
<1>. HIDE DEF w
<1>20. Walk(answer)'  BY <1>1, <1>18, <1>19, WalkStays
<1>. QED  BY <1>1, <1>20 DEF ImportInv

\* What a walk that ended has found.
LEMMA WalkEnds == ImportInv => LoadedOnce
<1>. SUFFICES ASSUME ImportQuestion, Walk(answer)
              PROVE LoadedOnce
  BY DEF ImportInv, LoadedOnce, Answered
<1>1. CASE answer.failed
  BY <1>1 DEF Walk, Loaded, LoadedOnce
<1>2. CASE ~answer.failed /\ answer.stack # <<>>
  BY <1>2 DEF Loaded, LoadedOnce
<1>3. CASE ~answer.failed /\ answer.stack = <<>>
  <2>. DEFINE done == answer.done
              order == answer.merged
  <2>1. /\ Done(done) /\ Ordered(done, order) /\ question.entry \in done
        /\ done \in SUBSET Files /\ order \in Seq(Files)
    BY <1>3 DEF Walk, Walks, Rooted
  <2>. HIDE DEF done, order
  <2>2. \A f \in done : Imported(f) \subseteq done
    <3>. SUFFICES ASSUME NEW f \in done, NEW g \in Imported(f)
                  PROVE g \in done
      OBVIOUS
    <3>1. PICK i \in DOMAIN order : order[i] = f  BY <2>1 DEF Ordered
    <3>2. PICK j \in DOMAIN order : order[j] = g  BY <2>1, <3>1 DEF Ordered
    <3>. QED  BY <2>1, <3>2 DEF Ordered
  <2>3. Closed(done)  BY <2>2 DEF Closed
  <2>4. Program = done
    <3>1. Program \subseteq done  BY <2>1, <2>3, ReachedLeast DEF Program
    <3>. QED  BY <2>1, <3>1 DEF Done
  <2>5. ASSUME NEW f \in done
        PROVE f \notin Reached(Imported(f))
    <3>1. PICK i \in DOMAIN order : order[i] = f  BY <2>1 DEF Ordered
    <3>. DEFINE before == {order[j] : j \in {k \in DOMAIN order : k < i}}
    <3>2. before \in SUBSET Files  BY <2>1
    <3>3. Imported(f) \subseteq before  BY <2>1, <3>1 DEF Ordered
    <3>4. ASSUME NEW g \in before, NEW h \in Imported(g)
          PROVE h \in before
      <4>1. PICK j \in DOMAIN order : j < i /\ order[j] = g  OBVIOUS
      <4>2. PICK k \in DOMAIN order : k < j /\ order[k] = h  BY <2>1, <4>1 DEF Ordered
      <4>3. i \in Nat /\ j \in Nat /\ k \in Nat  BY <2>1
      <4>4. k < i  BY <4>1, <4>2, <4>3
      <4>. QED  BY <4>2, <4>4
    <3>5. f \notin before
      <4>1. DOMAIN order \subseteq Nat  BY <2>1
      <4>. QED  BY <2>1, <3>1, <4>1 DEF Ordered
    <3>. HIDE DEF before
    <3>6. Closed(before)  BY <3>4 DEF Closed
    <3>. QED  BY <3>2, <3>3, <3>5, <3>6, ReachedLeast
  <2>6. ~Refused  BY <2>1, <2>4, <2>5 DEF Refused, Done
  <2>7. {order[i] : i \in DOMAIN order} = Program  BY <2>1, <2>4 DEF Ordered
  <2>8. \A i, j \in DOMAIN order : order[i] = order[j] => i = j  BY <2>1 DEF Ordered
  <2>9. \A i, j \in DOMAIN order : order[j] \in Imported(order[i]) => j < i  BY <2>1 DEF Ordered
  <2>. QED  BY <1>3, <2>6, <2>7, <2>8, <2>9 DEF LoadedOnce, order
<1>. QED  BY <1>1, <1>2, <1>3

\* A program loads exactly when all it reaches can be read, no file of it imports itself,
\* directly or not, and no import is of a name that is not declared; it then has the items
\* of each file it reaches once, after those of the files that one imports: the walk of
\* Loader::visit, for any files and any imports.
THEOREM LoadCorrect == ImportSpec => []LoadedOnce
<1>1. AskImport => ImportInv  BY ImportInvInit
<1>2. ImportInv /\ [load_program_full]_<<question, answer>> => ImportInv'
  <2>. SUFFICES ASSUME ImportInv, [load_program_full]_<<question, answer>>
                PROVE ImportInv'
    OBVIOUS
  <2>1. CASE LoadEntry  BY <2>1, EntryKeeps
  <2>2. CASE LoadImport  BY <2>2, ImportKeeps
  <2>3. CASE LoadMerged  BY <2>3, MergedKeeps
  <2>4. CASE UNCHANGED <<question, answer>>
    <3>1. ImportQuestion'  BY <2>4 DEF ImportInv, ImportQuestion, Asked
    <3>2. answer = None => answer' = None  BY <2>4
    <3>3. Walk(answer) => Walk(answer)'  BY <2>4, WalkStays
    <3>. QED  BY <3>1, <3>2, <3>3 DEF ImportInv
  <2>. QED  BY <2>1, <2>2, <2>3, <2>4 DEF load_program_full
<1>3. ImportInv => LoadedOnce  BY WalkEnds
<1>. QED  BY <1>1, <1>2, <1>3, PTL DEF ImportSpec
-----------------------------------------------------------------------------
(* Routes                                                                   *)

Routing == [pattern : Patterns, rpc : Rpcs]

LEMMA PatternTypes ==
    ASSUME NEW p \in Patterns
    PROVE /\ Len(p) \in Nat \ {0} /\ DOMAIN p = 1..Len(p)
          /\ specificity(p) \in Nat
          /\ fixed_len(p) \in Nat /\ fixed_len(p) <= Len(p)
<1>1. p \in Seq(Texts \cup {Param, CatchAll}) /\ p # <<>>  BY DEF Patterns
<1>2. Len(p) \in Nat \ {0} /\ DOMAIN p = 1..Len(p)  BY <1>1
<1>3. IsFiniteSet(1..Len(p))  BY <1>2, FS_Interval
<1>. DEFINE literals == {i \in DOMAIN p : Literal(p[i])}
<1>4. literals \in SUBSET (1..Len(p))  BY <1>2
<1>. HIDE DEF literals
<1>5. IsFiniteSet(literals)  BY <1>3, <1>4, FS_Subset
<1>6. Cardinality(literals) \in Nat  BY <1>5, FS_CardinalityType
<1>7. specificity(p) \in Nat  BY <1>6 DEF specificity, literals
<1>. QED  BY <1>2, <1>7 DEF fixed_len

\* Patterns that match one path overlap.
LEMMA MatchesOverlap ==
    ASSUME NEW p \in Patterns, NEW q \in Patterns, NEW path \in Seq(Texts), matches(p, path), matches(q, path)
    PROVE overlap_possible(p, q)
<1>1. /\ Len(p) \in Nat /\ Len(q) \in Nat /\ fixed_len(p) \in Nat /\ fixed_len(q) \in Nat /\ Len(path) \in Nat
      /\ (~has_catchall(p) => fixed_len(p) = Len(p)) /\ (~has_catchall(q) => fixed_len(q) = Len(q))
  BY PatternTypes DEF fixed_len
<1>2. Compatible(p, q)  BY DEF Compatible, matches
<1>3. /\ Len(path) >= fixed_len(p) /\ (~has_catchall(p) => Len(path) = fixed_len(p))
      /\ Len(path) >= fixed_len(q) /\ (~has_catchall(q) => Len(path) = fixed_len(q))
  BY <1>1 DEF matches
<1>4. has_catchall(p) \/ Len(p) >= fixed_len(q)  BY <1>1, <1>3
<1>5. has_catchall(q) \/ Len(q) >= fixed_len(p)  BY <1>1, <1>3
<1>6. ~has_catchall(p) /\ ~has_catchall(q) => Len(p) = Len(q)  BY <1>1, <1>3
<1>. QED  BY <1>2, <1>4, <1>5, <1>6 DEF overlap_possible

\* A pattern that takes everything is nothing but its catch-all.
LEMMA FullCatchall ==
    ASSUME NEW p \in Patterns, is_full_catchall(p)
    PROVE p = <<CatchAll>>
<1>1. p \in Seq(Texts \cup {Param, CatchAll})  BY DEF Patterns
<1>2. Len(p) \in Nat /\ p[Len(p)] = CatchAll /\ Len(p) - 1 = 0
  BY <1>1 DEF is_full_catchall, fixed_len, has_catchall
<1>. QED  BY <1>1, <1>2

\* i comes before j in the table.
Precedes(routes, i, j) ==
    \/ specificity(routes[i].pattern) > specificity(routes[j].pattern)
    \/ specificity(routes[i].pattern) = specificity(routes[j].pattern) /\ i < j

LEMMA PlaceOrders ==
    ASSUME NEW routes \in Seq(Routing), NEW i \in DOMAIN routes, NEW j \in DOMAIN routes
    PROVE /\ Place(routes, j) \in DOMAIN routes
          /\ i = j \/ Precedes(routes, i, j) \/ Precedes(routes, j, i)
          /\ Precedes(routes, i, j) => Place(routes, i) < Place(routes, j)
<1>. DEFINE n == Len(routes)
            rank == [k \in 1..n |-> specificity(routes[k].pattern)]
<1>1. n \in Nat /\ DOMAIN routes = 1..n  OBVIOUS
<1>2. \A k \in 1..n : routes[k] \in Routing  BY <1>1
<1>3. \A k \in 1..n : specificity(routes[k].pattern) \in Nat  BY <1>2, PatternTypes DEF Routing
<1>4. rank \in [1..n -> Nat] /\ \A k \in 1..n : rank[k] = specificity(routes[k].pattern)  BY <1>3
<1>. HIDE DEF rank
<1>5. \A k \in 1..n : Upto(routes, k) = {m \in 1..n : rank[m] > rank[k] \/ (rank[m] = rank[k] /\ m <= k)}
  BY <1>1, <1>4 DEF Upto
<1>6. \A k, m \in 1..n : Precedes(routes, k, m) <=> rank[k] > rank[m] \/ (rank[k] = rank[m] /\ k < m)
  BY <1>4 DEF Precedes
<1>. HIDE DEF n
<1>7. IsFiniteSet(1..n) /\ Cardinality(1..n) = n  BY <1>1, FS_Interval
<1>8. ASSUME NEW k \in 1..n
      PROVE Upto(routes, k) \in SUBSET (1..n) /\ k \in Upto(routes, k)
  <2>1. k <= k  BY <1>1
  <2>. QED  BY <1>5, <2>1
<1>9. \A k \in 1..n : IsFiniteSet(Upto(routes, k)) /\ Place(routes, k) \in Nat /\ Place(routes, k) <= n
  BY <1>1, <1>7, <1>8, FS_Subset, FS_CardinalityType DEF Place
<1>10. Place(routes, j) # 0  BY <1>1, <1>8, <1>9, FS_EmptySet DEF Place
<1>11. Place(routes, j) \in 1..n  BY <1>1, <1>9, <1>10
<1>12. i = j \/ Precedes(routes, i, j) \/ Precedes(routes, j, i)  BY <1>1, <1>4, <1>6
<1>13. ASSUME Precedes(routes, i, j)
       PROVE Place(routes, i) < Place(routes, j)
  <2>1. Upto(routes, i) \subseteq Upto(routes, j) /\ j \notin Upto(routes, i)
    BY <1>1, <1>4, <1>5, <1>6, <1>13
  <2>2. Upto(routes, i) \in SUBSET Upto(routes, j) /\ Upto(routes, i) # Upto(routes, j)  BY <1>1, <1>8, <2>1
  <2>3. Cardinality(Upto(routes, i)) <= Cardinality(Upto(routes, j))
        /\ Cardinality(Upto(routes, i)) # Cardinality(Upto(routes, j))
    BY <1>1, <1>9, <2>2, FS_Subset
  <2>. QED  BY <1>1, <1>9, <2>3 DEF Place
<1>. QED  BY <1>1, <1>11, <1>12, <1>13

\* The table has the routes, the most specific first.
Sorted(table, routes) ==
    /\ DOMAIN table = DOMAIN routes
    /\ \A k \in DOMAIN table : \E i \in DOMAIN routes : table[k] = routes[i]
    /\ \A i \in DOMAIN routes : \E k \in DOMAIN table : table[k] = routes[i]
    /\ \A k, m \in DOMAIN table :
          k < m => specificity(table[k].pattern) >= specificity(table[m].pattern)

LEMMA TableSorted ==
    ASSUME NEW routes \in Seq(Routing)
    PROVE Sorted(build_route_table(routes), routes)
<1>. DEFINE n == Len(routes)
            table == build_route_table(routes)
            place == [j \in 1..n |-> Place(routes, j)]
            at(k) == CHOOSE j \in DOMAIN routes : Place(routes, j) = k
<1>1. n \in Nat /\ DOMAIN routes = 1..n  OBVIOUS
<1>2. place \in [1..n -> 1..n] /\ \A j \in 1..n : place[j] = Place(routes, j)  BY <1>1, PlaceOrders
<1>3. \A i, j \in 1..n : place[i] = place[j] => i = j
  <2>. SUFFICES ASSUME NEW i \in 1..n, NEW j \in 1..n, i # j
                PROVE place[i] # place[j]
    OBVIOUS
  <2>1. Precedes(routes, i, j) \/ Precedes(routes, j, i)  BY <1>1, PlaceOrders
  <2>2. Place(routes, i) < Place(routes, j) \/ Place(routes, j) < Place(routes, i)  BY <1>1, <2>1, PlaceOrders
  <2>. HIDE DEF place
  <2>3. place[i] < place[j] \/ place[j] < place[i]  BY <1>2, <2>2
  <2>4. place[i] \in Nat /\ place[j] \in Nat  BY <1>1, <1>2
  <2>. QED  BY <2>3, <2>4
<1>. HIDE DEF place, n
<1>4. place \in Injection(1..n, 1..n)  BY <1>2, <1>3 DEF Injection, IsInjective
<1>5. place \in Surjection(1..n, 1..n)  BY <1>1, <1>4, FS_Interval, FS_Injection
<1>6. \A k \in 1..n : \E j \in 1..n : Place(routes, j) = k  BY <1>2, <1>5 DEF Surjection
<1>7. \A k \in 1..n : at(k) \in 1..n /\ Place(routes, at(k)) = k  BY <1>1, <1>6
<1>8. DOMAIN table = 1..n /\ \A k \in 1..n : table[k] = routes[at(k)]  BY <1>1 DEF build_route_table
<1>. HIDE DEF table, at
<1>9. \A k \in 1..n : \E i \in 1..n : table[k] = routes[i]  BY <1>7, <1>8
<1>10. ASSUME NEW i \in 1..n
       PROVE \E k \in 1..n : table[k] = routes[i]
  <2>. DEFINE k == Place(routes, i)
  <2>1. k \in 1..n  BY <1>2
  <2>2. at(k) = i  BY <1>2, <1>3, <1>7, <2>1
  <2>. QED  BY <1>8, <2>1, <2>2
<1>11. ASSUME NEW k \in 1..n, NEW m \in 1..n, k < m
       PROVE specificity(table[k].pattern) >= specificity(table[m].pattern)
  <2>1. at(k) \in 1..n /\ at(m) \in 1..n /\ Place(routes, at(k)) = k /\ Place(routes, at(m)) = m  BY <1>7
  <2>2. ~Precedes(routes, at(m), at(k))
    <3>1. Precedes(routes, at(m), at(k)) => m < k  BY <1>1, <2>1, PlaceOrders
    <3>. QED  BY <1>1, <1>11, <3>1
  <2>3. \A j \in 1..n : specificity(routes[j].pattern) \in Nat
    <3>1. \A j \in 1..n : routes[j] \in Routing  BY <1>1
    <3>. QED  BY <3>1, PatternTypes DEF Routing
  <2>. QED  BY <1>8, <2>1, <2>2, <2>3 DEF Precedes
<1>12. Sorted(table, routes)  BY <1>1, <1>8, <1>9, <1>10, <1>11 DEF Sorted
<1>. QED  BY <1>12 DEF table

\* A set of naturals that is not empty has a least element.
LEMMA First ==
    ASSUME NEW S \in SUBSET Nat, S # {}
    PROVE \E x \in S : \A y \in S : x <= y
<1>. DEFINE Less == {s \in Nat \X Nat : s[1] < s[2]}
<1>1. IsWellFoundedOn(Less, Nat)  BY NatLessThanWellFounded, Zenon DEF OpToRel
<1>2. \A x, y \in Nat : <<y, x>> \in Less <=> y < x  OBVIOUS
<1>. HIDE DEF Less
<1>3. \E x \in S : \A y \in S : <<y, x>> \notin Less  BY <1>1, WFMin, Zenon
<1>4. \E x \in S : \A y \in S : ~(y < x)  BY <1>2, <1>3, S \subseteq Nat, Zenon
<1>. QED  BY <1>4

Matching(table, path, full) ==
    {i \in DOMAIN table : is_full_catchall(table[i].pattern) = full /\ matches(table[i].pattern, path)}

LEMMA FirstMatchIs ==
    ASSUME NEW table, NEW n \in Nat, DOMAIN table = 1..n, NEW path, NEW full
    PROVE \/ Matching(table, path, full) = {} /\ FirstMatch(table, path, full) = "none"
          \/ \E i \in Matching(table, path, full) :
                /\ \A j \in Matching(table, path, full) : i <= j
                /\ FirstMatch(table, path, full) = table[i].rpc
<1>. DEFINE hits == Matching(table, path, full)
<1>1. hits \in SUBSET Nat  BY DEF Matching
<1>2. FirstMatch(table, path, full)
        = IF hits = {} THEN "none" ELSE table[CHOOSE i \in hits : \A j \in hits : i <= j].rpc
  BY DEF FirstMatch, Matching
<1>. HIDE DEF hits
<1>3. CASE hits = {}
  BY <1>2, <1>3 DEF hits
<1>4. CASE hits # {}
  <2>. DEFINE i == CHOOSE i \in hits : \A j \in hits : i <= j
  <2>1. \E x \in hits : \A y \in hits : x <= y  BY <1>1, <1>4, First
  <2>2. i \in hits /\ \A j \in hits : i <= j  BY <2>1
  <2>3. FirstMatch(table, path, full) = table[i].rpc  BY <1>2, <1>4
  <2>. HIDE DEF i
  <2>. QED  BY <2>2, <2>3 DEF hits
<1>. QED  BY <1>3, <1>4

RoutesOk(routes) ==
    /\ routes \in Seq(Routing)
    /\ \A i, j \in DOMAIN routes : routes[i].rpc = routes[j].rpc => i = j

LEMMA RouteTypes ==
    ASSUME NEW routes, RoutesOk(routes), NEW i \in DOMAIN routes
    PROVE /\ routes[i].pattern \in Patterns /\ routes[i].rpc \in Rpcs
          /\ routes[i].rpc # "none" /\ routes[i].rpc # "address"
          /\ specificity(routes[i].pattern) \in Nat
<1>1. routes[i] \in Routing  BY DEF RoutesOk
<1>2. routes[i].pattern \in Patterns /\ routes[i].rpc \in Rpcs  BY <1>1 DEF Routing
<1>. QED  BY <1>2, PatternTypes, RoutesAssumption

\* Of two routes of an accepted program that match one path, one is more specific.
LEMMA NoTie ==
    ASSUME NEW routes, RoutesOk(routes), Accepted(routes), NEW path \in Seq(Texts),
           NEW i \in DOMAIN routes, NEW j \in DOMAIN routes,
           matches(routes[i].pattern, path), matches(routes[j].pattern, path), i # j
    PROVE specificity(routes[i].pattern) # specificity(routes[j].pattern)
<1>. DEFINE p == routes[i].pattern
            q == routes[j].pattern
<1>1. p \in Patterns /\ q \in Patterns  BY RouteTypes
<1>. HIDE DEF p, q
<1>2. matches(p, path) /\ matches(q, path)  BY DEF p, q
<1>3. overlap_possible(p, q) /\ overlap_possible(q, p)  BY <1>1, <1>2, MatchesOverlap
<1>4. i < j \/ j < i  BY DEF RoutesOk
<1>5. ~conflicts_with(p, q) \/ ~conflicts_with(q, p)  BY <1>4 DEF Accepted, p, q
<1>. QED  BY <1>3, <1>5 DEF conflicts_with, p, q

\* Where the table says a path goes is where the routes say it should.
LEMMA MatchInTable ==
    ASSUME NEW routes, RoutesOk(routes), Accepted(routes), NEW path \in Seq(Texts), NEW full \in BOOLEAN
    PROVE LET table == build_route_table(routes)
              first == FirstMatch(table, path, full)
              hits  == Matching(routes, path, full)
          IN \/ hits = {} /\ first = "none"
             \/ \E r \in hits : /\ first = routes[r].rpc
                                /\ \A o \in hits : o # r =>
                                      specificity(routes[o].pattern) < specificity(routes[r].pattern)
<1>. DEFINE n == Len(routes)
            table == build_route_table(routes)
            hits == Matching(routes, path, full)
            inTable == Matching(table, path, full)
            first == FirstMatch(table, path, full)
<1>1. routes \in Seq(Routing) /\ n \in Nat /\ DOMAIN routes = 1..n  BY DEF RoutesOk
<1>2. /\ DOMAIN table = 1..n
      /\ \A k \in 1..n : \E i \in 1..n : table[k] = routes[i]
      /\ \A i \in 1..n : \E k \in 1..n : table[k] = routes[i]
      /\ \A k, m \in 1..n : k < m => specificity(table[k].pattern) >= specificity(table[m].pattern)
  <2>1. Sorted(table, routes)  BY <1>1, TableSorted
  <2>. HIDE DEF table, n
  <2>. QED  BY <1>1, <2>1 DEF Sorted
<1>. HIDE DEF table, n
<1>3. \/ inTable = {} /\ first = "none"
      \/ \E k \in inTable : (\A m \in inTable : k <= m) /\ first = table[k].rpc
  <2>1. n \in Nat /\ DOMAIN table = 1..n  BY <1>1, <1>2
  <2>. QED  BY <2>1, FirstMatchIs, Zenon
<1>. HIDE DEF first
<1>4. \A k, i \in 1..n : table[k] = routes[i] => (k \in inTable <=> i \in hits)
  BY <1>1, <1>2 DEF Matching
<1>5. hits \subseteq 1..n /\ inTable \subseteq 1..n  BY <1>1, <1>2 DEF Matching
<1>6. \A i \in hits : matches(routes[i].pattern, path)  BY DEF Matching
<1>. HIDE DEF hits, inTable
<1>7. CASE inTable = {} /\ first = "none"
  <2>1. hits = {}  BY <1>2, <1>4, <1>5, <1>7
  <2>. QED  BY <1>7, <2>1 DEF hits, first, table
<1>8. CASE \E k \in inTable : (\A m \in inTable : k <= m) /\ first = table[k].rpc
  <2>1. PICK k \in inTable : (\A m \in inTable : k <= m) /\ first = table[k].rpc  BY <1>8
  <2>2. PICK r \in 1..n : table[k] = routes[r]  BY <1>2, <1>5
  <2>3. k \in 1..n /\ r \in hits  BY <1>4, <1>5, <2>2
  <2>4. ASSUME NEW o \in hits, o # r
        PROVE specificity(routes[o].pattern) < specificity(routes[r].pattern)
    <3>1. o \in 1..n  BY <1>5
    <3>2. PICK m \in 1..n : table[m] = routes[o]  BY <1>2, <3>1
    <3>3. m \in inTable  BY <1>4, <3>1, <3>2
    <3>4. specificity(routes[r].pattern) # specificity(routes[o].pattern)
      BY <1>1, <1>6, <2>3, <2>4, <3>1, NoTie
    <3>5. m # k  BY <2>2, <3>2, <3>4
    <3>6. k < m  BY <1>1, <2>1, <2>3, <3>3, <3>5
    <3>7. specificity(routes[r].pattern) >= specificity(routes[o].pattern)  BY <1>2, <2>2, <2>3, <3>2, <3>6
    <3>8. specificity(routes[r].pattern) \in Nat /\ specificity(routes[o].pattern) \in Nat
      BY <1>1, <3>1, RouteTypes
    <3>. QED  BY <3>4, <3>7, <3>8
  <2>5. first = routes[r].rpc  BY <2>1, <2>2
  <2>. QED  BY <2>3, <2>4, <2>5 DEF hits, first, table
<1>. QED  BY <1>3, <1>7, <1>8

\* Where resolve_route sends a path.
LEMMA Resolved ==
    ASSUME NEW routes, RoutesOk(routes), Accepted(routes), NEW path \in Seq(Texts), NEW services
    PROVE LET to == resolve_route(services, build_route_table(routes), path)
              own == Address(path) /\ path[1] \in services
          IN \/ \E r \in Matching(routes, path, FALSE) :
                   /\ to = routes[r].rpc
                   /\ \A o \in Matching(routes, path, FALSE) : o # r =>
                         specificity(routes[o].pattern) < specificity(routes[r].pattern)
             \/ Matching(routes, path, FALSE) = {} /\ own /\ to = "address"
             \/ /\ Matching(routes, path, FALSE) = {} /\ ~own
                /\ \E r \in Matching(routes, path, TRUE) :
                      to = routes[r].rpc /\ Matching(routes, path, TRUE) = {r}
             \/ /\ Matching(routes, path, FALSE) = {} /\ ~own /\ Matching(routes, path, TRUE) = {}
                /\ to = IF Address(path) THEN "address" ELSE "none"
<1>. DEFINE table == build_route_table(routes)
            fixed == Matching(routes, path, FALSE)
            full  == Matching(routes, path, TRUE)
            first == FirstMatch(table, path, FALSE)
            rest  == FirstMatch(table, path, TRUE)
            own   == Address(path) /\ path[1] \in services
            to    == resolve_route(services, table, path)
<1>1. \/ fixed = {} /\ first = "none"
      \/ \E r \in fixed : /\ first = routes[r].rpc
                          /\ \A o \in fixed : o # r =>
                                specificity(routes[o].pattern) < specificity(routes[r].pattern)
  BY MatchInTable
<1>2. \/ full = {} /\ rest = "none"
      \/ \E r \in full : /\ rest = routes[r].rpc
                         /\ \A o \in full : o # r =>
                               specificity(routes[o].pattern) < specificity(routes[r].pattern)
  BY MatchInTable
<1>3. /\ first # "none" => to = first
      /\ first = "none" /\ own => to = "address"
      /\ first = "none" /\ ~own /\ rest # "none" => to = rest
      /\ first = "none" /\ ~own /\ rest = "none" => to = IF Address(path) THEN "address" ELSE "none"
  BY DEF resolve_route
<1>4. fixed \subseteq DOMAIN routes /\ full \subseteq DOMAIN routes /\ \A r \in full : is_full_catchall(routes[r].pattern)
  BY DEF Matching
<1>. HIDE DEF fixed, full, first, rest, own, to, table
<1>5. \A r \in DOMAIN routes : routes[r].rpc # "none"  BY RouteTypes
<1>6. \A r, o \in full : routes[r].pattern = routes[o].pattern /\ specificity(routes[r].pattern) \in Nat
  BY <1>4, RouteTypes, FullCatchall
<1>7. CASE \E r \in fixed : /\ first = routes[r].rpc
                            /\ \A o \in fixed : o # r =>
                                  specificity(routes[o].pattern) < specificity(routes[r].pattern)
  <2>1. to = first  BY <1>3, <1>4, <1>5, <1>7
  <2>. QED  BY <1>7, <2>1 DEF fixed, to, table
<1>8. CASE fixed = {} /\ first = "none" /\ own
  BY <1>3, <1>8 DEF fixed, to, table, own
<1>9. CASE fixed = {} /\ first = "none" /\ ~own /\ full = {} /\ rest = "none"
  BY <1>3, <1>9 DEF fixed, full, to, table, own
<1>10. CASE fixed = {} /\ first = "none" /\ ~own /\ full # {}
  <2>1. PICK r \in full : /\ rest = routes[r].rpc
                          /\ \A o \in full : o # r =>
                                specificity(routes[o].pattern) < specificity(routes[r].pattern)
    BY <1>2, <1>10
  <2>2. \A o \in full : o = r
    <3>1. \A o \in full : ~(specificity(routes[o].pattern) < specificity(routes[r].pattern))
      <4>. SUFFICES ASSUME NEW o \in full
                    PROVE ~(specificity(routes[o].pattern) < specificity(routes[r].pattern))
        OBVIOUS
      <4>. DEFINE a == specificity(routes[o].pattern)
                  b == specificity(routes[r].pattern)
      <4>1. a = b /\ a \in Nat  BY <1>6
      <4>. HIDE DEF a, b
      <4>2. ~(a < b)  BY <4>1
      <4>. QED  BY <4>2 DEF a, b
    <3>. QED  BY <2>1, <3>1
  <2>3. to = routes[r].rpc  BY <1>3, <1>4, <1>5, <1>10, <2>1
  <2>4. full = {r}  BY <2>2
  <2>. QED  BY <1>10, <2>3, <2>4 DEF fixed, full, to, table, own
<1>. QED  BY <1>1, <1>2, <1>7, <1>8, <1>9, <1>10

Reply(q) ==
    LET ok == Accepted(q.routes)
        table == build_route_table(q.routes)
    IN [accepted |-> ok,
        rpc |-> IF ok THEN [path \in Paths |-> resolve_route(q.services, table, path)] ELSE <<>>]

RouteInv == Asked("route") /\ RoutesOk(question.routes) /\ (answer = None \/ answer = Reply(question))

LEMMA RoutesPromised == RouteInv => RouteIsMostSpecific
<1>. SUFFICES ASSUME RouteInv, answer = Reply(question), Accepted(question.routes), NEW path \in Paths
              PROVE IF Fixed(path) # {} THEN Took(path) = Best(Fixed(path)) /\ \E r \in Hits(path) : Took(path) = {r}
                    ELSE IF Address(path) /\ path[1] \in question.services THEN answer.rpc[path] = "address"
                    ELSE IF Hits(path) # {} THEN \E r \in Hits(path) : Hits(path) = {r} /\ Took(path) = {r}
                    ELSE answer.rpc[path] = IF Address(path) THEN "address" ELSE "none"
  BY DEF RouteInv, RouteIsMostSpecific, Answered, Reply
<1>. DEFINE routes == question.routes
            services == question.services
            fixed == Matching(routes, path, FALSE)
            full  == Matching(routes, path, TRUE)
            to    == resolve_route(services, build_route_table(routes), path)
            own   == Address(path) /\ path[1] \in services
<1>1. RoutesOk(routes) /\ Accepted(routes) /\ path \in Seq(Texts)  BY RoutesAssumption DEF RouteInv
<1>2. answer.rpc[path] = to  BY DEF Reply
<1>3. Hits(path) = {routes[i] : i \in fixed \cup full}  BY DEF Hits, Matching, is_full_catchall
<1>4. Fixed(path) = {routes[i] : i \in fixed}  BY DEF Fixed, Hits, Matching
<1>5. \/ \E r \in fixed :
            /\ to = routes[r].rpc
            /\ \A o \in fixed : o # r =>
                  specificity(routes[o].pattern) < specificity(routes[r].pattern)
      \/ fixed = {} /\ own /\ to = "address"
      \/ fixed = {} /\ ~own /\ \E r \in full : to = routes[r].rpc /\ full = {r}
      \/ fixed = {} /\ ~own /\ full = {} /\ to = IF Address(path) THEN "address" ELSE "none"
  BY <1>1, Resolved
<1>6. fixed \cup full \subseteq DOMAIN routes  BY DEF Matching
<1>7. \A i, j \in DOMAIN routes : routes[i].rpc = routes[j].rpc => i = j  BY <1>1 DEF RoutesOk
<1>8. \A i \in DOMAIN routes : specificity(routes[i].pattern) \in Nat  BY <1>1, RouteTypes
<1>. HIDE DEF routes, fixed, full, to
<1>9. ASSUME NEW r \in fixed \cup full, to = routes[r].rpc
      PROVE Took(path) = {routes[r]} /\ routes[r] \in Hits(path)
  <2>1. \A h \in Hits(path) : h.rpc = to => h = routes[r]  BY <1>3, <1>6, <1>7, <1>9
  <2>. QED  BY <1>2, <1>3, <1>9, <2>1 DEF Took
<1>10. CASE \E r \in fixed :
               /\ to = routes[r].rpc
               /\ \A o \in fixed : o # r =>
                     specificity(routes[o].pattern) < specificity(routes[r].pattern)
  <2>1. PICK r \in fixed :
               /\ to = routes[r].rpc
               /\ \A o \in fixed : o # r =>
                     specificity(routes[o].pattern) < specificity(routes[r].pattern)
    BY <1>10
  <2>. DEFINE best == routes[r]
  <2>2. Took(path) = {best} /\ best \in Hits(path) /\ best \in Fixed(path)  BY <1>4, <1>9, <2>1
  <2>3. \A o \in Fixed(path) : o # best => specificity(o.pattern) < specificity(best.pattern)
    BY <1>4, <2>1
  <2>4. \A o \in Fixed(path) : specificity(o.pattern) \in Nat  BY <1>4, <1>6, <1>8
  <2>. HIDE DEF best
  <2>5. best \in Best(Fixed(path))  BY <2>2, <2>3 DEF Best
  <2>6. ASSUME NEW o \in Best(Fixed(path))
        PROVE o = best
    <3>1. o \in Fixed(path) /\ (o # best => specificity(best.pattern) < specificity(o.pattern))
      BY <2>2 DEF Best
    <3>2. specificity(o.pattern) \in Nat /\ specificity(best.pattern) \in Nat  BY <2>2, <2>4, <3>1
    <3>. QED  BY <2>3, <3>1, <3>2
  <2>. QED  BY <2>2, <2>5, <2>6
<1>11. CASE fixed = {} /\ own /\ to = "address"
  BY <1>2, <1>4, <1>11
<1>12. CASE fixed = {} /\ ~own /\ \E r \in full : to = routes[r].rpc /\ full = {r}
  <2>1. PICK r \in full : to = routes[r].rpc /\ full = {r}  BY <1>12
  <2>2. Hits(path) = {routes[r]}  BY <1>3, <1>12, <2>1
  <2>3. Took(path) = {routes[r]}  BY <1>9, <2>1
  <2>. QED  BY <1>4, <1>12, <2>2, <2>3
<1>13. CASE fixed = {} /\ ~own /\ full = {} /\ to = IF Address(path) THEN "address" ELSE "none"
  BY <1>2, <1>3, <1>4, <1>13
<1>. QED  BY <1>5, <1>10, <1>11, <1>12, <1>13

\* Of the routes of an accepted program that match a path and fix a place of it, the one
\* with most literal segments answers, whatever the order of the declarations; a declared
\* service keeps its address before a route that takes everything: build_route_table and
\* resolve_route, for any routes that check_route_conflicts accepts and any path.
THEOREM RouteCorrect == RouteSpec => []RouteIsMostSpecific
<1>1. AskRoute => RouteInv  BY DEF AskRoute, RouteInv, RoutesOk, Routing
<1>2. RouteInv /\ [AnswerRoute]_<<question, answer>> => RouteInv'
  BY DEF RouteInv, AnswerRoute, Reply, Asked, RoutesOk
<1>3. RouteInv => RouteIsMostSpecific  BY RoutesPromised
<1>. QED  BY <1>1, <1>2, <1>3, PTL DEF RouteSpec

-----------------------------------------------------------------------------
(* The calendar                                                             *)

\* One more leap year for each leap year.
LEMMA Leap ==
    ASSUME NEW y \in Int
    PROVE /\ LeapYears(y) \in Int
          /\ LeapYears(y) = LeapYears(y - 1) + IF LeapYear(y) THEN 1 ELSE 0
<1>1. CASE LeapYear(y)
  BY <1>1 DEF LeapYears, LeapYear
<1>2. CASE ~LeapYear(y)
  BY <1>2 DEF LeapYears, LeapYear
<1>. QED  BY <1>1, <1>2

\* Years of an era, from March on.
LEMMA YearOfEra ==
    ASSUME NEW doe \in Int, 0 <= doe, doe <= 146096,
           NEW yoe \in Int, yoe = (doe - doe \div 1460 + doe \div 36524 - doe \div 146096) \div 365
    PROVE /\ 0 <= yoe /\ yoe <= 399
          /\ 365 * yoe + yoe \div 4 - yoe \div 100 <= doe
          /\ doe < 365 * (yoe + 1) + (yoe + 1) \div 4 - (yoe + 1) \div 100 + (yoe + 1) \div 400
<1>1. 0 <= yoe /\ yoe <= 399  BY SMTT(60)
<1>2. 365 * yoe + yoe \div 4 - yoe \div 100 <= doe  BY SMTT(60)
<1>3. doe < 365 * (yoe + 1) + (yoe + 1) \div 4 - (yoe + 1) \div 100 + (yoe + 1) \div 400  BY SMTT(60)
<1>. QED  BY <1>1, <1>2, <1>3

MarchFirst(y) == 365 * y + LeapYears(y) - 719468

\* The first of March is the start of the year of civil_from_days.
LEMMA March ==
    ASSUME NEW y \in Int
    PROVE /\ MarchFirst(y) = YearStart(y) + 59 + IF LeapYear(y) THEN 1 ELSE 0
          /\ YearStart(y + 1) = MarchFirst(y) + 306
          /\ MarchFirst(y) \in Int /\ YearStart(y) \in Int
<1>1. LeapYears(1969) = 477  BY DEF LeapYears
<1>2. LeapYears(y) \in Int /\ LeapYears(y - 1) \in Int /\ (y + 1) - 1 = y BY Leap
<1>3. YearStart(y) = 365 * (y - 1970) + LeapYears(y - 1) - 477  BY <1>1 DEF YearStart
<1>4. YearStart(y + 1) = 365 * (y + 1 - 1970) + LeapYears(y) - 477  BY <1>1, <1>2 DEF YearStart
<1>5. LeapYears(y) = LeapYears(y - 1) + IF LeapYear(y) THEN 1 ELSE 0  BY Leap
<1>. QED  BY <1>2, <1>3, <1>4, <1>5, SMT DEF MarchFirst

LEMMA EraYears ==
    ASSUME NEW era \in Int, NEW yoe \in Int, 0 <= yoe, yoe <= 399
    PROVE /\ LeapYears(yoe + era * 400) = 97 * era + yoe \div 4 - yoe \div 100
          /\ LeapYears(yoe + 1 + era * 400) = 97 * era + (yoe + 1) \div 4 - (yoe + 1) \div 100 + (yoe + 1) \div 400
BY DEF LeapYears

LEMMA DayOfYear ==
    ASSUME NEW doy \in Int, 0 <= doy, doy <= 365, NEW mp \in Int, mp = (5 * doy + 2) \div 153
    PROVE /\ 0 <= mp /\ mp <= 11
          /\ (153 * mp + 2) \div 5 <= doy /\ doy < (153 * (mp + 1) + 2) \div 5
BY SMTT(60)

LEMMA MonthTable ==
    ASSUME NEW y \in Int
    PROVE LET leap == IF LeapYear(y) THEN 1 ELSE 0 IN
          /\ MonthStart(y, 1) = 0 /\ MonthStart(y, 2) = 31 /\ MonthStart(y, 3) = 59 + leap
          /\ MonthStart(y, 4) = 90 + leap /\ MonthStart(y, 5) = 120 + leap /\ MonthStart(y, 6) = 151 + leap
          /\ MonthStart(y, 7) = 181 + leap /\ MonthStart(y, 8) = 212 + leap /\ MonthStart(y, 9) = 243 + leap
          /\ MonthStart(y, 10) = 273 + leap /\ MonthStart(y, 11) = 304 + leap /\ MonthStart(y, 12) = 334 + leap
          /\ MonthDays(y, 1) = 31 /\ MonthDays(y, 2) = 28 + leap /\ MonthDays(y, 3) = 31
          /\ MonthDays(y, 4) = 30 /\ MonthDays(y, 5) = 31 /\ MonthDays(y, 6) = 30
          /\ MonthDays(y, 7) = 31 /\ MonthDays(y, 8) = 31 /\ MonthDays(y, 9) = 30
          /\ MonthDays(y, 10) = 31 /\ MonthDays(y, 11) = 30 /\ MonthDays(y, 12) = 31
BY SMT DEF MonthStart, MonthDays

\* The months from March on, as civil_from_days counts them.
LEMMA MarchMonths ==
    ASSUME NEW y \in Int, NEW mp \in Int, 0 <= mp, mp <= 11
    PROVE LET leap == IF LeapYear(y) THEN 1 ELSE 0
              m == mp + (IF mp < 10 THEN 3 ELSE -9)
          IN /\ m \in 1..12
             /\ mp < 10 => m = mp + 3 /\ MonthStart(y, m) = 59 + leap + (153 * mp + 2) \div 5
             /\ mp >= 10 => m = mp - 9 /\ m <= 2 /\ MonthStart(y, m) = (153 * mp + 2) \div 5 - 306
             /\ mp < 11 => MonthDays(y, m) = (153 * (mp + 1) + 2) \div 5 - (153 * mp + 2) \div 5
             /\ mp = 11 => m = 2 /\ MonthDays(y, m) = 28 + leap /\ (153 * mp + 2) \div 5 = 337
<1>1. mp \in {0, 1, 2, 3, 4, 5, 6, 7, 8, 9, 10, 11}  BY SMT
<1>. QED  BY <1>1, MonthTable, SMT

\* civil_from_days gives the date whose day, told by years and months, is the given one.
LEMMA Civil ==
    ASSUME NEW days \in Int
    PROVE LET c == civil_from_days(days)
          IN /\ c.year \in Int /\ c.month \in 1..12 /\ c.day \in 1..MonthDays(c.year, c.month)
             /\ DayOf(c.year, c.month, c.day) = days
<1>. DEFINE z   == days + 719468
            era == z \div 146097
            doe == z - era * 146097
            yoe == (doe - doe \div 1460 + doe \div 36524 - doe \div 146096) \div 365
            doy == doe - (365 * yoe + yoe \div 4 - yoe \div 100)
            mp  == (5 * doy + 2) \div 153
            m   == mp + (IF mp < 10 THEN 3 ELSE -9)
            y   == yoe + era * 400 + (IF m <= 2 THEN 1 ELSE 0)
            d   == doy - (153 * mp + 2) \div 5 + 1
            c   == civil_from_days(days)
<1>1. c.year = y /\ c.month = m /\ c.day = d  BY SMT DEF civil_from_days
<1>2. era \in Int /\ doe \in Int /\ 0 <= doe /\ doe <= 146096  BY SMT
<1>3. days = era * 146097 + doe - 719468  BY <1>2, SMT
<1>. HIDE DEF era, doe, z
<1>4. yoe \in Int  BY <1>2, SMT
<1>5. /\ 0 <= yoe /\ yoe <= 399
      /\ 365 * yoe + yoe \div 4 - yoe \div 100 <= doe
      /\ doe < 365 * (yoe + 1) + (yoe + 1) \div 4 - (yoe + 1) \div 100 + (yoe + 1) \div 400
  BY <1>2, <1>4, YearOfEra, SMT
<1>. HIDE DEF yoe
<1>. DEFINE march == yoe + era * 400
<1>6. march \in Int  BY <1>2, <1>4, SMT
<1>7. /\ LeapYears(march) = 97 * era + yoe \div 4 - yoe \div 100
      /\ LeapYears(march + 1) = 97 * era + (yoe + 1) \div 4 - (yoe + 1) \div 100 + (yoe + 1) \div 400
  <2>1. march + 1 = yoe + 1 + era * 400  BY <1>2, <1>4, SMT
  <2>. QED  BY <1>2, <1>4, <1>5, <2>1, EraYears, SMT
<1>8. days = MarchFirst(march) + doy  BY <1>2, <1>3, <1>4, <1>7, SMT DEF MarchFirst
<1>9. /\ doy \in Int /\ 0 <= doy
      /\ doy <= 364 + IF LeapYear(march + 1) THEN 1 ELSE 0
  <2>1. LeapYears(march + 1) = LeapYears(march) + IF LeapYear(march + 1) THEN 1 ELSE 0
    <3>1. march + 1 \in Int /\ (march + 1) - 1 = march  BY <1>6, SMT
    <3>. QED  BY <3>1, Leap, SMT
  <2>. QED  BY <1>2, <1>4, <1>5, <1>7, <2>1, SMT
<1>. HIDE DEF doy
<1>10. mp \in Int  BY <1>9, SMT
<1>11. /\ 0 <= mp /\ mp <= 11
       /\ (153 * mp + 2) \div 5 <= doy /\ doy < (153 * (mp + 1) + 2) \div 5
  <2>1. doy <= 365  BY <1>9, SMT
  <2>. QED  BY <1>9, <1>10, <2>1, DayOfYear, SMT
<1>. HIDE DEF mp
<1>12. y \in Int /\ (mp < 10 => y = march) /\ (mp >= 10 => y = march + 1)
  BY <1>2, <1>4, <1>10, <1>11, SMT
<1>. HIDE DEF march
<1>13. /\ m \in 1..12
       /\ mp < 10 => MonthStart(y, m) = 59 + (IF LeapYear(y) THEN 1 ELSE 0) + (153 * mp + 2) \div 5
       /\ mp >= 10 => MonthStart(y, m) = (153 * mp + 2) \div 5 - 306
       /\ mp < 11 => MonthDays(y, m) = (153 * (mp + 1) + 2) \div 5 - (153 * mp + 2) \div 5
       /\ mp = 11 => MonthDays(y, m) = 28 + (IF LeapYear(y) THEN 1 ELSE 0) /\ (153 * mp + 2) \div 5 = 337
  BY <1>10, <1>11, <1>12, MarchMonths, SMT
<1>14. YearStart(y) \in Int /\ MarchFirst(y) \in Int
       /\ MarchFirst(march) \in Int
       /\ MarchFirst(march) = YearStart(march) + 59 + (IF LeapYear(march) THEN 1 ELSE 0)
       /\ YearStart(march + 1) = MarchFirst(march) + 306
  BY <1>6, <1>12, March, SMT
<1>. HIDE DEF m, y
<1>15. d \in 1..MonthDays(y, m)
  BY <1>9, <1>10, <1>11, <1>12, <1>13, SMT
<1>16. DayOf(y, m, d) = days
  BY <1>6, <1>8, <1>9, <1>10, <1>11, <1>12, <1>13, <1>14, SMT DEF DayOf
<1>. QED  BY <1>1, <1>12, <1>13, <1>15, <1>16, SMT

\* The calendar told year by year and month by month.
LEMMA YearsTold ==
    ASSUME NEW y \in Int
    PROVE /\ YearStart(1970) = 0
          /\ YearStart(y) \in Int
          /\ YearStart(y + 1) = YearStart(y) + 365 + IF LeapYear(y) THEN 1 ELSE 0
<1>1. YearStart(1970) = 0  BY SMT DEF YearStart, LeapYears
<1>2. YearStart(y + 1) = YearStart(y) + 365 + IF LeapYear(y) THEN 1 ELSE 0  BY March, SMT
<1>. QED  BY <1>1, <1>2, March, SMT

LEMMA MonthsTold ==
    ASSUME NEW y \in Int, NEW m \in 1..12
    PROVE /\ MonthStart(y, m) \in Nat /\ MonthDays(y, m) \in 28..31
          /\ m = 1 => MonthStart(y, m) = 0
          /\ m < 12 => MonthStart(y, m + 1) = MonthStart(y, m) + MonthDays(y, m)
          /\ m = 12 => MonthStart(y, m) + MonthDays(y, m) = 365 + IF LeapYear(y) THEN 1 ELSE 0
<1>1. m \in {1, 2, 3, 4, 5, 6, 7, 8, 9, 10, 11, 12}  BY SMT
<1>. QED  BY <1>1, MonthTable, SMT

\* A day of a year, of those of the years before it, of the months before it.
LEMMA YearsGrow ==
    ASSUME NEW y \in Int, NEW later \in Int, y < later
    PROVE YearStart(y + 1) <= YearStart(later)
<1>. DEFINE L == LeapYears(y)  M == LeapYears(later - 1)
<1>1. L \in Int /\ M \in Int /\ L <= M  BY SMT DEF LeapYears
<1>2. LeapYears(1969) \in Int /\ (y + 1) - 1 = y  BY SMT DEF LeapYears
<1>3. YearStart(y + 1) = 365 * (y + 1 - 1970) + L - LeapYears(1969)  BY <1>2 DEF YearStart
<1>4. YearStart(later) = 365 * (later - 1970) + M - LeapYears(1969)  BY DEF YearStart
<1>. HIDE DEF L, M
<1>. QED  BY <1>1, <1>2, <1>3, <1>4, SMT

LEMMA MonthsGrow ==
    ASSUME NEW y \in Int, NEW m \in 1..12, NEW later \in 1..12, m < later
    PROVE MonthStart(y, m) + MonthDays(y, m) <= MonthStart(y, later)
<1>1. m \in {1, 2, 3, 4, 5, 6, 7, 8, 9, 10, 11, 12} /\ later \in {1, 2, 3, 4, 5, 6, 7, 8, 9, 10, 11, 12}  BY SMT
<1>. QED  BY <1>1, MonthTable, SMT

\* A date lies in its year.
LEMMA InYear ==
    ASSUME NEW y \in Int, NEW m \in 1..12, NEW d \in 1..MonthDays(y, m)
    PROVE /\ DayOf(y, m, d) \in Int
          /\ YearStart(y) <= DayOf(y, m, d) /\ DayOf(y, m, d) < YearStart(y + 1)
<1>1. /\ MonthStart(y, m) \in Nat /\ MonthDays(y, m) \in 28..31
      /\ MonthStart(y, 12) \in Nat /\ MonthDays(y, 12) \in 28..31
      /\ MonthStart(y, 12) + MonthDays(y, 12) = 365 + IF LeapYear(y) THEN 1 ELSE 0
      /\ YearStart(y) \in Int /\ YearStart(y + 1) = YearStart(y) + 365 + IF LeapYear(y) THEN 1 ELSE 0
  <2>1. 12 \in 1..12  BY SMT
  <2>2. MonthStart(y, m) \in Nat /\ MonthDays(y, m) \in 28..31  BY MonthsTold
  <2>3. /\ MonthStart(y, 12) \in Nat /\ MonthDays(y, 12) \in 28..31
        /\ MonthStart(y, 12) + MonthDays(y, 12) = 365 + IF LeapYear(y) THEN 1 ELSE 0
    BY <2>1, MonthsTold, SMT
  <2>. QED  BY <2>2, <2>3, YearsTold, SMT
<1>2. MonthStart(y, m) + MonthDays(y, m) <= MonthStart(y, 12) + MonthDays(y, 12)
  <2>1. CASE m = 12  BY <1>1, <2>1, SMT
  <2>2. CASE m # 12
    <3>1. MonthStart(y, m) + MonthDays(y, m) <= MonthStart(y, 12)  BY <2>2, MonthsGrow, SMT
    <3>. QED  BY <1>1, <3>1, SMT
  <2>. QED  BY <2>1, <2>2
<1>. QED  BY <1>1, <1>2, SMT DEF DayOf

\* No other date has that day.
LEMMA OneDate ==
    ASSUME NEW y \in Int, NEW m \in 1..12, NEW d \in 1..MonthDays(y, m)
    PROVE LET c == civil_from_days(DayOf(y, m, d)) IN c.year = y /\ c.month = m /\ c.day = d
<1>. DEFINE c == civil_from_days(DayOf(y, m, d))
            year == c.year  month == c.month  day == c.day
<1>1. DayOf(y, m, d) \in Int  BY InYear
<1>2. /\ year \in Int /\ month \in 1..12 /\ day \in 1..MonthDays(year, month)
      /\ DayOf(year, month, day) = DayOf(y, m, d)
  BY <1>1, Civil
<1>. HIDE DEF c, year, month, day
<1>3. /\ YearStart(y) <= DayOf(y, m, d) /\ DayOf(y, m, d) < YearStart(y + 1)
      /\ YearStart(year) <= DayOf(y, m, d) /\ DayOf(y, m, d) < YearStart(year + 1)
  BY <1>2, InYear
<1>4. /\ YearStart(y) \in Int /\ YearStart(y + 1) \in Int
      /\ YearStart(year) \in Int /\ YearStart(year + 1) \in Int
  BY <1>2, YearsTold, SMT
<1>5. ~(y < year)
  <2>1. SUFFICES ASSUME y < year PROVE FALSE  OBVIOUS
  <2>2. YearStart(y + 1) <= YearStart(year)  BY <1>2, <2>1, YearsGrow
  <2>. QED  BY <1>1, <1>3, <1>4, <2>2, SMT
<1>6. ~(year < y)
  <2>1. SUFFICES ASSUME year < y PROVE FALSE  OBVIOUS
  <2>2. YearStart(year + 1) <= YearStart(y)  BY <1>2, <2>1, YearsGrow
  <2>. QED  BY <1>1, <1>3, <1>4, <2>2, SMT
<1>7. year = y  BY <1>2, <1>5, <1>6, SMT
<1>8. /\ MonthStart(y, m) \in Nat /\ MonthDays(y, m) \in 28..31
      /\ MonthStart(y, month) \in Nat /\ MonthDays(y, month) \in 28..31
  BY <1>2, MonthsTold
<1>9. day \in 1..MonthDays(y, month) /\ MonthStart(y, month) + day = MonthStart(y, m) + d
  BY <1>2, <1>4, <1>7, <1>8, SMT DEF DayOf
<1>10. ~(m < month)
  <2>1. SUFFICES ASSUME m < month PROVE FALSE  OBVIOUS
  <2>2. MonthStart(y, m) + MonthDays(y, m) <= MonthStart(y, month)  BY <1>2, <2>1, MonthsGrow
  <2>. QED  BY <1>8, <1>9, <2>2, SMT
<1>11. ~(month < m)
  <2>1. SUFFICES ASSUME month < m PROVE FALSE  OBVIOUS
  <2>2. MonthStart(y, month) + MonthDays(y, month) <= MonthStart(y, m)  BY <1>2, <2>1, MonthsGrow
  <2>. QED  BY <1>8, <1>9, <2>2, SMT
<1>12. month = m  BY <1>2, <1>10, <1>11, SMT
<1>13. day = d  BY <1>8, <1>9, <1>12, SMT
<1>. QED  BY <1>7, <1>12, <1>13 DEF year, month, day, c
-----------------------------------------------------------------------------
(* The fields of an expression                                              *)

ScheduleQuestion ==
    /\ Asked("schedule")
    /\ question.fields \in [Fields -> Seq(FieldParts)]
    /\ question.now.tick \in Nat /\ question.now.year \in Nat
    /\ Today \in YearStart(question.now.year)..YearStart(question.now.year + 1) - 1

LEMMA Bounds ==
    ASSUME NEW f \in Fields
    PROVE /\ Lowest[f] = FirstOf(f) /\ Highest[f] = LastOf(f)
          /\ FirstOf(f) \in Int /\ LastOf(f) \in Int /\ FirstOf(f) <= LastOf(f)
<1>1. f \in {"minute", "hour", "day_of_month", "month", "day_of_week"}  BY DEF Fields
<1>2. MinutesPerHour \in Nat \ {0} /\ HoursPerDay \in Nat \ {0}  BY CronAssumption
<1>. QED  BY <1>1, <1>2, SMT DEF Lowest, Highest, FirstOf, LastOf, Fields

\* A text of a range or a step by its length.
LEMMA Short ==
    ASSUME NEW r \in Seq(Nat), Len(r) <= 2
    PROVE \/ r = <<>> /\ Len(r) = 0 /\ DOMAIN r = {}
          \/ r # <<>> /\ Len(r) = 1 /\ r[1] \in Nat /\ DOMAIN r = {1} /\ (r = <<0>> <=> r[1] = 0)
          \/ r # <<>> /\ Len(r) = 2 /\ r[1] \in Nat /\ r[2] \in Nat /\ DOMAIN r = {1, 2}
<1>. DEFINE n == Len(r)
<1>1. DOMAIN r = 1..n /\ \A k \in 1..n : r[k] \in Nat  OBVIOUS
<1>2. n = 0 \/ n = 1 \/ n = 2
  <2>1. n \in Nat /\ n <= 2  BY LenProperties
  <2>. HIDE DEF n
  <2>. QED  BY <2>1
<1>3. r = <<>> => Len(r) = 0  OBVIOUS
<1>4. CASE Len(r) = 0  BY <1>1, <1>4, EmptySeq
<1>5. CASE Len(r) = 1
  <2>1. DOMAIN r = {1} /\ r[1] \in Nat /\ r # <<>>  BY <1>1, <1>3, <1>5
  <2>2. r = <<0>> <=> r[1] = 0
    <3>1. ASSUME r[1] = 0 PROVE r = <<0>>
      <4>1. DOMAIN r = 1..1 /\ DOMAIN <<0>> = 1..1 /\ \A k \in 1..1 : r[k] = <<0>>[k]  BY <1>1, <1>5, <3>1
      <4>. QED  BY <4>1, <1>5
    <3>. QED  BY <3>1
  <2>. QED  BY <1>5, <2>1, <2>2
<1>6. CASE Len(r) = 2
  <2>1. DOMAIN r = {1, 2} /\ r[1] \in Nat /\ r[2] \in Nat /\ r # <<>>  BY <1>1, <1>3, <1>6
  <2>. QED  BY <1>6, <2>1
<1>. QED  BY <1>2, <1>4, <1>5, <1>6

LEMMA PartTypes ==
    ASSUME ScheduleQuestion, NEW f \in Fields, NEW i \in DOMAIN question.fields[f]
    PROVE LET part == question.fields[f][i]
          IN /\ part.range \in Seq(Nat) /\ Len(part.range) <= 2
             /\ part.step \in Seq(Nat) /\ Len(part.step) <= 2 /\ Len(part.step) # 2
<1>. DEFINE part == question.fields[f][i]
<1>1. part \in FieldParts
  <2>1. question.fields[f] \in Seq(FieldParts)  BY DEF ScheduleQuestion
  <2>. QED  BY <2>1
<1>2. part.range \in {r \in Seq(Nat) : Len(r) <= 2} /\ part.step \in {r \in Seq(Nat) : Len(r) <= 1}
  BY <1>1 DEF FieldParts
<1>. HIDE DEF part
<1>3. part.range \in Seq(Nat) /\ Len(part.range) <= 2 /\ part.step \in Seq(Nat) /\ Len(part.step) <= 1
  BY <1>2
<1>. DEFINE n == Len(part.step)
<1>4. n \in Nat /\ n <= 1  BY <1>3, LenProperties
<1>. HIDE DEF n
<1>5. n <= 2 /\ n # 2  BY <1>4
<1>. QED  BY <1>3, <1>5 DEF part, n

\* The parts that can be read are those that are not unreadable.
LEMMA PartRead ==
    ASSUME ScheduleQuestion, NEW f \in Fields, NEW i \in DOMAIN question.fields[f]
    PROVE LET part == question.fields[f][i]
          IN PartOk(part, f) <=>
                ~(\/ part.step = <<0>>
                  \/ \E j \in DOMAIN part.range : part.range[j] \notin FirstOf(f)..LastOf(f)
                  \/ Len(part.range) = 2 /\ part.range[1] > part.range[2])
<1>. DEFINE part == question.fields[f][i]  range == part.range  step == part.step
<1>1. /\ range \in Seq(Nat) /\ Len(range) <= 2
      /\ step \in Seq(Nat) /\ Len(step) <= 2 /\ Len(step) # 2
  BY PartTypes
<1>2. /\ Lowest[f] = FirstOf(f) /\ Highest[f] = LastOf(f)
      /\ FirstOf(f) \in Int /\ LastOf(f) \in Int /\ FirstOf(f) <= LastOf(f)
  BY Bounds
<1>3. /\ Step(part) = (IF step = <<>> THEN 1 ELSE step[1])
      /\ Low(part, f) = (IF range = <<>> THEN FirstOf(f) ELSE range[1])
      /\ High(part, f) = (IF range = <<>> THEN LastOf(f) ELSE range[Len(range)])
  BY <1>2 DEF Step, Low, High
<1>4. PartOk(part, f) <=>
        /\ Step(part) > 0 /\ Low(part, f) <= High(part, f)
        /\ Low(part, f) >= FirstOf(f) /\ High(part, f) <= LastOf(f)
  BY <1>2 DEF PartOk
<1>. HIDE DEF part, range, step
<1>5. step = <<0>> <=> ~(Step(part) > 0)
  <2>1. \/ step = <<>>
        \/ step # <<>> /\ step[1] \in Nat /\ (step = <<0>> <=> step[1] = 0)
    BY <1>1, Short
  <2>2. CASE step = <<>>  BY <1>3, <2>2
  <2>3. CASE step # <<>> /\ step[1] \in Nat /\ (step = <<0>> <=> step[1] = 0)  BY <1>3, <2>3
  <2>. QED  BY <2>1, <2>2, <2>3
<1>6. /\ Low(part, f) <= High(part, f)
      /\ Low(part, f) >= FirstOf(f) /\ High(part, f) <= LastOf(f)
      <=> ~(\/ \E j \in DOMAIN range : range[j] \notin FirstOf(f)..LastOf(f)
            \/ Len(range) = 2 /\ range[1] > range[2])
  <2>1. \/ range = <<>> /\ Len(range) = 0 /\ DOMAIN range = {}
        \/ range # <<>> /\ Len(range) = 1 /\ range[1] \in Nat /\ DOMAIN range = {1}
        \/ range # <<>> /\ Len(range) = 2 /\ range[1] \in Nat /\ range[2] \in Nat /\ DOMAIN range = {1, 2}
    BY <1>1, Short
  <2>2. CASE range = <<>> /\ Len(range) = 0 /\ DOMAIN range = {}  BY <1>2, <1>3, <2>2
  <2>3. CASE range # <<>> /\ Len(range) = 1 /\ range[1] \in Nat /\ DOMAIN range = {1}  BY <1>2, <1>3, <2>3
  <2>4. CASE range # <<>> /\ Len(range) = 2 /\ range[1] \in Nat /\ range[2] \in Nat /\ DOMAIN range = {1, 2}
    BY <1>2, <1>3, <2>4
  <2>. QED  BY <2>1, <2>2, <2>3, <2>4
<1>. QED  BY <1>4, <1>5, <1>6 DEF part, range, step

\* An expression is refused exactly when a field of it cannot be read.
LEMMA ExpressionRead ==
    ASSUME ScheduleQuestion
    PROVE ExpressionOk(question.fields) <=> ~Unreadable
BY PartRead, Zenon DEF ExpressionOk, Unreadable
\* What a part allows, as parse_field reads it.
Allowed(part, f) == {v \in Low(part, f)..High(part, f) : (v - Low(part, f)) % Step(part) = 0}

\* And as the expression says it.
PartNames(part, f, v) ==
    LET from == IF part.range = <<>> THEN FirstOf(f) ELSE part.range[1]
    IN /\ part.range # <<>> => from <= v /\ v <= part.range[Len(part.range)]
       /\ part.step # <<>> => (v - from) % part.step[1] = 0

LEMMA PartAllows ==
    ASSUME ScheduleQuestion, NEW f \in Fields, NEW i \in DOMAIN question.fields[f],
           PartOk(question.fields[f][i], f), NEW v \in Int
    PROVE LET part == question.fields[f][i]
          IN /\ Allowed(part, f) \subseteq FirstOf(f)..LastOf(f)
             /\ v \in FirstOf(f)..LastOf(f) => (v \in Allowed(part, f) <=> PartNames(part, f, v))
<1>. DEFINE part == question.fields[f][i]  range == part.range  step == part.step
            low == Low(part, f)  high == High(part, f)
<1>1. /\ range \in Seq(Nat) /\ Len(range) <= 2
      /\ step \in Seq(Nat) /\ Len(step) <= 2 /\ Len(step) # 2
  BY PartTypes
<1>2. /\ Lowest[f] = FirstOf(f) /\ Highest[f] = LastOf(f)
      /\ FirstOf(f) \in Int /\ LastOf(f) \in Int /\ FirstOf(f) <= LastOf(f)
  BY Bounds
<1>3. /\ Step(part) = (IF step = <<>> THEN 1 ELSE step[1])
      /\ low = (IF range = <<>> THEN FirstOf(f) ELSE range[1])
      /\ high = (IF range = <<>> THEN LastOf(f) ELSE range[Len(range)])
  BY <1>2 DEF Step, Low, High
<1>4. Step(part) > 0 /\ low <= high /\ low >= FirstOf(f) /\ high <= LastOf(f)
  BY <1>2 DEF PartOk
<1>5. PartNames(part, f, v) <=>
        /\ range # <<>> => low <= v /\ v <= high
        /\ step # <<>> => (v - low) % step[1] = 0
  BY <1>3 DEF PartNames
<1>6. \A x : x \in Allowed(part, f) <=> x \in low..high /\ (x - low) % Step(part) = 0
  BY DEF Allowed
<1>. HIDE DEF part, range, step, low, high
<1>7. low \in Int /\ high \in Int
  <2>1. \/ range = <<>>
        \/ range # <<>> /\ Len(range) = 1 /\ range[1] \in Nat
        \/ range # <<>> /\ Len(range) = 2 /\ range[1] \in Nat /\ range[2] \in Nat
    BY <1>1, Short
  <2>2. CASE range = <<>>  BY <1>2, <1>3, <2>2
  <2>3. CASE range # <<>> /\ Len(range) = 1 /\ range[1] \in Nat  BY <1>3, <2>3
  <2>4. CASE range # <<>> /\ Len(range) = 2 /\ range[1] \in Nat /\ range[2] \in Nat  BY <1>3, <2>4
  <2>. QED  BY <2>1, <2>2, <2>3, <2>4
<1>8. Allowed(part, f) \subseteq FirstOf(f)..LastOf(f)  BY <1>2, <1>4, <1>6, <1>7
<1>9. ASSUME v \in FirstOf(f)..LastOf(f)
      PROVE v \in Allowed(part, f) <=> PartNames(part, f, v)
  <2>1. v \in low..high <=> (range # <<>> => low <= v /\ v <= high)
    BY <1>2, <1>3, <1>7, <1>9
  <2>2. (v - low) % Step(part) = 0 <=> (step # <<>> => (v - low) % step[1] = 0)
    <3>1. (v - low) \in Int /\ (v - low) % 1 = 0  BY <1>7
    <3>2. CASE step = <<>>  BY <1>3, <3>1, <3>2
    <3>3. CASE step # <<>>  BY <1>3, <3>3
    <3>. QED  BY <3>2, <3>3
  <2>. QED  BY <1>5, <1>6, <2>1, <2>2
<1>. QED  BY <1>8, <1>9 DEF part

\* The values of a field that is read are those its text names.
LEMMA FieldAllows ==
    ASSUME ScheduleQuestion, ~Unreadable, NEW f \in Fields
    PROVE LET allowed == parse_field(question.fields[f], f)
          IN /\ allowed \subseteq FirstOf(f)..LastOf(f)
             /\ \A v \in FirstOf(f)..LastOf(f) : v \in allowed <=> InField(v, f)
<1>. DEFINE spec == question.fields[f]  allowed == parse_field(spec, f)
<1>1. \A i \in DOMAIN spec : PartOk(spec[i], f)  BY ExpressionRead DEF ExpressionOk
<1>2. \A x : x \in allowed <=> \E i \in DOMAIN spec : x \in Allowed(spec[i], f)
  BY DEF parse_field, Allowed
<1>3. \A x : InField(x, f) <=> \E i \in DOMAIN spec : PartNames(spec[i], f, x)
  BY DEF InField, PartNames
<1>4. FirstOf(f) \in Int /\ LastOf(f) \in Int  BY Bounds
<1>. HIDE DEF allowed
<1>5. ASSUME NEW i \in DOMAIN spec
      PROVE /\ Allowed(spec[i], f) \subseteq FirstOf(f)..LastOf(f)
            /\ \A v \in FirstOf(f)..LastOf(f) : v \in Allowed(spec[i], f) <=> PartNames(spec[i], f, v)
  <2>1. PartOk(question.fields[f][i], f)  BY <1>1
  <2>2. Allowed(spec[i], f) \subseteq FirstOf(f)..LastOf(f)  BY <2>1, 0 \in Int, PartAllows
  <2>3. ASSUME NEW v \in FirstOf(f)..LastOf(f)
        PROVE v \in Allowed(spec[i], f) <=> PartNames(spec[i], f, v)
    <3>1. v \in Int  BY <1>4
    <3>. QED  BY <2>1, <3>1, PartAllows
  <2>. QED  BY <2>2, <2>3
<1>. HIDE DEF spec
<1>6. allowed \subseteq FirstOf(f)..LastOf(f)  BY <1>2, <1>5
<1>7. \A v \in FirstOf(f)..LastOf(f) : v \in allowed <=> InField(v, f)  BY <1>2, <1>3, <1>5
<1>. QED  BY <1>6, <1>7 DEF allowed, spec

LEMMA Folded ==
    ASSUME NEW p \in SUBSET (0..7), NEW w \in 0..6
    PROVE w \in {v % 7 : v \in p} <=> w \in p \/ (w = 0 /\ 7 \in p)
<1>1. \A v \in 0..7 : v % 7 = w <=> v = w \/ (w = 0 /\ v = 7)  BY SMT
<1>. QED  BY <1>1

\* The search tells the days as the expression names them.
LEMMA DayDue ==
    ASSUME ScheduleQuestion, ~Unreadable, NEW days \in Int
    PROVE LET c == civil_from_days(days)
          IN OnDay(parse_expression(question.fields), days) <=>
                InField(c.month, "month") /\ DueDay(c.day, days)
<1>. DEFINE c == civil_from_days(days)  month == c.month  day == c.day
            e == parse_expression(question.fields)  w == (days + 4) % 7
            dates == parse_field(question.fields.day_of_month, "day_of_month")
            weekdays == parse_field(question.fields.day_of_week, "day_of_week")
            months == parse_field(question.fields.month, "month")
            dom == Restricted(question.fields.day_of_month)
            dow == Restricted(question.fields.day_of_week)
<1>1. month \in 1..12 /\ day \in 1..31 /\ w \in 0..6
  <2>1. c.year \in Int /\ month \in 1..12 /\ day \in 1..MonthDays(c.year, month)  BY Civil
  <2>. HIDE DEF c, month, day
  <2>2. MonthDays(c.year, month) \in 28..31  BY <2>1, MonthsTold
  <2>. QED  BY <2>1, <2>2, SMT
<1>2. /\ e.month = months /\ e.day_of_month = dates /\ e.day_of_week = {v % 7 : v \in weekdays}
      /\ e.dom_restricted = dom /\ e.dow_restricted = dow
  BY DEF parse_expression
<1>3. dom \in BOOLEAN /\ dow \in BOOLEAN  BY DEF Restricted
<1>4. OnDay(e, days) <=>
        /\ month \in months
        /\ CASE dom /\ dow -> day \in dates \/ w \in {v % 7 : v \in weekdays}
             [] dom /\ ~dow -> day \in dates
             [] ~dom /\ dow -> w \in {v % 7 : v \in weekdays}
             [] ~dom /\ ~dow -> TRUE
  BY <1>2 DEF OnDay, DayOk
<1>5. DueDay(day, days) <=>
        \/ ~dom /\ ~dow
        \/ dom /\ InField(day, "day_of_month")
        \/ dow /\ (InField(w, "day_of_week") \/ (w = 0 /\ InField(7, "day_of_week")))
  BY DEF DueDay, WeekdayIn, Restricted, Every
<1>6. month \in months <=> InField(month, "month")
  <2>1. "month" \in Fields /\ FirstOf("month") = 1 /\ LastOf("month") = 12  BY DEF Fields, FirstOf, LastOf
  <2>. QED  BY <1>1, <2>1, FieldAllows
<1>7. day \in dates <=> InField(day, "day_of_month")
  <2>1. "day_of_month" \in Fields /\ FirstOf("day_of_month") = 1 /\ LastOf("day_of_month") = 31
    BY DEF Fields, FirstOf, LastOf
  <2>. QED  BY <1>1, <2>1, FieldAllows
<1>8. w \in {v % 7 : v \in weekdays} <=> InField(w, "day_of_week") \/ (w = 0 /\ InField(7, "day_of_week"))
  <2>1. "day_of_week" \in Fields /\ FirstOf("day_of_week") = 0 /\ LastOf("day_of_week") = 7
    BY DEF Fields, FirstOf, LastOf
  <2>2. weekdays \in SUBSET (0..7) /\ \A v \in 0..7 : v \in weekdays <=> InField(v, "day_of_week")
    BY <2>1, FieldAllows
  <2>3. w \in 0..7 /\ 7 \in 0..7  BY <1>1
  <2>. HIDE DEF w, weekdays
  <2>. QED  BY <1>1, <2>2, <2>3, Folded
<1>. HIDE DEF month, day, months, dates, weekdays, dom, dow, w, e
<1>9. OnDay(e, days) <=> InField(month, "month") /\ DueDay(day, days)
  BY <1>3, <1>4, <1>5, <1>6, <1>7, <1>8
<1>. QED  BY <1>9 DEF month, day, c, e

LEMMA DivMod ==
    ASSUME NEW n \in Nat, NEW d \in Nat \ {0}
    PROVE /\ n \div d \in Nat /\ n % d \in 0..d - 1
          /\ n = (n \div d) * d + (n % d)
<1>1. n \div d \in Nat /\ n % d \in 0..d - 1  OBVIOUS
<1>2. n = (n \div d) * d + (n % d)  OBVIOUS
<1>. QED  BY <1>1, <1>2

LEMMA More ==
    ASSUME NEW x \in Int, NEW y \in Int, NEW d \in Nat, x < y
    PROVE x * d + d <= y * d
OBVIOUS

\* A number has one quotient and one rest.
LEMMA OneQuotient ==
    ASSUME NEW q \in Nat, NEW d \in Nat \ {0}, NEW r \in 0..d - 1
    PROVE q * d + r \in Nat /\ (q * d + r) \div d = q /\ (q * d + r) % d = r
<1>. DEFINE n == q * d + r  p == n \div d  s == n % d
<1>1. n \in Nat  OBVIOUS
<1>2. p \in Nat /\ s \in 0..d - 1 /\ n = p * d + s  BY <1>1, DivMod
<1>. HIDE DEF p, s
<1>3. p = q
  <2>1. ~(p < q)
    <3>1. SUFFICES ASSUME p < q PROVE FALSE  OBVIOUS
    <3>2. p * d + d <= q * d  BY <1>2, <3>1, More
    <3>. QED  BY <1>2, <3>2
  <2>2. ~(q < p)
    <3>1. SUFFICES ASSUME q < p PROVE FALSE  OBVIOUS
    <3>2. q * d + d <= p * d  BY <1>2, <3>1, More
    <3>. QED  BY <1>2, <3>2
  <2>. QED  BY <1>2, <2>1, <2>2
<1>4. s = r  BY <1>2, <1>3
<1>. QED  BY <1>1, <1>3, <1>4 DEF p, s

LEMMA Day ==
    /\ MinutesPerDay \in Nat \ {0} /\ MinutesPerHour \in Nat \ {0} /\ HoursPerDay \in Nat \ {0}
    /\ TicksPerMinute \in Nat \ {0}
BY CronAssumption DEF MinutesPerDay

\* The search tells the hours and minutes as the expression names them.
LEMMA MinuteDue ==
    ASSUME ScheduleQuestion, ~Unreadable, NEW at \in 0..MinutesPerDay - 1
    PROVE AtMinute(parse_expression(question.fields), at) <=> at \in DueMinutes
<1>. DEFINE e == parse_expression(question.fields)
            h == at \div MinutesPerHour  m == at % MinutesPerHour
            hours == parse_field(question.fields.hour, "hour")
            minutes == parse_field(question.fields.minute, "minute")
<1>1. e.hour = hours /\ e.minute = minutes  BY DEF parse_expression
<1>2. AtMinute(e, at) <=> h \in hours /\ m \in minutes  BY <1>1 DEF AtMinute
<1>3. at \in Nat /\ h \in Nat /\ m \in 0..MinutesPerHour - 1 /\ at = h * MinutesPerHour + m
  <2>1. at \in Nat /\ MinutesPerHour \in Nat \ {0}  BY Day
  <2>. QED  BY <2>1, DivMod
<1>4. h \in 0..HoursPerDay - 1
  <2>1. ~(HoursPerDay - 1 < h)
    <3>1. SUFFICES ASSUME HoursPerDay - 1 < h PROVE FALSE  OBVIOUS
    <3>. HIDE DEF h, m
    <3>2. (HoursPerDay - 1) * MinutesPerHour + MinutesPerHour <= h * MinutesPerHour  BY <1>3, <3>1, Day, More
    <3>3. (HoursPerDay - 1) * MinutesPerHour + MinutesPerHour = MinutesPerDay  BY Day DEF MinutesPerDay
    <3>4. h * MinutesPerHour \in Int /\ MinutesPerDay \in Int  BY <1>3, Day
    <3>. QED  BY <1>3, <3>2, <3>3, <3>4, Day
  <2>. QED  BY <1>3, <2>1, Day
<1>5. /\ \A v \in 0..HoursPerDay - 1 : v \in hours <=> InField(v, "hour")
      /\ \A v \in 0..MinutesPerHour - 1 : v \in minutes <=> InField(v, "minute")
  <2>1. /\ "hour" \in Fields /\ FirstOf("hour") = 0 /\ LastOf("hour") = HoursPerDay - 1
        /\ "minute" \in Fields /\ FirstOf("minute") = 0 /\ LastOf("minute") = MinutesPerHour - 1
    BY DEF Fields, FirstOf, LastOf
  <2>. QED  BY <2>1, FieldAllows
<1>6. \A x \in 0..HoursPerDay - 1, y \in 0..MinutesPerHour - 1 :
        at = x * MinutesPerHour + y => x = h /\ y = m
  BY Day, OneQuotient
<1>. HIDE DEF h, m, hours, minutes
<1>7. at \in DueMinutes <=> InField(h, "hour") /\ InField(m, "minute")
  BY <1>3, <1>4, <1>6 DEF DueMinutes
<1>. QED  BY <1>2, <1>3, <1>4, <1>5, <1>7

LEMMA DueWithin ==
    DueMinutes \subseteq 0..MinutesPerDay - 1
<1>1. SUFFICES ASSUME NEW h \in 0..HoursPerDay - 1, NEW m \in 0..MinutesPerHour - 1
               PROVE h * MinutesPerHour + m \in 0..MinutesPerDay - 1
  BY DEF DueMinutes
<1>2. h \in Int /\ HoursPerDay \in Int /\ h < HoursPerDay /\ MinutesPerHour \in Nat  BY Day
<1>3. h * MinutesPerHour + MinutesPerHour <= MinutesPerDay  BY <1>2, More DEF MinutesPerDay
<1>4. 0 <= h * MinutesPerHour /\ h * MinutesPerHour \in Int  BY Day
<1>. QED  BY <1>3, <1>4, Day
-----------------------------------------------------------------------------
(* The search                                                               *)

Expression == parse_expression(question.fields)
Now  == question.now.tick
Year == question.now.year

Window == Now \div TicksPerMinute + 1..Now \div TicksPerMinute + 1 + MaxMinutesAhead - 1

\* The minutes of the search are in the days from today on, and they are after now.
LEMMA Searched ==
    ASSUME ScheduleQuestion, NEW minute \in Int
    PROVE /\ Now \div TicksPerMinute + 1 <= minute <=> Now < minute * TicksPerMinute
          /\ Now < minute * TicksPerMinute /\ minute * TicksPerMinute <= Now + MaxMinutesAhead * TicksPerMinute
               <=> minute \in Now \div TicksPerMinute + 1..Now \div TicksPerMinute + 1 + MaxMinutesAhead - 1
<1>. DEFINE T == TicksPerMinute  K == MaxMinutesAhead  q == Now \div T  r == Now % T
<1>1. T \in Nat \ {0} /\ K \in Nat  BY Day DEF MaxMinutesAhead
<1>2. Now \in Nat /\ q \in Nat /\ r \in 0..T - 1 /\ Now = q * T + r
  <2>1. Now \in Nat  BY DEF ScheduleQuestion, Now
  <2>. QED  BY <1>1, <2>1, DivMod
<1>. HIDE DEF T, K, q, r
<1>3. q + 1 <= minute <=> Now < minute * T
  <2>1. ASSUME q + 1 <= minute PROVE Now < minute * T
    <3>1. q * T + T <= minute * T  BY <1>1, <1>2, <2>1, More
    <3>2. minute * T \in Int /\ q * T \in Int  BY <1>1, <1>2
    <3>. QED  BY <1>1, <1>2, <3>1, <3>2
  <2>2. ASSUME ~(q + 1 <= minute) PROVE ~(Now < minute * T)
    <3>1. minute < q + 1  BY <1>2, <2>2
    <3>2. minute * T + T <= (q + 1) * T  BY <1>1, <1>2, <3>1, More
    <3>3. (q + 1) * T = q * T + T /\ minute * T \in Int /\ q * T \in Int  BY <1>1, <1>2
    <3>. QED  BY <1>1, <1>2, <3>2, <3>3
  <2>. QED  BY <2>1, <2>2
<1>4. minute * T <= Now + K * T <=> minute <= q + 1 + K - 1
  <2>1. ASSUME minute <= q + K PROVE minute * T <= Now + K * T
    <3>1. minute < q + K + 1  BY <1>1, <1>2, <2>1
    <3>2. minute * T + T <= (q + K + 1) * T  BY <1>1, <1>2, <3>1, More
    <3>3. (q + K + 1) * T = q * T + K * T + T /\ minute * T \in Int /\ q * T \in Int /\ K * T \in Int  BY <1>1, <1>2
    <3>. QED  BY <1>1, <1>2, <3>2, <3>3
  <2>2. ASSUME ~(minute <= q + K) PROVE ~(minute * T <= Now + K * T)
    <3>1. q + K < minute  BY <1>1, <1>2, <2>2
    <3>2. (q + K) * T + T <= minute * T  BY <1>1, <1>2, <3>1, More
    <3>3. (q + K) * T = q * T + K * T /\ minute * T \in Int /\ q * T \in Int /\ K * T \in Int  BY <1>1, <1>2
    <3>. QED  BY <1>1, <1>2, <3>2, <3>3
  <2>3. q + 1 + K - 1 = q + K  BY <1>1, <1>2
  <2>. QED  BY <2>1, <2>2, <2>3
<1>5. minute \in q + 1..q + 1 + K - 1 <=> q + 1 <= minute /\ minute <= q + 1 + K - 1
  BY <1>1, <1>2
<1>. QED  BY <1>3, <1>4, <1>5 DEF T, K, q

\* The day of a minute of the search.
LEMMA SearchedDays ==
    ASSUME ScheduleQuestion, NEW days \in Int, NEW at \in 0..MinutesPerDay - 1
    PROVE /\ days * MinutesPerDay + at \in Int
          /\ days * MinutesPerDay + at \in Now \div TicksPerMinute + 1..Now \div TicksPerMinute + 1 + MaxMinutesAhead - 1
               => Today <= days /\ days <= Today + 1464
          /\ Today < days /\ days < Today + 1464
               => days * MinutesPerDay + at \in Now \div TicksPerMinute + 1..Now \div TicksPerMinute + 1 + MaxMinutesAhead - 1
<1>. DEFINE M == MinutesPerDay  q == Now \div TicksPerMinute  r == q % M  D == Today
<1>1. M \in Nat \ {0} /\ MaxMinutesAhead = 1464 * M  BY Day, SMT DEF MaxMinutesAhead
<1>2. q \in Nat /\ D \in Nat /\ r \in 0..M - 1 /\ q = D * M + r
  <2>1. Now \in Nat /\ D = q \div M  BY DEF ScheduleQuestion, Now, Today
  <2>2. q \in Nat  BY <2>1, Day, DivMod
  <2>. QED  BY <1>1, <2>1, <2>2, DivMod
<1>. HIDE DEF M, q, r, D
<1>. DEFINE n == days * M  low == D * M
<1>3. n \in Int /\ low \in Int  BY <1>1, <1>2
<1>4. days < D => n + M <= low  BY <1>1, <1>2, More
<1>5. D < days => low + M <= n  BY <1>1, <1>2, More
<1>6. (D + 1464) * M = low + 1464 * M  BY <1>1, <1>2, SMT
<1>7. D + 1464 < days => low + 1464 * M + M <= n
  <2>1. D + 1464 \in Int  BY <1>2
  <2>. HIDE DEF n, low
  <2>. QED  BY <1>1, <1>6, <2>1, More DEF n
<1>8. days < D + 1464 => n + M <= low + 1464 * M
  <2>1. D + 1464 \in Int  BY <1>2
  <2>. HIDE DEF n, low
  <2>. QED  BY <1>1, <1>6, <2>1, More DEF n
<1>9. at \in 0..M - 1  BY DEF M
<1>. HIDE DEF n, low
<1>10. n + at \in q + 1..q + 1 + 1464 * M - 1 <=> q + 1 <= n + at /\ n + at <= q + 1464 * M
  BY <1>1, <1>2, <1>3, <1>9
<1>11. q = low + r  BY <1>2 DEF low
<1>12. n + at \in q + 1..q + 1 + 1464 * M - 1 => D <= days /\ days <= D + 1464
  BY <1>1, <1>2, <1>3, <1>4, <1>7, <1>9, <1>10, <1>11
<1>13. D < days /\ days < D + 1464 => n + at \in q + 1..q + 1 + 1464 * M - 1
  BY <1>1, <1>2, <1>3, <1>5, <1>8, <1>9, <1>10, <1>11
<1>. QED  BY <1>1, <1>3, <1>9, <1>12, <1>13 DEF n, M, q, D

LEMMA CandidatesAre ==
    ASSUME ScheduleQuestion, ~Unreadable, NEW days \in Nat, NEW at \in 0..MinutesPerDay - 1
    PROVE days * MinutesPerDay + at \in Candidates(Expression, Now) <=>
            /\ days * MinutesPerDay + at \in Window
            /\ at \in DueMinutes
            /\ InField(civil_from_days(days).month, "month") /\ DueDay(civil_from_days(days).day, days)
<1>. DEFINE minute == days * MinutesPerDay + at
<1>1. minute \div MinutesPerDay = days /\ minute % MinutesPerDay = at  BY Day, OneQuotient
<1>2. minute \in Candidates(Expression, Now) <=>
        minute \in Window /\ AtMinute(Expression, at) /\ OnDay(Expression, days)
  BY <1>1 DEF Candidates, Window
<1>3. AtMinute(Expression, at) <=> at \in DueMinutes  BY MinuteDue DEF Expression
<1>4. OnDay(Expression, days) <=>
        InField(civil_from_days(days).month, "month") /\ DueDay(civil_from_days(days).day, days)
  <2>1. days \in Int  OBVIOUS
  <2>. QED  BY <2>1, DayDue, Zenon DEF Expression
<1>. HIDE DEF minute
<1>5. minute \in Candidates(Expression, Now) <=>
            /\ minute \in Window
            /\ at \in DueMinutes
            /\ InField(civil_from_days(days).month, "month") /\ DueDay(civil_from_days(days).day, days)
  BY <1>2, <1>3, <1>4, Zenon
<1>. QED  BY <1>5, Zenon DEF minute

\* As told by the calendar.
LEMMA DueIsCandidate ==
    ASSUME ScheduleQuestion, ~Unreadable, NEW y \in Int, NEW m \in 1..12, NEW d \in 1..MonthDays(y, m),
           InField(m, "month"), DueDay(d, DayOf(y, m, d)), DayOf(y, m, d) \in Nat,
           NEW at \in DueMinutes, DayOf(y, m, d) * MinutesPerDay + at \in Window
    PROVE DayOf(y, m, d) * MinutesPerDay + at \in Candidates(Expression, Now)
<1>. DEFINE days == DayOf(y, m, d)
<1>1. civil_from_days(days).month = m /\ civil_from_days(days).day = d  BY OneDate
<1>2. at \in 0..MinutesPerDay - 1  BY DueWithin
<1>3. days \in Nat  OBVIOUS
<1>4. /\ InField(civil_from_days(days).month, "month") /\ DueDay(civil_from_days(days).day, days)
      /\ days * MinutesPerDay + at \in Window
  BY <1>1
<1>. HIDE DEF days
<1>5. days * MinutesPerDay + at \in Candidates(Expression, Now)  BY <1>2, <1>3, <1>4, CandidatesAre
<1>. QED  BY <1>5 DEF days

\* The starts of the years from that of the question on, and whether they are leap years.
Start(n)   == YearStart(Year + n)
LeapDay(n) == IF LeapYear(Year + n) THEN 1 ELSE 0

LEMMA YearsOn ==
    ASSUME ScheduleQuestion
    PROVE /\ Today \in Nat /\ Year \in Nat /\ Start(0) <= Today /\ Today < Start(1)
          /\ Start(0) = YearStart(Year)
          /\ \A n \in 0..6 : Start(n) \in Int /\ LeapDay(n) \in {0, 1}
          /\ Start(1) = Start(0) + 365 + LeapDay(0) /\ Start(2) = Start(1) + 365 + LeapDay(1)
          /\ Start(3) = Start(2) + 365 + LeapDay(2) /\ Start(4) = Start(3) + 365 + LeapDay(3)
          /\ Start(5) = Start(4) + 365 + LeapDay(4) /\ Start(6) = Start(5) + 365 + LeapDay(5)
<1>1. Now \in Nat /\ Today = (Now \div TicksPerMinute) \div MinutesPerDay  BY DEF ScheduleQuestion, Now, Today
<1>2. Now \div TicksPerMinute \in Nat  BY <1>1, Day, DivMod
<1>3. Today \in Nat  BY <1>1, <1>2, Day, DivMod
<1>4. Year \in Nat /\ Year + 0 = Year  BY DEF ScheduleQuestion, Year
<1>5. ASSUME NEW n \in 0..6
      PROVE /\ Start(n) \in Int /\ LeapDay(n) \in {0, 1}
            /\ Start(n + 1) = Start(n) + 365 + LeapDay(n)
  <2>. DEFINE y == Year + n
  <2>1. y \in Int /\ y + 1 = Year + (n + 1)  BY <1>4
  <2>. HIDE DEF y
  <2>2. YearStart(y) \in Int /\ YearStart(y + 1) = YearStart(y) + 365 + IF LeapYear(y) THEN 1 ELSE 0
    BY <2>1, YearsTold, SMT
  <2>3. Start(n) = YearStart(y) /\ Start(n + 1) = YearStart(y + 1) /\ LeapDay(n) = IF LeapYear(y) THEN 1 ELSE 0
    BY <2>1 DEF Start, LeapDay, y
  <2>. QED  BY <2>2, <2>3
<1>6. Start(0) \in Int /\ Start(1) \in Int /\ Start(0) = YearStart(Year) /\ Start(1) = YearStart(Year + 1)
  BY <1>4, <1>5 DEF Start
<1>7. Today \in YearStart(Year)..YearStart(Year + 1) - 1  BY DEF ScheduleQuestion, Year
<1>8. Start(0) <= Today /\ Today < Start(1)  BY <1>3, <1>6, <1>7
<1>9. /\ 0 + 1 = 1 /\ 1 + 1 = 2 /\ 2 + 1 = 3 /\ 3 + 1 = 4 /\ 4 + 1 = 5 /\ 5 + 1 = 6
      /\ 0 \in 0..6 /\ 1 \in 0..6 /\ 2 \in 0..6 /\ 3 \in 0..6 /\ 4 \in 0..6 /\ 5 \in 0..6
  OBVIOUS
<1>10. /\ Start(1) = Start(0) + 365 + LeapDay(0) /\ Start(2) = Start(1) + 365 + LeapDay(1)
       /\ Start(3) = Start(2) + 365 + LeapDay(2) /\ Start(4) = Start(3) + 365 + LeapDay(3)
       /\ Start(5) = Start(4) + 365 + LeapDay(4) /\ Start(6) = Start(5) + 365 + LeapDay(5)
  BY <1>5, <1>9
<1>. QED  BY <1>3, <1>4, <1>5, <1>6, <1>8, <1>10

LEMMA DueDaysAre ==
    ASSUME NEW days
    PROVE days \in DueDays <=>
            \E y \in Year..Year + YearsAhead, m \in 1..12 :
                InField(m, "month") /\ \E d \in 1..MonthDays(y, m) : DueDay(d, DayOf(y, m, d)) /\ days = DayOf(y, m, d)
<1>1. \A y, m : days \in DueIn(y, m) <=>
                  \E d \in 1..MonthDays(y, m) : DueDay(d, DayOf(y, m, d)) /\ days = DayOf(y, m, d)
  BY DEF DueIn
<1>2. days \in DueDays <=>
            \E y \in Year..Year + YearsAhead, m \in {x \in 1..12 : InField(x, "month")} : days \in DueIn(y, m)
  BY DEF DueDays, Year
<1>. QED  BY <1>1, <1>2

\* What the search stops at is an instant of the schedule.
LEMMA CandidateIsDue ==
    ASSUME ScheduleQuestion, ~Unreadable, NEW minute \in Candidates(Expression, Now)
    PROVE minute \in Nat /\ minute * TicksPerMinute \in Later
<1>. DEFINE days == minute \div MinutesPerDay  at == minute % MinutesPerDay
            c == civil_from_days(days)  y == c.year  m == c.month  d == c.day
<1>1. minute \in Window  BY DEF Candidates, Window
<1>2. minute \in Nat
  <2>1. Now \div TicksPerMinute \in Nat
    <3>1. Now \in Nat  BY DEF ScheduleQuestion, Now
    <3>. QED  BY <3>1, Day, DivMod
  <2>2. MaxMinutesAhead \in Nat  BY Day DEF MaxMinutesAhead
  <2>. QED  BY <1>1, <2>1, <2>2 DEF Window
<1>3. days \in Nat /\ at \in 0..MinutesPerDay - 1 /\ minute = days * MinutesPerDay + at
  BY <1>2, Day, DivMod
<1>. HIDE DEF days, at
<1>4. at \in DueMinutes /\ InField(m, "month") /\ DueDay(d, days)  BY <1>3, CandidatesAre
<1>5. y \in Int /\ m \in 1..12 /\ d \in 1..MonthDays(y, m) /\ DayOf(y, m, d) = days
  <2>1. days \in Int  BY <1>3
  <2>. QED  BY <2>1, Civil
<1>. HIDE DEF y, m, d
<1>6. Today <= days /\ days <= Today + 1464
  <2>1. days \in Int /\ days * MinutesPerDay + at \in Window  BY <1>1, <1>3
  <2>. QED  BY <1>3, <2>1, SearchedDays DEF Window
<1>7. y \in Year..Year + YearsAhead
  <2>1. YearStart(y) <= days /\ days < YearStart(y + 1)  BY <1>5, InYear
  <2>2. YearStart(y) \in Int /\ YearStart(y + 1) \in Int
    <3>1. y + 1 \in Int  BY <1>5
    <3>. QED  BY <1>5, <3>1, YearsTold
  <2>3. /\ Today \in Nat /\ Year \in Nat /\ Start(0) <= Today /\ Today < Start(1)
        /\ Start(0) = YearStart(Year) /\ Start(0) \in Int /\ Start(1) \in Int /\ Start(6) \in Int
    BY YearsOn
  <2>4. Start(1) + 5 * 365 <= Start(6)
    <3>1. 1 \in 0..6 /\ 2 \in 0..6 /\ 3 \in 0..6 /\ 4 \in 0..6 /\ 5 \in 0..6 /\ 6 \in 0..6  OBVIOUS
    <3>. QED  BY <3>1, YearsOn, SMT
  <2>5. ~(y < Year)
    <3>1. SUFFICES ASSUME y < Year PROVE FALSE  OBVIOUS
    <3>2. YearStart(y + 1) <= YearStart(Year)
      <4>1. Year \in Int  BY <2>3
      <4>. QED  BY <1>5, <3>1, <4>1, YearsGrow
    <3>. QED  BY <1>3, <1>6, <2>1, <2>2, <2>3, <3>2
  <2>6. ~(Year + 5 < y)
    <3>1. SUFFICES ASSUME Year + 5 < y PROVE FALSE  OBVIOUS
    <3>2. YearStart(Year + 5 + 1) <= YearStart(y)
      <4>1. Year + 5 \in Int  BY <2>3
      <4>. QED  BY <1>5, <3>1, <4>1, YearsGrow
    <3>3. YearStart(Year + 5 + 1) = Start(6)
      <4>1. Year + 5 + 1 = Year + 6  BY <2>3
      <4>. QED  BY <4>1 DEF Start
    <3>. QED  BY <1>3, <1>6, <2>1, <2>2, <2>3, <2>4, <3>2, <3>3, SMT
  <2>. QED  BY <1>5, <2>3, <2>5, <2>6, CronAssumption
<1>8. days \in DueDays  BY <1>4, <1>5, <1>7, DueDaysAre
<1>9. Now < minute * TicksPerMinute
  <2>1. minute \in Int /\ Now \div TicksPerMinute + 1 <= minute
    <3>1. Now \div TicksPerMinute \in Nat
      <4>1. Now \in Nat  BY DEF ScheduleQuestion, Now
      <4>. QED  BY <4>1, Day, DivMod
    <3>. QED  BY <1>1, <1>2, <3>1 DEF Window
  <2>. QED  BY <2>1, Searched
<1>10. minute * TicksPerMinute \in {(x * MinutesPerDay + z) * TicksPerMinute : x \in DueDays, z \in DueMinutes}
  BY <1>3, <1>4, <1>8
<1>11. minute * TicksPerMinute > Now
  <2>1. minute * TicksPerMinute \in Int /\ Now \in Int  BY <1>2, Day DEF ScheduleQuestion, Now
  <2>. QED  BY <1>9, <2>1
<1>. QED  BY <1>2, <1>10, <1>11 DEF Later, Now

LEMMA DueTypes ==
    ASSUME NEW y \in Int, NEW m \in 1..12, NEW d \in 1..MonthDays(y, m), NEW at \in DueMinutes
    PROVE /\ DayOf(y, m, d) \in Int /\ at \in 0..MinutesPerDay - 1
          /\ DayOf(y, m, d) * MinutesPerDay + at \in Int
<1>1. DayOf(y, m, d) \in Int  BY InYear
<1>2. at \in 0..MinutesPerDay - 1  BY DueWithin
<1>. HIDE DEF DayOf
<1>. QED  BY <1>1, <1>2, Day

LEMMA LaterAre ==
    ASSUME ScheduleQuestion, NEW t \in Later
    PROVE \E y \in Year..Year + YearsAhead, m \in 1..12 : \E d \in 1..MonthDays(y, m), at \in DueMinutes :
            /\ InField(m, "month") /\ DueDay(d, DayOf(y, m, d))
            /\ t = (DayOf(y, m, d) * MinutesPerDay + at) * TicksPerMinute /\ Now < t
<1>1. PICK days \in DueDays, at \in DueMinutes : t = (days * MinutesPerDay + at) * TicksPerMinute
  BY DEF Later
<1>2. PICK y \in Year..Year + YearsAhead, m \in 1..12 :
        InField(m, "month") /\ \E d \in 1..MonthDays(y, m) : DueDay(d, DayOf(y, m, d)) /\ days = DayOf(y, m, d)
  BY DueDaysAre
<1>3. PICK d \in 1..MonthDays(y, m) : DueDay(d, DayOf(y, m, d)) /\ days = DayOf(y, m, d)  BY <1>2
<1>4. Now < t
  <2>1. t > Now  BY DEF Later, Now
  <2>2. y \in Int  BY YearsOn, CronAssumption
  <2>3. days * MinutesPerDay + at \in Int  BY <1>3, <2>2, DueTypes
  <2>4. t \in Int  BY <1>1, <2>3, Day
  <2>5. Now \in Int  BY DEF ScheduleQuestion, Now
  <2>. QED  BY <2>1, <2>4, <2>5
<1>. QED  BY <1>1, <1>2, <1>3, <1>4

\* What is due within the four years of the search is found.
LEMMA DueIsFound ==
    ASSUME ScheduleQuestion, ~Unreadable, NEW t \in Later, t <= Now + MaxMinutesAhead * TicksPerMinute
    PROVE \E minute \in Candidates(Expression, Now) : t = minute * TicksPerMinute
<1>1. PICK y \in Year..Year + YearsAhead, m \in 1..12 : \E d \in 1..MonthDays(y, m), at \in DueMinutes :
            /\ InField(m, "month") /\ DueDay(d, DayOf(y, m, d))
            /\ t = (DayOf(y, m, d) * MinutesPerDay + at) * TicksPerMinute /\ Now < t
  BY LaterAre
<1>2. PICK d \in 1..MonthDays(y, m), at \in DueMinutes :
            /\ InField(m, "month") /\ DueDay(d, DayOf(y, m, d))
            /\ t = (DayOf(y, m, d) * MinutesPerDay + at) * TicksPerMinute /\ Now < t
  BY <1>1
<1>. DEFINE days == DayOf(y, m, d)  minute == days * MinutesPerDay + at
<1>3. y \in Int  BY YearsOn, CronAssumption
<1>4. days \in Int /\ at \in 0..MinutesPerDay - 1 /\ minute \in Int  BY <1>3, DueTypes
<1>. HIDE DEF days
<1>5. minute \in Window
  <2>. HIDE DEF minute
  <2>1. t = minute * TicksPerMinute  BY <1>2 DEF minute, days
  <2>. QED  BY <1>2, <1>4, <2>1, Searched DEF Window
<1>6. days \in Nat
  <2>1. Today <= days  BY <1>4, <1>5, SearchedDays DEF Window
  <2>. QED  BY <1>4, <2>1, YearsOn
<1>7. minute \in Candidates(Expression, Now)
  BY <1>2, <1>3, <1>5, <1>6, DueIsCandidate DEF days
<1>. QED  BY <1>2, <1>7 DEF days

LEMMA SoonIsFound ==
    ASSUME ScheduleQuestion, ~Unreadable, NEW y \in Int, NEW m \in 1..12, NEW d \in 1..MonthDays(y, m),
           InField(m, "month"), DueDay(d, DayOf(y, m, d)), NEW at \in DueMinutes,
           Today < DayOf(y, m, d), DayOf(y, m, d) < Today + 1464
    PROVE Candidates(Expression, Now) # {}
<1>. DEFINE days == DayOf(y, m, d)
<1>1. days \in Int /\ at \in 0..MinutesPerDay - 1  BY DueTypes
<1>2. Today < days /\ days < Today + 1464  OBVIOUS
<1>. HIDE DEF days
<1>3. days \in Nat  BY <1>1, <1>2, YearsOn
<1>4. days * MinutesPerDay + at \in Window  BY <1>1, <1>2, SearchedDays DEF Window
<1>. QED  BY <1>3, <1>4, DueIsCandidate DEF days

\* Next year is searched from its first day to its last.
LEMMA NextYear ==
    ASSUME ScheduleQuestion, NEW m \in 1..12, NEW d \in 1..MonthDays(Year + 1, m)
    PROVE /\ Year + 1 \in Int /\ DayOf(Year + 1, m, d) \in Int
          /\ Today < DayOf(Year + 1, m, d) /\ DayOf(Year + 1, m, d) < Today + 1464
<1>. DEFINE y == Year + 1  days == DayOf(y, m, d)
<1>1. Year + 1 \in Int /\ y + 1 = Year + 2  BY YearsOn
<1>2. days \in Int /\ YearStart(y) <= days /\ days < YearStart(y + 1)  BY <1>1, InYear
<1>3. YearStart(y) = Start(1) /\ YearStart(y + 1) = Start(2)  BY <1>1 DEF Start
<1>. HIDE DEF y, days
<1>4. 0 \in 0..6 /\ 1 \in 0..6 /\ 2 \in 0..6  OBVIOUS
<1>5. Today < days /\ days < Today + 1464  BY <1>2, <1>3, <1>4, YearsOn, SMT
<1>. QED  BY <1>1, <1>2, <1>5 DEF days, y

\* No leap day is left out in these years.
NoCentury == \A y \in Year..Year + 4 : ~(y % 100 = 0 /\ ~LeapYear(y))

\* Without such a century the next leap day is within the four years.
LEMMA LeapDayAhead ==
    ASSUME ScheduleQuestion, NoCentury
    PROVE \E y \in Int : LeapYear(y) /\ Today < DayOf(y, 2, 29) /\ DayOf(y, 2, 29) < Today + 1464
<1>1. Year \in Nat  BY YearsOn
<1>2. ASSUME NEW n \in 0..4
      PROVE /\ LeapYear(Year + n) <=> (Year + n) % 4 = 0
            /\ LeapDay(n) = IF (Year + n) % 4 = 0 THEN 1 ELSE 0
            /\ DayOf(Year + n, 2, 29) = Start(n) + 59
  <2>1. Year + n \in Year..Year + 4 /\ Year + n \in Int  BY <1>1
  <2>2. LeapYear(Year + n) <=> (Year + n) % 4 = 0  BY <2>1 DEF NoCentury, LeapYear
  <2>3. Start(n) \in Int  BY YearsOn
  <2>4. MonthStart(Year + n, 2) = 31  BY <2>1, MonthTable
  <2>5. DayOf(Year + n, 2, 29) = Start(n) + 59  BY <2>3, <2>4 DEF DayOf, Start
  <2>. QED  BY <2>2, <2>5 DEF LeapDay
<1>3. 0 \in 0..4 /\ 1 \in 0..4 /\ 2 \in 0..4 /\ 3 \in 0..4 /\ 4 \in 0..4  OBVIOUS
<1>4. Start(0) \in Int /\ Start(1) \in Int /\ Start(2) \in Int /\ Start(3) \in Int /\ Start(4) \in Int
  <2>1. 0 \in 0..6 /\ 1 \in 0..6 /\ 2 \in 0..6 /\ 3 \in 0..6 /\ 4 \in 0..6  OBVIOUS
  <2>. QED  BY <2>1, YearsOn
<1>5. /\ Today \in Nat /\ Start(0) <= Today /\ Today < Start(1)
      /\ Start(1) = Start(0) + 365 + LeapDay(0) /\ Start(2) = Start(1) + 365 + LeapDay(1)
      /\ Start(3) = Start(2) + 365 + LeapDay(2) /\ Start(4) = Start(3) + 365 + LeapDay(3)
  BY YearsOn
<1>6. /\ LeapDay(0) = (IF (Year + 0) % 4 = 0 THEN 1 ELSE 0) /\ LeapDay(1) = (IF (Year + 1) % 4 = 0 THEN 1 ELSE 0)
      /\ LeapDay(2) = (IF (Year + 2) % 4 = 0 THEN 1 ELSE 0) /\ LeapDay(3) = (IF (Year + 3) % 4 = 0 THEN 1 ELSE 0)
  BY <1>2, <1>3
<1>7. \E n \in 0..4 : (Year + n) % 4 = 0 /\ Today < Start(n) + 59 /\ Start(n) + 59 < Today + 1464
  <2>1. CASE (Year + 0) % 4 = 0 /\ Today < Start(0) + 59
    <3>1. Start(0) + 59 < Today + 1464  BY <1>4, <1>5
    <3>. QED  BY <1>3, <2>1, <3>1
  <2>2. CASE (Year + 0) % 4 = 0 /\ ~(Today < Start(0) + 59)
    <3>1. (Year + 4) % 4 = 0 /\ ~((Year + 1) % 4 = 0) /\ ~((Year + 2) % 4 = 0) /\ ~((Year + 3) % 4 = 0)
      BY <1>1, <2>2, SMT
    <3>2. Start(4) = Start(0) + 1461  BY <1>4, <1>5, <1>6, <2>2, <3>1, SMT
    <3>3. Today < Start(4) + 59 /\ Start(4) + 59 < Today + 1464  BY <1>4, <1>5, <1>6, <2>2, <3>2, SMT
    <3>. QED  BY <1>3, <3>1, <3>3
  <2>3. CASE (Year + 1) % 4 = 0
    <3>1. Today < Start(1) + 59 /\ Start(1) + 59 < Today + 1464  BY <1>4, <1>5, <1>6, SMT
    <3>. QED  BY <1>3, <2>3, <3>1
  <2>4. CASE (Year + 2) % 4 = 0
    <3>1. Today < Start(2) + 59 /\ Start(2) + 59 < Today + 1464  BY <1>4, <1>5, <1>6, SMT
    <3>. QED  BY <1>3, <2>4, <3>1
  <2>5. CASE (Year + 3) % 4 = 0
    <3>1. Today < Start(3) + 59 /\ Start(3) + 59 < Today + 1464  BY <1>4, <1>5, <1>6, SMT
    <3>. QED  BY <1>3, <2>5, <3>1
  <2>6. (Year + 0) % 4 = 0 \/ (Year + 1) % 4 = 0 \/ (Year + 2) % 4 = 0 \/ (Year + 3) % 4 = 0  BY <1>1, SMT
  <2>. QED  BY <2>1, <2>2, <2>3, <2>4, <2>5, <2>6
<1>8. PICK n \in 0..4 : (Year + n) % 4 = 0 /\ Today < Start(n) + 59 /\ Start(n) + 59 < Today + 1464  BY <1>7
<1>9. Year + n \in Int  BY <1>1
<1>. QED  BY <1>2, <1>8, <1>9

\* Every day of the week is among any seven days.
LEMMA Week ==
    ASSUME NEW first \in Int, NEW w \in 0..6
    PROVE \E x \in 1..7 : (first + x - 1 + 4) % 7 = w
<1>. DEFINE z == w - (first + 4)  q == z \div 7  r == z % 7
<1>1. z \in Int  OBVIOUS
<1>2. q \in Int /\ r \in 0..6 /\ z = 7 * q + r
  <2>. HIDE DEF z
  <2>. QED  BY <1>1, SMT
<1>. HIDE DEF q, r
<1>3. first + (1 + r) - 1 + 4 = w + 7 * (-q) /\ -q \in Int  BY <1>1, <1>2, SMT
<1>4. \A k \in Int : (w + 7 * k) % 7 = w  BY SMT
<1>5. (first + (1 + r) - 1 + 4) % 7 = w /\ 1 + r \in 1..7  BY <1>2, <1>3, <1>4
<1>. QED  BY <1>5

\* A schedule that is due at all is due within the four years of the search.
LEMMA FourYearsDo ==
    ASSUME ScheduleQuestion, ~Unreadable, NoCentury, Later # {}
    PROVE Candidates(Expression, Now) # {}
<1>1. PICK t \in Later : TRUE  OBVIOUS
<1>2. PICK y \in Year..Year + YearsAhead, m \in 1..12 : \E d \in 1..MonthDays(y, m), at \in DueMinutes :
            InField(m, "month") /\ DueDay(d, DayOf(y, m, d))
  BY LaterAre
<1>3. PICK d \in 1..MonthDays(y, m), at \in DueMinutes : InField(m, "month") /\ DueDay(d, DayOf(y, m, d))
  BY <1>2
<1>4. y \in Int /\ Year + 1 \in Int  BY YearsOn, CronAssumption
<1>. DEFINE next(x) == DayOf(Year + 1, m, x)
            dom == question.fields.day_of_month # Every
            dow == question.fields.day_of_week # Every
<1>5. ASSUME NEW x \in 1..MonthDays(Year + 1, m), DueDay(x, next(x))
      PROVE Candidates(Expression, Now) # {}
  BY <1>3, <1>4, <1>5, NextYear, SoonIsFound
<1>6. MonthDays(Year + 1, m) \in 28..31 /\ MonthDays(y, m) \in 28..31  BY <1>4, MonthsTold
<1>7. CASE ~dom /\ ~dow
  <2>1. DueDay(1, next(1))  BY <1>7 DEF DueDay
  <2>2. 1 \in 1..MonthDays(Year + 1, m)  BY <1>6
  <2>. QED  BY <1>5, <2>1, <2>2
<1>8. CASE dow /\ WeekdayIn((DayOf(y, m, d) + 4) % 7)
  <2>. DEFINE w == (DayOf(y, m, d) + 4) % 7  first == next(1)
  <2>1. 1 \in 1..MonthDays(Year + 1, m)  BY <1>6
  <2>2. first \in Int  BY <2>1, NextYear
  <2>3. w \in 0..6
    <3>1. DayOf(y, m, d) \in Int  BY <1>4, InYear
    <3>. HIDE DEF DayOf
    <3>. QED  BY <3>1
  <2>. HIDE DEF w, first
  <2>4. PICK x \in 1..7 : (first + x - 1 + 4) % 7 = w  BY <2>2, <2>3, Week
  <2>5. next(x) = first + x - 1
    <3>1. YearStart(Year + 1) \in Int  BY <1>4, YearsTold
    <3>2. MonthStart(Year + 1, m) \in Nat  BY <1>4, MonthsTold
    <3>3. first = YearStart(Year + 1) + MonthStart(Year + 1, m) + 1 - 1  BY DEF first, DayOf
    <3>4. next(x) = YearStart(Year + 1) + MonthStart(Year + 1, m) + x - 1  BY DEF DayOf
    <3>. HIDE DEF next
    <3>. QED  BY <2>4, <3>1, <3>2, <3>3, <3>4
  <2>6. DueDay(x, next(x))
    <3>. HIDE DEF next
    <3>. QED  BY <1>8, <2>4, <2>5 DEF DueDay, w
  <2>7. x \in 1..MonthDays(Year + 1, m)  BY <1>6, <2>4
  <2>. HIDE DEF next
  <2>. QED  BY <1>5, <2>6, <2>7
<1>9. CASE dom /\ InField(d, "day_of_month")
  <2>1. CASE d <= MonthDays(Year + 1, m)
    <3>1. d \in 1..MonthDays(Year + 1, m)  BY <1>6, <2>1
    <3>2. DueDay(d, next(d))  BY <1>9 DEF DueDay
    <3>. QED  BY <1>5, <3>1, <3>2
  <2>2. CASE ~(d <= MonthDays(Year + 1, m))
    <3>1. m = 2 /\ d = 29
      <4>1. m \in {1, 2, 3, 4, 5, 6, 7, 8, 9, 10, 11, 12}  BY SMT
      <4>2. d <= MonthDays(y, m) /\ d \in Int  BY <1>6
      <4>3. m # 2 => MonthDays(y, m) = MonthDays(Year + 1, m)  BY <4>1 DEF MonthDays
      <4>4. MonthDays(y, 2) \in {28, 29} /\ MonthDays(Year + 1, 2) \in {28, 29}  BY DEF MonthDays
      <4>. QED  BY <1>6, <2>2, <4>2, <4>3, <4>4
    <3>2. PICK l \in Int : LeapYear(l) /\ Today < DayOf(l, 2, 29) /\ DayOf(l, 2, 29) < Today + 1464
      BY LeapDayAhead
    <3>3. 29 \in 1..MonthDays(l, 2) /\ 2 \in 1..12  BY <3>2 DEF MonthDays
    <3>4. DueDay(29, DayOf(l, 2, 29)) /\ InField(2, "month")  BY <1>3, <1>9, <3>1 DEF DueDay
    <3>. QED  BY <1>3, <3>2, <3>3, <3>4, SoonIsFound
  <2>. QED  BY <2>1, <2>2
<1>. QED  BY <1>3, <1>7, <1>8, <1>9 DEF DueDay
-----------------------------------------------------------------------------
(* The next run                                                             *)

Scheduled ==
    IF ExpressionOk(question.fields)
    THEN [accepted |-> TRUE, next |-> next_run_after(Expression, Now)]
    ELSE [accepted |-> FALSE, next |-> None]

ScheduleInv == ScheduleQuestion /\ (answer = None \/ answer = Scheduled)

LEMMA LeastCandidate ==
    ASSUME ScheduleQuestion, ~Unreadable, Candidates(Expression, Now) # {}
    PROVE \E least \in Candidates(Expression, Now) :
            /\ next_run_after(Expression, Now) = least * TicksPerMinute
            /\ \A minute \in Candidates(Expression, Now) : least <= minute
<1>. DEFINE C == Candidates(Expression, Now)
            least == CHOOSE x \in C : \A y \in C : x <= y
<1>1. C \in SUBSET Nat /\ C # {}  BY CandidateIsDue
<1>2. next_run_after(Expression, Now) = least * TicksPerMinute  BY <1>1 DEF next_run_after
<1>. HIDE DEF C
<1>3. \E x \in C : \A y \in C : x <= y  BY <1>1, First
<1>4. least \in C /\ \A y \in C : least <= y  BY <1>3
<1>. QED  BY <1>2, <1>4 DEF C

\* The answer keeps the promise.
LEMMA RunsPromised == ScheduleInv => NextRunIsFirst
<1>. DEFINE fourYears == Now + MaxMinutesAhead * TicksPerMinute
            century == \E y \in Year..Year + 4 : y % 100 = 0 /\ ~LeapYear(y)
<1>1. SUFFICES ASSUME ScheduleQuestion, answer = Scheduled
               PROVE IF Unreadable THEN ~answer.accepted
                     ELSE /\ answer.accepted
                          /\ IF answer.next = None
                             THEN Later = {} \/ (century /\ \A t \in Later : t > fourYears)
                             ELSE answer.next \in Later /\ \A t \in Later : answer.next <= t
  BY DEF ScheduleInv, NextRunIsFirst, Answered, Now, Year, MaxMinutesAhead
<1>2. CASE Unreadable
  <2>1. ~answer.accepted  BY <1>1, <1>2, ExpressionRead DEF Scheduled
  <2>. QED  BY <1>2, <2>1
<1>3. CASE ~Unreadable
  <2>1. answer.accepted /\ answer.next = next_run_after(Expression, Now)
    BY <1>1, <1>3, ExpressionRead DEF Scheduled
  <2>2. fourYears \in Int /\ Now \in Int
    <3>1. Now \in Nat  BY <1>1 DEF ScheduleQuestion, Now
    <3>2. MaxMinutesAhead * TicksPerMinute \in Int  BY Day DEF MaxMinutesAhead
    <3>. QED  BY <3>1, <3>2
  <2>3. \A t \in Later : t \in Int
    <3>1. ASSUME NEW t \in Later PROVE t \in Int
      <4>1. PICK y \in Year..Year + YearsAhead, m \in 1..12 : \E d \in 1..MonthDays(y, m), at \in DueMinutes :
                t = (DayOf(y, m, d) * MinutesPerDay + at) * TicksPerMinute
        BY <1>1, LaterAre
      <4>2. PICK d \in 1..MonthDays(y, m), at \in DueMinutes :
                t = (DayOf(y, m, d) * MinutesPerDay + at) * TicksPerMinute
        BY <4>1
      <4>3. y \in Int  BY <1>1, YearsOn, CronAssumption
      <4>4. DayOf(y, m, d) * MinutesPerDay + at \in Int  BY <4>3, DueTypes
      <4>. QED  BY <4>2, <4>4, Day
    <3>. QED  BY <3>1
  <2>4. CASE Candidates(Expression, Now) = {}
    <3>1. answer.next = None  BY <2>1, <2>4 DEF next_run_after
    <3>2. \A t \in Later : t > fourYears
      <4>. HIDE DEF fourYears
      <4>1. ASSUME NEW t \in Later, ~(t > fourYears) PROVE FALSE
        <5>1. t <= fourYears  BY <2>2, <2>3, <4>1
        <5>. QED  BY <1>1, <1>3, <2>4, <5>1, DueIsFound DEF fourYears
      <4>. QED  BY <4>1
    <3>3. Later = {} \/ century
      <4>1. ~century => NoCentury  BY DEF NoCentury
      <4>. QED  BY <1>1, <1>3, <2>4, <4>1, FourYearsDo
    <3>. QED  BY <1>3, <2>1, <3>1, <3>2, <3>3
  <2>5. CASE Candidates(Expression, Now) # {}
    <3>1. PICK least \in Candidates(Expression, Now) :
            /\ next_run_after(Expression, Now) = least * TicksPerMinute
            /\ \A minute \in Candidates(Expression, Now) : least <= minute
      BY <1>1, <1>3, <2>5, LeastCandidate
    <3>2. least \in Nat /\ least * TicksPerMinute \in Later  BY <1>1, <1>3, CandidateIsDue
    <3>3. least * TicksPerMinute <= fourYears
      <4>1. least \in Int /\ least \in Window  BY <3>2 DEF Candidates, Window
      <4>. QED  BY <1>1, <4>1, Searched DEF Window
    <3>4. ASSUME NEW t \in Later PROVE least * TicksPerMinute <= t
      <4>1. CASE t <= fourYears
        <5>1. PICK minute \in Candidates(Expression, Now) : t = minute * TicksPerMinute
          BY <1>1, <1>3, <4>1, DueIsFound
        <5>2. minute \in Nat /\ least <= minute  BY <1>1, <1>3, <3>1, CandidateIsDue
        <5>. QED  BY <3>2, <5>1, <5>2, Day
      <4>2. CASE ~(t <= fourYears)
        <5>1. least * TicksPerMinute \in Int /\ t \in Int  BY <2>3, <3>2
        <5>. HIDE DEF fourYears
        <5>. QED  BY <2>2, <3>3, <4>2, <5>1
      <4>. QED  BY <4>1, <4>2
    <3>5. answer.next # None
      <4>1. least * TicksPerMinute \in Nat  BY <3>2, Day
      <4>. QED  BY <2>1, <3>1, <4>1, CronAssumption
    <3>. QED  BY <1>3, <2>1, <3>1, <3>2, <3>4, <3>5
  <2>. QED  BY <2>4, <2>5
<1>. QED  BY <1>2, <1>3

\* For any schedule and any instant the next run of a @cron task is the first instant
\* that its expression names; a task is given up only when no such instant exists, or
\* for the leap day that a century leaves out.
THEOREM RunCorrect == ScheduleSpec => []NextRunIsFirst
<1>1. AskSchedule => ScheduleInv  BY DEF AskSchedule, ScheduleInv, ScheduleQuestion
<1>2. ScheduleInv /\ [AnswerSchedule]_<<question, answer>> => ScheduleInv'
  <2>1. SUFFICES ASSUME ScheduleInv, [AnswerSchedule]_<<question, answer>> PROVE ScheduleInv'
    OBVIOUS
  <2>2. question' = question  BY <2>1 DEF AnswerSchedule
  <2>3. ScheduleQuestion'  BY <2>1, <2>2 DEF ScheduleInv, ScheduleQuestion, Asked, Today
  <2>4. Scheduled' = Scheduled  BY <2>2 DEF Scheduled, Expression, Now
  <2>5. CASE AnswerSchedule  BY <2>3, <2>4, <2>5 DEF AnswerSchedule, ScheduleInv, Scheduled, Expression, Now
  <2>6. CASE UNCHANGED <<question, answer>>  BY <2>1, <2>3, <2>4, <2>6 DEF ScheduleInv
  <2>. QED  BY <2>1, <2>5, <2>6
<1>. QED  BY <1>1, <1>2, RunsPromised, PTL DEF ScheduleSpec
=============================================================================
