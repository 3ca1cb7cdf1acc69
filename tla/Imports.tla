------------------------------ MODULE Imports ------------------------------
(***************************************************************************)
(* Loading a program of several files (compiler/src/modules.rs), one import *)
(* at a time.  A file is whether it can be read and parsed, its imports in  *)
(* order, each of a file and of the names taken from it (none, when it is   *)
(* imported for what it does), and the names it declares itself.  Finding   *)
(* the file of an import, in a git dependency or not, is left out.          *)
(***************************************************************************)
EXTENDS Questions, Naturals, Sequences

CONSTANTS Files, Names   \* the files there are to import, the names they may declare

Sources == [readable : BOOLEAN, imports : Seq([from : Files, names : SUBSET Names]), declares : SUBSET Names]

AskImport ==
    /\ Asked("import") /\ answer = None
    /\ question.files \in [Files -> Sources] /\ question.entry \in Files

Imports(f) == question.files[f].imports

\* load_native: what a file declares, once it is read.
Readable(f) == question.files[f].readable

\* name_exists_in_namespaces, against the native items of the target.
Exports(f, name) == name \in question.files[f].declares

(* The walk has the calls of visit that have not returned, the outermost    *)
(* first, each with the import it has come to; the files that are done; and *)
(* the files whose items the program has, in order.                         *)
Unloaded == [stack |-> <<>>, done |-> {}, merged |-> <<>>, failed |-> FALSE]

on_stack(s) == {s.stack[k].file : k \in DOMAIN s.stack}

Fail(s) == [s EXCEPT !.failed = TRUE]
Enter(s, f) == [s EXCEPT !.stack = Append(@, [file |-> f, next |-> 1])]

\* Mutant: an import of a file on the stack is skipped, as one already done is.
VisitSkipsCycles(s, f) ==
    IF f \in s.done \cup on_stack(s) THEN s ELSE IF Readable(f) THEN Enter(s, f) ELSE Fail(s)

\* How a call of visit begins.
visit(s, f) ==
    IF f \in s.done THEN s
    ELSE IF f \in on_stack(s) \/ ~Readable(f) THEN Fail(s)
    ELSE Enter(s, f)

LoadEntry ==
    /\ Asked("import") /\ answer = None
    /\ answer' = visit(Unloaded, question.entry)
    /\ UNCHANGED question

Loading == Asked("import") /\ answer # None /\ ~answer.failed /\ answer.stack # <<>>
Depth == Len(answer.stack)
Top == answer.stack[Depth]
Passed == [answer.stack EXCEPT ![Depth] = [file |-> Top.file, next |-> Top.next + 1]]

\* The target must be readable and declare the names before it is visited.
ImportOk(imp) == Readable(imp.from) /\ \A name \in imp.names : Exports(imp.from, name)

LoadImport ==
    /\ Loading /\ Top.next \in DOMAIN Imports(Top.file)
    /\ LET imp == Imports(Top.file)[Top.next]
       IN answer' = IF ImportOk(imp) THEN visit([answer EXCEPT !.stack = Passed], imp.from) ELSE Fail(answer)
    /\ UNCHANGED question

\* The end of a call of visit: the items of the file follow those of its imports.
LoadMerged ==
    /\ Loading /\ Top.next \notin DOMAIN Imports(Top.file)
    /\ answer' = [stack |-> SubSeq(answer.stack, 1, Depth - 1), done |-> answer.done \cup {Top.file},
                  merged |-> Append(answer.merged, Top.file), failed |-> FALSE]
    /\ UNCHANGED question

load_program_full == LoadEntry \/ LoadImport \/ LoadMerged

ImportSpec == AskImport /\ [][load_program_full]_<<question, answer>>
----------------------------------------------------------------------------
Imported(f) == {Imports(f)[n].from : n \in DOMAIN Imports(f)}

\* The files there is a path of imports to.
Closed(fs) == \A f \in fs : Imported(f) \subseteq fs
Reached(fs) == {f \in Files : \A all \in SUBSET Files : fs \subseteq all /\ Closed(all) => f \in all}
Program == Reached({question.entry})

\* A file of the program cannot be read, imports itself, directly or not, or imports a name
\* its file does not declare.
Refused ==
    \E f \in Program :
        \/ ~Readable(f) \/ f \in Reached(Imported(f))
        \/ \E n \in DOMAIN Imports(f) : ~ImportOk(Imports(f)[n])

Loaded == ~answer.failed /\ answer.stack = <<>>

(* A program loads exactly when each file it reaches can be read, none of   *)
(* them imports itself, directly or not, and none imports a name its file   *)
(* does not declare; and then it has the items of each file it reaches      *)
(* once, after those of the files it imports.                               *)
LoadedOnce ==
    Answered("import") =>
        /\ answer.failed => Refused
        /\ Loaded =>
             LET order == answer.merged
             IN /\ ~Refused
                /\ {order[i] : i \in DOMAIN order} = Program
                /\ \A i, j \in DOMAIN order : order[i] = order[j] => i = j
                /\ \A i, j \in DOMAIN order : order[j] \in Imported(order[i]) => j < i
=============================================================================
