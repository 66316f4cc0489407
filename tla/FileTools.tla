----------------------------- MODULE FileTools -----------------------------
(***************************************************************************)
(* The file tools of the agent: Write, Edit, MultiEdit and Read change and *)
(* show files, LS, Glob and Grep search directories, up to a limit.  While *)
(* a tool works, a command of the shell may write the same files.  What    *)
(* paths mean is the matter of PathResolution.                             *)
(*                                                                         *)
(* A file is a sequence of letters; Secret is what the scanner redacts.    *)
(***************************************************************************)
EXTENDS Naturals, FiniteSets, SequencesExt

CONSTANTS
    FileNames,    \* paths that the validator accepts
    Letters,      \* what files consist of
    EditLists,    \* the edits of a call of MultiEdit: sequences of [file, old, new]
    Contents,     \* what is written
    Directories,  \* sequences of entries: [kind, hidden, matches]
    MaxResults,   \* MAX_ENTRIES, MAX_RESULTS
    MaxShell      \* bounds the writes of commands

Missing == <<"missing">>
Secret == "secret"
Redacted == "redacted"

FileToolsAssumption ==
    /\ Contents \subseteq Seq(Letters \union {Secret}) /\ MaxResults \in Nat \ {0}
    /\ \A d \in Directories : d \in Seq([kind : {"file", "dir", "unreadable", "broken"},
                                            hidden : BOOLEAN, matches : BOOLEAN])
    /\ \A l \in EditLists : \A i \in DOMAIN l : l[i].file \in FileNames
ASSUME FileToolsAssumption

VARIABLES
    files,   \* the contents, by name
    call,    \* the MultiEdit that works
    answer,  \* of the last call
    before,  \* what the files would be without the call
    shell    \* bounds the writes of commands: so many so far

toolsVars == <<files, call, answer, before, shell>>

NoCall == [phase |-> "none", edits |-> <<>>, read |-> <<>>, done |-> 0, results |-> <<>>]

ToolsInit ==
    /\ files \in [FileNames -> Contents \union {Missing}]
    /\ call = NoCall /\ answer = [kind |-> "none"] /\ before = files /\ shell = 0

Replies(a) == answer' = a
Rejects == Replies([kind |-> "error"])

Has(content, x) == Contains(content, x)
Count(content, x) == Len(SelectSeq(content, LAMBDA y : y = x))
First(content, x) == SelectInSeq(content, LAMBDA y : y = x)

ReplaceFirst(content, old, new) ==
    IF Has(content, old) THEN ReplaceAt(content, First(content, old), new) ELSE content
Replaced(content, old, new) == [i \in DOMAIN content |-> IF content[i] = old THEN new ELSE content[i]]

Redact(content) == Replaced(content, Secret, Redacted)

\* write_text: a write that fails has emptied the file.
Written(f, content, ok) == [files EXCEPT ![f] = IF ok THEN content ELSE <<>>]

-----------------------------------------------------------------------------
(* Write, Edit and Read                                                    *)

ToolIdle == call.phase = "none"

\* A file that is there is only overwritten on demand; secrets are not written, unless the
\* scan fails or is off.  After the write the size of the file is verified: it may be
\* another one when a command writes at the same time.
Write(f, content, overwrite, scanned, ok) ==
    LET text == IF scanned THEN Redact(content) ELSE content
    IN  /\ ToolIdle
        /\ IF files[f] # Missing /\ ~overwrite THEN Rejects /\ UNCHANGED <<files, shell>>
           ELSE \/ /\ files' = Written(f, text, ok) /\ UNCHANGED shell
                   /\ Replies([kind |-> IF ok THEN "written" ELSE "failed"])
                \/ /\ ok /\ shell < MaxShell /\ shell' = shell + 1 /\ Replies([kind |-> "failed"])
                   /\ \E other \in {c \in Contents : Len(c) # Len(text)} \union {Missing} :
                          files' = [files EXCEPT ![f] = other]
        /\ before' = files' /\ UNCHANGED call

\* The text must be there, and only once unless all are to be replaced.
Edit(f, old, new, all, ok) ==
    /\ ToolIdle
    /\ IF \/ files[f] = Missing \/ ~Has(files[f], old)
          \/ Count(files[f], old) > 1 /\ ~all
       THEN Rejects /\ UNCHANGED files
       ELSE /\ files' = Written(f, Replaced(files[f], old, new), ok)
            /\ Replies([kind |-> IF ok THEN "edited" ELSE "failed"])
    /\ before' = files' /\ UNCHANGED <<call, shell>>

Read(f, scanned) ==
    /\ ToolIdle
    /\ IF files[f] = Missing THEN Rejects
       ELSE Replies([kind |-> "read", text |-> IF scanned THEN Redact(files[f]) ELSE files[f]])
    /\ before' = files /\ UNCHANGED <<files, call, shell>>

-----------------------------------------------------------------------------
(* MultiEdit                                                               *)

MultiEdit(edits) ==
    /\ ToolIdle
    /\ call' = [NoCall EXCEPT !.phase = "check", !.edits = edits]
    /\ before' = files /\ answer' = [kind |-> "none"] /\ UNCHANGED <<files, shell>>

NextEdit == call.edits[call.done + 1]
More == call.done < Len(call.edits)

\* A variant of CheckEdit: an edit is applied when it is valid.
CheckEditApplies ==
    /\ call.phase = "check" /\ More
    /\ IF files[NextEdit.file] = Missing \/ ~Has(files[NextEdit.file], NextEdit.old)
       THEN Rejects /\ call' = NoCall /\ UNCHANGED files
       ELSE /\ call' = [call EXCEPT !.done = @ + 1, !.read = Append(@, files[NextEdit.file])]
            /\ files' = Written(NextEdit.file, ReplaceFirst(files[NextEdit.file], NextEdit.old, NextEdit.new), TRUE)
            /\ UNCHANGED answer
    /\ UNCHANGED <<before, shell>>

\* Every edit is checked with the file as it is, and the contents are kept.
CheckEdit ==
    /\ call.phase = "check" /\ More
    /\ IF files[NextEdit.file] = Missing \/ ~Has(files[NextEdit.file], NextEdit.old)
       THEN Rejects /\ call' = NoCall
       ELSE /\ call' = [call EXCEPT !.done = @ + 1, !.read = Append(@, files[NextEdit.file])]
            /\ UNCHANGED answer
    /\ UNCHANGED <<files, before, shell>>

Checked ==
    /\ call.phase = "check" /\ ~More
    /\ call' = [call EXCEPT !.phase = "apply", !.done = 0]
    /\ UNCHANGED <<files, answer, before, shell>>

\* Each edit is made in the contents that were read for it; a write that fails does not
\* stop the others.
ApplyEdit(ok) ==
    /\ call.phase = "apply" /\ More
    /\ files' = Written(NextEdit.file, ReplaceFirst(call.read[call.done + 1], NextEdit.old, NextEdit.new), ok)
    /\ call' = [call EXCEPT !.done = @ + 1, !.results = Append(@, ok)]
    /\ UNCHANGED <<answer, before, shell>>

MultiEdited ==
    /\ call.phase = "apply" /\ ~More
    /\ Replies([kind |-> "multi", edits |-> call.edits, results |-> call.results, was |-> before])
    /\ call' = NoCall /\ UNCHANGED <<files, before, shell>>

\* A command writes meanwhile.
Shell(f, content) ==
    /\ shell < MaxShell /\ shell' = shell + 1
    /\ files' = [files EXCEPT ![f] = content] /\ before' = [before EXCEPT ![f] = content]
    /\ UNCHANGED <<call, answer>>

-----------------------------------------------------------------------------
(* LS, Glob and Grep                                                       *)

\* A directory is listed in order; what a search shows is given by the places in it.  A
\* file may be unreadable, a link may lead nowhere.
FirstOf(places) == {i \in places : Cardinality({j \in places : j < i}) < MaxResults}
FilesIn(d) == {i \in DOMAIN d : d[i].kind \in {"file", "unreadable"}}
VisibleIn(d) == {i \in DOMAIN d : ~d[i].hidden}
LinesIn(d) == {i \in FilesIn(d) : d[i].kind = "file" /\ d[i].matches}

Result(shown, cut) == [shown |-> shown, cut |-> cut]

\* The limit is for all entries, also those that are hidden; if nothing is left to show,
\* the directory is said to be empty, without the notice.  An entry without a size, as a
\* link that leads nowhere, makes the call an error.
LS(d) ==
    LET shown == FirstOf(DOMAIN d) \intersect VisibleIn(d)
    IN  IF \E i \in shown : d[i].kind = "broken" THEN Result({}, FALSE)
        ELSE Result(shown, shown # {} /\ Len(d) > MaxResults)

\* A variant of Glob: it counts the files it shows.
GlobShown(d) == LET shown == FirstOf(FilesIn(d)) IN Result(shown, Cardinality(shown) > MaxResults)

\* The limit is for files; the notice counts directories, too.
Glob(d) == Result(FirstOf(FilesIn(d)), Len(d) > MaxResults)

\* Matching lines; files that cannot be read are skipped.  Grep stops at the limit.
Grep(d) == Result(FirstOf(LinesIn(d)), Cardinality(LinesIn(d)) >= MaxResults)

Search(d) ==
    /\ ToolIdle /\ answer' = [kind |-> "search", dir |-> d, ls |-> LS(d), glob |-> Glob(d), grep |-> Grep(d)]
    /\ before' = files /\ UNCHANGED <<files, call, shell>>

ToolsNext ==
    \/ \E f \in FileNames, ok \in BOOLEAN :
          \/ \E c \in Contents, o, scanned \in BOOLEAN : Write(f, c, o, scanned, ok)
          \/ \E x, y \in Letters, all \in BOOLEAN : Edit(f, x, y, all, ok)
    \/ \E f \in FileNames :
          (\E scanned \in BOOLEAN : Read(f, scanned)) \/ (\E c \in Contents : Shell(f, c))
    \/ \E l \in EditLists : MultiEdit(l)
    \/ CheckEdit \/ Checked \/ MultiEdited \/ \E ok \in BOOLEAN : ApplyEdit(ok)
    \/ \E d \in Directories : Search(d)

ToolsSpec == ToolsInit /\ [][ToolsNext]_toolsVars

-----------------------------------------------------------------------------
ToolsTypeOK ==
    /\ \A f \in FileNames : files[f] = Missing \/ files[f] \in Seq(Letters \union {Secret, Redacted})
    /\ call.phase \in {"none", "check", "apply"} /\ call.done \in 0 .. Len(call.edits)

\* A call that is rejected has changed no file: if one edit of several is not valid,
\* none is made, whatever commands write between its steps.
RejectedChangesNothing == answer.kind = "error" => files = before

\* A search that shows something, but not everything that it could, says so.  What Grep
\* cannot read it skips without a word.
CutIsAnnounced ==
    answer.kind = "search" =>
        LET d == answer.dir
            shows(r, all) == r.shown = all \/ r.cut
        IN  /\ answer.ls.shown # {} => shows(answer.ls, VisibleIn(d))
            /\ shows(answer.glob, FilesIn(d))
            /\ shows(answer.grep, LinesIn(d))

\* What MultiEdit says: all edits that it reports are in the files.
EditsAreApplied ==
    answer.kind = "multi" /\ shell = 0 /\ (\A i \in DOMAIN answer.results : answer.results[i]) =>
        \A f \in FileNames :
            files[f] = FoldLeft(LAMBDA c, e : IF e.file = f THEN ReplaceFirst(c, e.old, e.new) ELSE c,
                                answer.was[f], answer.edits)

=============================================================================
