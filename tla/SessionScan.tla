---------------------------- MODULE SessionScan -----------------------------
(***************************************************************************)
(* The scanner for secrets: what it finds in a text and how it masks it,   *)
(* the scan of a session's files when an execution has ended, and the      *)
(* payloads of events, which are masked before they are stored.            *)
(*                                                                         *)
(* A scan runs in the event loop without an await.  Files of mounts that   *)
(* several sessions share, and those of commands that go on, are written   *)
(* by other processes while it runs.                                       *)
(***************************************************************************)
EXTENDS Naturals, FiniteSets, SequencesExt

CONSTANTS
    Files,          \* paths below the workspace
    Place,          \* path -> [depth, readonly, skipped, extension]
    Finders,        \* what is looked for, the plugins first
    FalsePositives, \* values that are no secrets
    MinLength,      \* of a value that a custom pattern finds
    Format,         \* replacement_format: asterisk, hash or redact_typed
    Overhead,       \* characters of a hash that are not its digits
    MaxDepth, MaxFiles, MaxSize,
    ChunkSize,      \* of the beginning that tells a binary file
    Texts,          \* what others write
    Payloads,       \* payloads of events
    MaxWrites, MaxScans \* bounds

SessionScanAssumption ==
    /\ IsFiniteSet(Files) /\ {MaxDepth, MaxFiles, MaxSize, ChunkSize, MaxWrites, MaxScans, MinLength, Overhead} \subseteq Nat
    /\ Format \in {"asterisk", "hash", "redact_typed"}
    /\ \A i \in DOMAIN Finders : Finders[i].least > 0

VARIABLES
    files,   \* path -> [text, recent, there, version], a version for every change
    scan,    \* where the scan is, the files it still has to read, what it has read
    alerts,  \* security_alert events: what was found, and whether it was masked
    row,     \* the payload that was stored last
    written, \* files written by others
    scans

vars == <<files, scan, alerts, row, written, scans>>

NoFile == [text |-> <<>>, recent |-> FALSE, there |-> FALSE, version |-> 0]
Idle == [pc |-> "idle", todo |-> {}, file |-> "none", text |-> <<>>, version |-> 0, results |-> {}]
New(text, version) == [text |-> text, recent |-> TRUE, there |-> TRUE, version |-> version]

Init ==
    /\ files = [f \in Files |-> NoFile] /\ scan = Idle /\ alerts = {} /\ row = <<>>
    /\ written = 0 /\ scans = 0

-----------------------------------------------------------------------------
(* Finding                                                                 *)

\* Where a run of characters that begins at i ends.
RunEnd(class, text, i) ==
    LET past == {j \in i .. Len(text) : text[j] \notin class}
    IN  IF past = {} THEN Len(text) ELSE (CHOOSE j \in past : \A k \in past : j <= k) - 1

StartsAt(part, text, i) ==
    i + Len(part) - 1 <= Len(text) /\ SubSeq(text, i, i + Len(part) - 1) = part

\* The values that a pattern finds from left to right: its prefix and then as many
\* characters of its class as there are.  The prefix is a part of some values.
Matches(f, text) ==
    LET From[i \in 1 .. Len(text) + 1] ==
            LET first == i + Len(f.prefix)
                last == RunEnd(f.class, text, first)
            IN  IF i > Len(text) THEN <<>>
                ELSE IF StartsAt(f.prefix, text, i) /\ last - first + 1 >= f.least
                     THEN <<SubSeq(text, IF f.whole THEN i ELSE first, last)>> \o From[last + 1]
                     ELSE From[i + 1]
    IN  From[1]

Detected(f, text) ==
    SelectSeq(Matches(f, text), LAMBDA v : v \notin FalsePositives /\ (f.plugin \/ Len(v) >= MinLength))

\* Each value once, in the order in which they were found.
Secrets(text) ==
    FoldLeft(LAMBDA found, v : IF Contains(found, v) THEN found ELSE Append(found, v),
             <<>>, FlattenSeq([i \in DOMAIN Finders |-> Detected(Finders[i], text)]))

\* The longest first, those of one length as they were.
LongestFirst(values, length) ==
    FlattenSeq([k \in 1 .. length |-> SelectSeq(values, LAMBDA v : Len(v) = length - k + 1)])

-----------------------------------------------------------------------------
(* Masking                                                                 *)

Stars(v) == [i \in DOMAIN v |-> "*"]
Replacement(v) ==
    CASE Format = "hash" /\ Len(v) > Overhead -> [i \in DOMAIN v |-> "#"]
      [] Format = "redact_typed" -> <<"#">>
      [] OTHER -> Stars(v)

\* str.replace
Replaced(text, v) ==
    LET From[i \in 1 .. Len(text) + 1] ==
            IF i > Len(text) THEN <<>>
            ELSE IF StartsAt(v, text, i) THEN Replacement(v) \o From[i + Len(v)]
            ELSE <<text[i]>> \o From[i + 1]
    IN  From[1]

\* Variant: the values in the order in which they were found.
RedactedUnordered(text) == FoldLeft(Replaced, text, Secrets(text))

Redacted(text) == FoldLeft(Replaced, text, LongestFirst(Secrets(text), Len(text)))

-----------------------------------------------------------------------------
(* The scan of a session                                                   *)

ShouldScan(f) ==
    /\ files[f].there /\ ~Place[f].readonly /\ ~Place[f].skipped /\ Place[f].extension
    /\ Len(files[f].text) \in 1 .. MaxSize
    /\ files[f].recent

\* The files of a workspace come in no particular order.
Begin ==
    /\ scan = Idle /\ scans < MaxScans
    /\ \E chosen \in SUBSET {f \in Files : Place[f].depth <= MaxDepth /\ ShouldScan(f)} :
          /\ \/ Cardinality(chosen) = MaxFiles
             \/ /\ Cardinality(chosen) < MaxFiles
                /\ \A f \in Files : Place[f].depth <= MaxDepth /\ ShouldScan(f) => f \in chosen
          /\ scan' = [Idle EXCEPT !.pc = "files", !.todo = chosen]
    /\ scans' = scans + 1
    /\ UNCHANGED <<files, alerts, row, written>>

\* A file is read as text: bytes that are not UTF-8 become replacement characters, and
\* all ends of lines become the one of Linux.
Decoded(text) == [i \in DOMAIN text |-> CASE text[i] = "raw" -> "?" [] text[i] = "crlf" -> "lf" [] OTHER -> text[i]]

Binary(text) == \E i \in DOMAIN text : i <= ChunkSize /\ text[i] = "0"

\* A file that is gone or begins like a binary one is left out.
Read(f) ==
    /\ scan.pc = "files" /\ f \in scan.todo
    /\ LET text == Decoded(files[f].text)
           rest == [scan EXCEPT !.todo = @ \ {f}]
       IN  scan' = IF ~files[f].there \/ Binary(files[f].text) \/ Secrets(text) = <<>> THEN rest
                   ELSE [rest EXCEPT !.pc = "write", !.file = f, !.text = text, !.version = files[f].version]
    /\ UNCHANGED <<files, alerts, row, written, scans>>

Found(redacted, version) ==
    scan' = [scan EXCEPT !.pc = "files",
                 !.results = @ \union {[file |-> scan.file, values |-> ToSet(Secrets(scan.text)),
                                        redacted |-> redacted, version |-> version]}]

\* The whole text is written, also to a file that was removed meanwhile.
WriteBack ==
    /\ scan.pc = "write"
    /\ LET f == scan.file
       IN  /\ files' = [files EXCEPT ![f] = New(Redacted(scan.text), @.version + 1)]
           /\ Found(TRUE, files'[f].version)
    /\ UNCHANGED <<alerts, row, written, scans>>

\* Before the file is opened, or when it is already empty.
WriteFails ==
    /\ scan.pc = "write" /\ Found(FALSE, scan.version)
    /\ files' \in {files, [files EXCEPT ![scan.file] = New(<<>>, @.version + 1)]}
    /\ UNCHANGED <<alerts, row, written, scans>>

\* One alert about all files, if there are any.
End ==
    /\ scan.pc = "files" /\ scan.todo = {}
    /\ scan' = Idle
    /\ alerts' = IF scan.results = {} THEN alerts ELSE scan.results
    /\ UNCHANGED <<files, row, written, scans>>

-----------------------------------------------------------------------------
(* Other processes                                                         *)

Write(f, text) ==
    /\ written < MaxWrites /\ written' = written + 1
    /\ files' = [files EXCEPT ![f] = New(text, @.version + 1)]
    /\ UNCHANGED <<scan, alerts, row, scans>>

Delete(f) ==
    /\ written < MaxWrites /\ written' = written + 1 /\ files[f].there
    /\ files' = [files EXCEPT ![f] = [NoFile EXCEPT !.version = files[f].version + 1]]
    /\ UNCHANGED <<scan, alerts, row, scans>>

Age(f) ==
    /\ files[f].recent /\ files' = [files EXCEPT ![f].recent = FALSE]
    /\ UNCHANGED <<scan, alerts, row, written, scans>>

(* record_event: the serialized payload is masked like a file. *)
Store(payload) ==
    /\ row' = Redacted(payload)
    /\ UNCHANGED <<files, scan, alerts, written, scans>>

Next ==
    \/ Begin \/ WriteBack \/ WriteFails \/ End
    \/ \E f \in Files : Read(f) \/ Delete(f) \/ Age(f) \/ \E text \in Texts : Write(f, text)
    \/ \E p \in Payloads : Store(p)

Spec == Init /\ [][Next]_vars

-----------------------------------------------------------------------------
TypeOK ==
    /\ \A f \in Files : files[f].recent => files[f].there
    /\ scan.todo \subseteq Files /\ scan.file \in Files \union {"none"}
    /\ scan.pc \in {"idle", "files", "write"} /\ (scan.pc = "write" => scan.file \in Files)
    /\ \A r \in alerts \union scan.results : r.file \in Files /\ r.values # {}
    /\ written \in 0 .. MaxWrites /\ scans \in 0 .. MaxScans

Occurs(v, text) == {i \in DOMAIN text : StartsAt(v, text, i)}
Covers(v, i, j) == j \in i .. i + Len(v) - 1
Masked == {"*", "#"}

\* A text and what it is masked to, in a format that keeps lengths: characters
\* outside the secrets stay, and a secret is masked from end to end unless it
\* overlaps one that is as long.
MaskedExactly(text, masked) ==
    LET values == ToSet(Secrets(text))
    IN  /\ Len(masked) = Len(text)
        /\ \A j \in DOMAIN text :
              \/ masked[j] = text[j]
              \/ masked[j] \in Masked /\ \E v \in values : \E i \in Occurs(v, text) : Covers(v, i, j)
        /\ \A v \in values : \A i \in Occurs(v, text) :
              \/ \A j \in i .. i + Len(v) - 1 : masked[j] \in Masked
              \/ \E w \in values : \E k \in Occurs(w, text) :
                    (w # v \/ k # i) /\ Len(w) >= Len(v) /\ k < i + Len(v) /\ i < k + Len(w)

\* A scan that nobody interferes with changes nothing of a text but its secrets, besides
\* what decoding it changes (session_scanner.py, sensitive_data_scanner.py).
OnlySecretsChange ==
    WriteBack /\ files[scan.file].version = scan.version
      => MaskedExactly(Decoded(files[scan.file].text), files'[scan.file].text)
OnlySecretsGo == [][OnlySecretsChange]_vars

\* A file that is reported as masked has none of the values that were reported, and
\* a new scan finds nothing in it but masks, as long as nobody has written it since.
ReportedIsMasked ==
    \A r \in alerts : r.redacted /\ files[r.file].version = r.version =>
        /\ \A v \in r.values : ToSet(v) \intersect Masked = {} => Occurs(v, files[r.file].text) = {}
        /\ \A v \in ToSet(Secrets(files[r.file].text)) : ToSet(v) \intersect Masked # {}

-----------------------------------------------------------------------------
(* What does not hold.                                                     *)

\* A file that was masked and not written since is not reported again: the pattern
\* for passwords finds its own asterisks ("alert requires manual dismissal",
\* sensitive-data-scanner.yaml:15).
ReportedOnce ==
    [][\A r \in alerts, s \in alerts' :
         r.redacted /\ s.file = r.file /\ files[r.file].version = s.version => r = s]_vars

\* Masking in place keeps the rest of a file: bytes that are not UTF-8 and the ends of
\* lines are written back as they were decoded.
RestStays ==
    [][WriteBack /\ files[scan.file].version = scan.version
         => \A i \in DOMAIN files'[scan.file].text :
               files'[scan.file].text[i] \in Masked \union {files[scan.file].text[i]}]_vars

\* What another process writes is not undone by a scan that read before it.
WritesSurvive == [][WriteBack => files[scan.file].version = scan.version]_vars

\* "Content has been redacted" (session_scanner.py:64, scanner_config.py:58).
AlertsAreTrue == \A r \in alerts : r.redacted

\* A stored payload can be parsed: a quote that the text of a payload contains is
\* escaped, and the escape is not masked with the secret before it
\* (event_service.py:211).
Readable(json) ==
    Cardinality({i \in DOMAIN json : json[i] = "quote" /\ (i = 1 \/ json[i - 1] # "escape")}) % 2 = 0
StoredIsReadable == Readable(row)
=============================================================================
