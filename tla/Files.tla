------------------------------- MODULE Files -------------------------------
(***************************************************************************)
(* The files of a workspace: uploads of several files, deletions and       *)
(* downloads, while the agent writes into the same directory.              *)
(*                                                                         *)
(* An upload looks whether a name is free, awaits the parts of the file    *)
(* and then writes it; in between other requests and the agent go on.      *)
(***************************************************************************)
EXTENDS Naturals, Sequences, FiniteSets

CONSTANTS
    Uploads,       \* concurrent uploads
    Readers,       \* concurrent downloads
    Originals,     \* names that uploads and the agent use
    BlockedNames,  \* those whose extension is blocked
    MaxFiles,      \* MAX_FILES_PER_UPLOAD
    MaxFile,       \* MAX_FILE_UPLOAD_SIZE
    MaxTotal,      \* MAX_TOTAL_UPLOAD_SIZE
    Growth,        \* factor by which redaction can make a file longer
    MaxVersions    \* bounds the contents ever written

FilesAssumption ==
    /\ {MaxFiles, MaxFile, MaxTotal, Growth, MaxVersions} \subseteq Nat
    /\ BlockedNames \subseteq Originals /\ Growth > 0
ASSUME FilesAssumption

\* A name: its base, the numbers that made it unique, and how often ".tmp" ends it.
Name(b) == [base |-> b, copies |-> <<>>, tmp |-> 0]

VARIABLES
    disk,     \* the files: their content, which is named by its version
    version,  \* contents written so far
    upload,   \* the uploads
    reader    \* the downloads: the name they found, before the response opens it

filesVars == <<disk, version, upload, reader>>

NoUpload == [pc |-> "idle", files |-> <<>>, overwrite |-> FALSE, used |-> {}, total |-> 0,
             target |-> Name(""), since |-> 0, done |-> 0]

Exists(n) == n \in DOMAIN disk
With(n) == [m \in DOMAIN disk \union {n} |-> IF m = n THEN version + 1 ELSE disk[m]]
Without(n) == [m \in DOMAIN disk \ {n} |-> disk[m]]

FilesInit ==
    /\ disk = <<>> /\ version = 0
    /\ upload = [u \in Uploads |-> NoUpload]
    /\ reader = [r \in Readers |-> Name("")]

-----------------------------------------------------------------------------
(* POST /files/{session_id}/upload                                         *)

Sizes == 1 .. MaxFile + 1

\* Too many files, or one with a blocked extension, refuse the whole request.
Accepted(files) ==
    /\ Len(files) \in 1 .. MaxFiles
    /\ \A i \in DOMAIN files : files[i].name \notin BlockedNames

UploadBegin(u, files, overwrite) ==
    /\ upload[u].pc = "idle" /\ Accepted(files)
    /\ upload' = [upload EXCEPT ![u] = [NoUpload EXCEPT !.pc = "name", !.files = files,
                                                        !.overwrite = overwrite]]
    /\ UNCHANGED <<disk, version, reader>>

\* _get_unique_filename: the first number that is free in the directory.
UniqueName(n) ==
    IF ~Exists(n) THEN n
    ELSE LET Numbered(k) == [n EXCEPT !.copies = Append(@, k)]
             free == {k \in 1 .. MaxVersions + 1 : ~Exists(Numbered(k))}
         IN  Numbered(CHOOSE k \in free : \A j \in free : k <= j)

Following(up) == [up EXCEPT !.pc = IF Len(up.files) = 1 THEN "idle" ELSE "name",
                            !.files = Tail(@)]

\* A variant of UploadName: it looks whether the name is free that was sent.
UploadNameSent(u) ==
    LET up == upload[u]
        sent == Head(up.files).name
        target == IF sent \in up.used THEN UniqueName(sent) ELSE sent
    IN /\ up.pc = "name"
       /\ upload' = [upload EXCEPT ![u] =
            IF Exists(target) /\ sent \notin up.used /\ ~up.overwrite /\ up.used = {}
            THEN Following(up)
            ELSE [up EXCEPT !.pc = "read", !.target = target, !.used = @ \union {target},
                            !.since = version]]
       /\ UNCHANGED <<disk, version, reader>>

\* A name that nothing is left of when it is sanitized is an error of this file.  Any
\* other is made unique only against the names of this request; a file that is there
\* is an error of this file as well, unless it may be overwritten and is no symlink.
UploadName(u) ==
    LET up == upload[u]
        sent == Head(up.files).name
        target == IF sent \in up.used THEN UniqueName(sent) ELSE sent
        named == [up EXCEPT !.used = @ \union {target}]
    IN /\ up.pc = "name"
       /\ \/ upload' = [upload EXCEPT ![u] = Following(up)]
          \/ Exists(target) /\ upload' = [upload EXCEPT ![u] = Following(named)]
          \/ /\ Exists(target) => up.overwrite
             /\ upload' = [upload EXCEPT ![u] =
                   [named EXCEPT !.pc = "read", !.target = target, !.since = version]]
       /\ UNCHANGED <<disk, version, reader>>

\* A variant of Fits: the files before count, this one does not.
FitsAlone(up, size) == size <= MaxFile /\ up.total <= MaxTotal

\* The limits, as they are checked with every part that arrives.
Fits(up, size) == size <= MaxFile /\ up.total + size <= MaxTotal

\* The scan replaces secrets: the text is decoded and encoded again, which makes
\* bytes that are no UTF-8 longer.
RedactedSizes(size) == {size, Growth * size}

Temp(n) == [n EXCEPT !.tmp = @ + 1]

\* After the last part: the file is written beside its name and then renamed, without
\* an await in between, over whatever has either name by now.
UploadWrite(u) ==
    LET up == upload[u]  size == Head(up.files).size  n == up.target
    IN /\ up.pc = "read"
       /\ \/ /\ ~Fits(up, size) /\ upload' = [upload EXCEPT ![u] = Following(up)]
             /\ UNCHANGED <<disk, version>>
          \/ /\ Fits(up, size) /\ version < MaxVersions /\ version' = version + 1
             /\ \E s \in RedactedSizes(size) :
                   upload' = [upload EXCEPT ![u] = Following([up EXCEPT !.total = @ + s,
                                                                        !.done = @ + 1])]
             /\ disk' = [m \in (DOMAIN disk \ {Temp(n)}) \union {n} |->
                            IF m = n THEN version + 1 ELSE disk[m]]
          \/ /\ Fits(up, size) \* an exception: the temporary file is removed
             /\ upload' = [upload EXCEPT ![u] = Following(up)]
             /\ disk' = Without(Temp(n)) /\ UNCHANGED version
       /\ UNCHANGED reader

-----------------------------------------------------------------------------
(* The other requests, and the agent                                       *)

AgentWrites(n) ==
    /\ version < MaxVersions /\ version' = version + 1
    /\ disk' = With(n)
    /\ UNCHANGED <<upload, reader>>

\* The path is resolved after the awaits, the file is removed at once.
DeleteFile(n) ==
    /\ Exists(n) /\ disk' = Without(n)
    /\ UNCHANGED <<version, upload, reader>>

\* The endpoint looks whether the file exists; the response opens it afterwards.
DownloadFind(r, n) ==
    /\ reader[r] = Name("") /\ Exists(n)
    /\ reader' = [reader EXCEPT ![r] = n]
    /\ UNCHANGED <<disk, version, upload>>

DownloadSend(r) ==
    /\ reader[r] # Name("")
    /\ reader' = [reader EXCEPT ![r] = Name("")]
    /\ UNCHANGED <<disk, version, upload>>

Requests == UNION {[1 .. n -> [name : Originals, size : Sizes]] : n \in 1 .. MaxFiles}

FilesNext ==
    \/ \E u \in Uploads :
        \/ upload[u].done = 0 /\ \E files \in Requests, overwrite \in BOOLEAN :
              UploadBegin(u, files, overwrite)
        \/ UploadName(u) \/ UploadWrite(u)
    \/ \E n \in Originals : AgentWrites(n)
    \/ \E n \in DOMAIN disk : DeleteFile(n) \/ \E r \in Readers : DownloadFind(r, n)
    \/ \E r \in Readers : DownloadSend(r)

FilesSpec == FilesInit /\ [][FilesNext]_filesVars

-----------------------------------------------------------------------------
FilesTypeOK ==
    /\ version \in 0 .. MaxVersions
    /\ \A n \in DOMAIN disk : disk[n] \in 1 .. version /\ n.base # ""
    /\ \A u \in Uploads : upload[u].pc \in {"idle", "name", "read"}
    /\ \A r \in Readers : reader[r].base = "" \/ reader[r].base \in {n.base : n \in Originals}

\* An upload that may not overwrite spares every file that was there when it looked
\* at the name, but for the one that has the name of its temporary file.
FilesAreSpared ==
    \A u \in Uploads : (UploadWrite(u) /\ ~upload[u].overwrite) =>
        \A n \in DOMAIN disk :
            \/ n \in DOMAIN disk' /\ disk'[n] = disk[n]
            \/ disk[n] > upload[u].since
            \/ n = Temp(upload[u].target)
\* What one request writes fits the limit for all its files, but for what the
\* redaction adds to the file that was checked last before it grew.
UploadFits == \A u \in Uploads : upload[u].total <= MaxTotal + (Growth - 1) * MaxFile
UploadsKeepRules == [][FilesAreSpared /\ UploadFits']_filesVars

=============================================================================
