----------------------------- MODULE Documents -----------------------------
(***************************************************************************)
(* ReadDocument: what a call shows of a document, page by page, row by row *)
(* or member by member, and the cache of what was shown.  Calls overlap,   *)
(* commands overwrite documents, and the API stops and starts again.       *)
(*                                                                         *)
(* The index of the cache is saved with each change, so the one in memory  *)
(* and the one on disk are the same variable.                              *)
(***************************************************************************)
EXTENDS Integers, FiniteSets, SequencesExt

CONSTANTS
    DocReaders,      \* calls that may overlap
    DocPaths,     \* of documents
    Extension,    \* of a path: a category, or something else
    DocTable,     \* name -> document
    Versions,     \* path -> the names of the documents that are written there
    ReadRequests, \* path -> [hint, pages, rows, mode, member]
    MaxSize,     \* limits.*: of a document
    MaxPages, MaxOcr, MaxLoaded, MaxLines,   \* of what is shown
    MaxCount, MaxUnpacked, MaxRatio, MaxSingle,   \* of archives
    CacheSize, Ttl, IndexSize,
    MaxNow       \* bounds the clock

Unset == "none"
Error == [error |-> TRUE]
Categories == {"text", "pdf", "office", "archive", "tabular"}

DocumentsAssumption ==
    /\ {MaxPages, MaxOcr, MaxLoaded, MaxLines, MaxCount, MaxUnpacked, MaxRatio, MaxSingle} \subseteq Nat
    /\ {CacheSize, Ttl, IndexSize, MaxNow, MaxSize} \subseteq Nat
    /\ Extension \in [DocPaths -> STRING] /\ DOMAIN ReadRequests = DocPaths
    /\ Versions \in [DocPaths -> SUBSET DOMAIN DocTable]

ASSUME DocumentsAssumption

VARIABLES
    documents, \* path -> a name and the time of the last change
    reads,     \* what is being extracted, by caller
    cache,     \* key -> [shown, size, at, whole]
    index,     \* keys that index.json knows
    extracted, \* members that have been extracted: <<path, name>>
    now,       \* the clock
    torn,      \* keys whose file was written by a process that stopped before it saved the index
    reply      \* of the last call

documentsVars == <<documents, reads, cache, index, extracted, now, torn, reply>>

NoRead == [path |-> Unset]
NoReply == [kind |-> Unset]

DocName(p) == documents[p][1]
Doc(p) == DocTable[DocName(p)]
Mtime(p) == documents[p][2]

DocumentsInit ==
    /\ documents \in [DocPaths -> (UNION {Versions[p] : p \in DocPaths}) \X {0}]
    /\ \A p \in DocPaths : DocName(p) \in Versions[p]
    /\ reads = [c \in DocReaders |-> NoRead] /\ cache = << >> /\ index = {} /\ extracted = {}
    /\ now = 1 /\ torn = {} /\ reply = NoReply

-----------------------------------------------------------------------------
(* What is shown                                                           *)

\* The hint replaces the extension; what neither names is judged by its contents.
Category(p, doc, hint) ==
    LET ext == IF hint = Unset THEN Extension[p] ELSE hint
    IN  IF ext \in Categories THEN ext ELSE IF doc.kind = "text" THEN "text" ELSE "unknown"

Cacheable(category) == category \in {"pdf", "office", "archive"}

Smaller(m, n) == IF m < n THEN m ELSE n
Upto(s, n) == [i \in DOMAIN s \intersect (1 .. n) |-> s[i]]
Sanitized(lines) == [error |-> FALSE, lines |-> Upto(lines, MaxLines), cut |-> Len(lines) > MaxLines]

\* Ranges of pages, none for all: each must lie in the document.
PageRange(ranges, total) == IF ranges = {} THEN 1 .. total ELSE UNION {r[1] .. r[2] : r \in ranges}
BadRange(ranges, total) == \E r \in ranges : r[1] < 1 \/ r[2] > total \/ r[1] > r[2]

\* Pages without text are recognised, some of them too slowly, up to a number of successes.
ShowPages(doc, ranges, slow) ==
    LET total == Len(doc.pages)
        wanted == PageRange(ranges, total)
        shown == Upto(SelectSeq([i \in 1 .. total |-> i], LAMBDA i : i \in wanted), MaxPages)
        scans(i) == {j \in 1 .. i : doc.pages[shown[j]] = "scan"}
        how(i) == IF doc.pages[shown[i]] # "scan" THEN doc.pages[shown[i]]
                  ELSE IF Cardinality({j \in scans(i - 1) : shown[j] \notin slow}) >= MaxOcr THEN "limit"
                  ELSE IF shown[i] \in slow THEN "slow" ELSE "ocr"
    IN  IF doc.kind # "pdf" \/ BadRange(ranges, total) THEN Error
        ELSE Sanitized([i \in DOMAIN shown |-> <<shown[i], how(i)>>])

\* A range of rows: after the first bound, up to the second.
RowRange(range, total) ==
    CASE range.how = "all"   -> <<0, total>>
      [] range.how = "head"  -> <<0, Smaller(range.n, total)>>
      [] range.how = "tail"  -> <<total - Smaller(range.n, total), total>>
      [] range.how = "range" -> <<range.from - 1, range.n>>
BadRows(range, total) == range.how = "range" /\ (range.from < 1 \/ range.n > total \/ range.from > range.n)

\* Only the first rows of a table are loaded; its ranges count what was loaded.
ShowRows(doc, range) ==
    LET total == Smaller(doc.rows, MaxLoaded)
        r == RowRange(range, total)
    IN  IF BadRows(range, total) THEN Error
        ELSE [error |-> FALSE, rows |-> (r[1] + 1) .. r[2], more |-> total - r[2]]

\* The lines of a text: an offset and a limit.
ShowLines(doc, range) ==
    LET from == IF range.how = "range" THEN range.from ELSE 1
        to == IF range.how = "range" THEN Smaller(from + range.n - 1, doc.rows) ELSE doc.rows
    IN  Sanitized([i \in 1 .. to - from + 1 |-> from + i - 1])

\* pandoc is told the format by the extension, whatever the hint said.
ShowOffice(p, doc) ==
    IF Extension[p] = "office" /\ doc.kind = "office" THEN Sanitized(<<doc.body>>) ELSE Error

\* Too many members, or too much when they are unpacked.
TooMuch(doc) ==
    LET contents == SelectSeq(doc.members, LAMBDA m : ~m.dir)
        sum[i \in 0 .. Len(contents)] == IF i = 0 THEN 0 ELSE sum[i - 1] + contents[i].size
        total == sum[Len(contents)]
    IN  Len(contents) > MaxCount \/ total > MaxRatio * doc.size \/ total > MaxUnpacked

\* The first member of that name is checked, the last one is read.
Found(doc, name) == SelectSeq(doc.members, LAMBDA m : m.name = name)
BadMember(doc, want, member) ==
    LET named == Found(doc, member)
    IN  \/ member = Unset \/ named = <<>>
        \/ named[1].banned \/ named[1].link
        \/ want = "read" /\ (named[1].dir \/ named[1].size > MaxSingle)
        \/ want = "extract" /\ doc.kind = "tar" /\ Last(named).dir

ReadMember(doc, member) == Sanitized(<<Last(Found(doc, member)).body>>)
Listing(doc) == Sanitized(SelectSeq(doc.members, LAMBDA m : ~m.dir))

ShowArchive(p, doc, want, member) ==
    IF Extension[p] # "archive" \/ doc.kind \notin {"zip", "tar"} \/ TooMuch(doc) THEN Error
    ELSE IF want = "list" THEN Listing(doc)
    ELSE IF BadMember(doc, want, member) THEN Error
    ELSE IF want = "read" THEN ReadMember(doc, member)
    ELSE [error |-> FALSE, extracted |-> member]

\* The extractor of a category.
Extraction(category, p, doc, req, slow) ==
    CASE category = "pdf" -> ShowPages(doc, req.pages, slow)
      [] category = "tabular" -> ShowRows(doc, req.rows)
      [] category = "text" -> ShowLines(doc, req.rows)
      [] category = "office" -> ShowOffice(p, doc)
      [] category = "archive" -> ShowArchive(p, doc, req.mode, req.member)

-----------------------------------------------------------------------------
(* The cache                                                               *)

\* A variant of Key: without the time of the last change.
KeyUntimed(p, doc, mtime, req) ==
    [category |-> Category(p, doc, req.hint), head |-> doc.head, size |-> doc.size,
     args |-> <<req.pages, req.rows, req.mode, req.member>>]

\* Where an answer is kept: by the category, the first bytes, the size, the time of the
\* last change, and the arguments; not by the path and the hint.
Key(p, doc, mtime, req) ==
    [category |-> Category(p, doc, req.hint), head |-> doc.head, size |-> doc.size, mtime |-> mtime,
     args |-> <<req.pages, req.rows, req.mode, req.member>>]

\* get: an entry that is too old is removed, one that cannot be parsed is a miss.
Expired(k) == k \in DOMAIN cache /\ cache[k].whole /\ now - cache[k].at > Ttl
Hit(k) == k \in DOMAIN cache /\ cache[k].whole /\ ~Expired(k)

\* What the files of some entries take, as so many units of each entry.
Units(entries, k) == {k} \X (1 .. entries[k].size)
CacheUse(entries, keys) == Cardinality(UNION {Units(entries, k) : k \in keys})

Removed(entries, keys) == [k \in DOMAIN entries \ keys |-> entries[k]]

\* _maybe_cleanup: the oldest entries of the index go, until enough is freed.
Evicted(entries, indexed) ==
    LET excess == CacheUse(entries, DOMAIN entries) + IndexSize - CacheSize
        older(k) == {j \in indexed : entries[j].at < entries[k].at}
    IN  IF excess <= 0 THEN {} ELSE {k \in indexed : CacheUse(entries, older(k)) < excess}

Weight(shown) == 1 + (IF "lines" \in DOMAIN shown THEN Cardinality(DOMAIN shown.lines) ELSE 0)
Entry(shown, whole) == [shown |-> shown, size |-> Weight(shown), at |-> now, whole |-> whole]
Added(k, e) == [j \in DOMAIN cache \union {k} |-> IF j = k THEN e ELSE cache[j]]

\* put: the file, then the index, then what is too much.
Put(k, e) ==
    LET entries == Added(k, e)
        indexed == index \union {k}
        gone == Evicted(entries, indexed)
    IN  /\ cache' = Removed(entries, gone) /\ index' = indexed \ gone
        /\ torn' = (torn \ {k}) \ gone

-----------------------------------------------------------------------------
(* Calls                                                                   *)

Shows(kind, p, req, shown) ==
    reply' = [kind |-> kind, path |-> p, name |-> DocName(p), req |-> req, shown |-> shown]

Unpacked(shown, p, req) == IF "extracted" \in DOMAIN shown THEN extracted \union {<<p, req.member>>} ELSE extracted

\* A call looks for its answer in the cache, or starts to extract it.
BeginRead(c, p, req) ==
    LET doc == Doc(p)
        category == Category(p, doc, req.hint)
        k == Key(p, doc, Mtime(p), req)
    IN  /\ reads[c] = NoRead
        /\ IF category = "unknown" \/ doc.size > MaxSize
           THEN Shows("error", p, req, Error) /\ UNCHANGED <<reads, cache, index, torn>>
           ELSE IF Cacheable(category) /\ Hit(k)
           THEN Shows("cached", p, req, cache[k].shown) /\ UNCHANGED <<reads, cache, index, torn>>
           ELSE /\ reads' = [reads EXCEPT ![c] = [path |-> p, req |-> req, key |-> k]]
                /\ reply' = NoReply
                /\ IF Cacheable(category) /\ Expired(k)
                   THEN cache' = Removed(cache, {k}) /\ index' = index \ {k} /\ torn' = torn \ {k}
                   ELSE UNCHANGED <<cache, index, torn>>
        /\ UNCHANGED <<documents, extracted, now>>

\* What a call extracts from the document as it is now, by the category that it had.
ExtractedNow(c, slow) ==
    Extraction(reads[c].key.category, reads[c].path, Doc(reads[c].path), reads[c].req, slow)

\* A call extracts, or fails, or takes too long; an answer is kept.
FinishRead(c, slow, ok) ==
    LET p == reads[c].path
        req == reads[c].req
        shown == IF ok THEN ExtractedNow(c, slow) ELSE Error
    IN  /\ reads[c] # NoRead /\ now < MaxNow /\ now' = now + 1
        /\ reads' = [reads EXCEPT ![c] = NoRead]
        /\ IF ~shown.error /\ Cacheable(reads[c].key.category)
           THEN Put(reads[c].key, Entry(shown, TRUE)) /\ Shows("stored", p, req, shown)
           ELSE /\ UNCHANGED <<cache, index, torn>>
                /\ Shows(IF shown.error THEN "error" ELSE "shown", p, req, shown)
        /\ extracted' = Unpacked(shown, p, req) /\ UNCHANGED documents

\* A variant of StopsWriting: the index was only in memory.
StopsWritingForgets(c, whole) ==
    LET p == reads[c].path
        shown == ExtractedNow(c, {})
    IN  /\ reads[c] # NoRead /\ now < MaxNow /\ now' = now + 1
        /\ Cacheable(reads[c].key.category) /\ ~shown.error
        /\ cache' = Added(reads[c].key, Entry(shown, whole))
        /\ torn' = IF reads[c].key \in index THEN torn ELSE torn \union {reads[c].key}
        /\ reads' = [d \in DocReaders |-> NoRead] /\ reply' = NoReply
        /\ index' = {} /\ extracted' = Unpacked(shown, p, reads[c].req) /\ UNCHANGED documents

\* The API stops while an entry is written, or before the index is saved.
StopsWriting(c, whole) ==
    LET p == reads[c].path
        shown == ExtractedNow(c, {})
    IN  /\ reads[c] # NoRead /\ now < MaxNow /\ now' = now + 1
        /\ Cacheable(reads[c].key.category) /\ ~shown.error
        /\ cache' = Added(reads[c].key, Entry(shown, whole))
        /\ torn' = IF reads[c].key \in index THEN torn ELSE torn \union {reads[c].key}
        /\ reads' = [d \in DocReaders |-> NoRead] /\ reply' = NoReply
        /\ extracted' = Unpacked(shown, p, reads[c].req) /\ UNCHANGED <<documents, index>>

\* Commands overwrite a document, or remove what was extracted.
Overwrite(p) ==
    /\ now < MaxNow /\ now' = now + 1
    /\ \E doc \in Versions[p] \ {DocName(p)} : documents' = [documents EXCEPT ![p] = <<doc, now>>]
    /\ UNCHANGED <<reads, cache, index, extracted, torn, reply>>

DeleteExtracted(x) ==
    /\ extracted' = extracted \ {x}
    /\ UNCHANGED <<documents, reads, cache, index, now, torn, reply>>

DocumentsNext ==
    \/ \E c \in DocReaders :
          \/ \E p \in DocPaths : \E req \in ReadRequests[p] : BeginRead(c, p, req)
          \/ \E slow \in {{}, {1}} : FinishRead(c, slow, TRUE)
          \/ FinishRead(c, {}, FALSE)
          \/ \E whole \in BOOLEAN : StopsWriting(c, whole)
    \/ \E p \in DocPaths : Overwrite(p)
    \/ \E x \in extracted : DeleteExtracted(x)

DocumentsSpec == DocumentsInit /\ [][DocumentsNext]_documentsVars

-----------------------------------------------------------------------------
DocumentsTypeOK ==
    /\ index \subseteq DOMAIN cache /\ torn \subseteq DOMAIN cache /\ now \in 1 .. MaxNow
    /\ \A c \in DocReaders : reads[c] = NoRead \/ reads[c].path \in DocPaths

\* What a document gives with these arguments.
Gives(p, doc, req, shown) == \E slow \in {{}, {1}} : shown = Extraction(Category(p, doc, req.hint), p, doc, req, slow)

\* A document of another path that began like this one and had its size, when somebody
\* asked for the same of it: the key does not tell them apart, nor does it tell what
\* the other path had when the answer was extracted.
GivesTwin(p, doc, req, shown) ==
    \E q \in DocPaths \ {p} : \E d, e \in Versions[q], r \in ReadRequests[q], slow \in {{}, {1}} :
        /\ Key(q, DocTable[d], 0, r) = Key(p, doc, 0, req)
        /\ shown = Extraction(Category(q, DocTable[d], r.hint), q, DocTable[e], r, slow)

AnswerFor(shown, p, doc, req) == Gives(p, doc, req, shown) \/ GivesTwin(p, doc, req, shown)

\* What is answered from the cache could be extracted now from the document with these
\* arguments, or it is an answer about a document that has the same key.
CachedIsCurrent ==
    reply.kind = "cached" => AnswerFor(reply.shown, reply.path, DocTable[reply.name], reply.req)

\* After an answer was stored the cache is within its limit, unless only files are left
\* that a process could not enter into the index before it stopped.
CacheFits ==
    reply.kind = "stored" =>
        CacheUse(cache, DOMAIN cache) + IndexSize <= CacheSize \/ DOMAIN cache \subseteq torn

\* The two claims below do not hold (see the README).
ExtractedIsThere ==
    reply.kind = "cached" /\ reply.req.mode = "extract" => <<reply.path, reply.req.member>> \in extracted

\* "Last 50 rows": a tail is the end of the table.
TailIsLast ==
    reply.kind = "shown" /\ "rows" \in DOMAIN reply.shown /\ reply.req.rows.how = "tail" =>
        LET all == DocTable[reply.name].rows
        IN  reply.shown.rows = (all - Smaller(reply.req.rows.n, all) + 1) .. all

=============================================================================
