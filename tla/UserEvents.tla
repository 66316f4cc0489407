----------------------------- MODULE UserEvents -----------------------------
(***************************************************************************)
(* GET /auth/me/events: a connection that reads the table of sessions      *)
(* every two seconds and tells the client what changed.  It sees the       *)
(* sessions that were updated last, remembers their statuses from one      *)
(* read to the next, and gives up after too many failures in a row.        *)
(*                                                                         *)
(* The client is what the connection has told it: the last status and the  *)
(* last place in the queue, per session.                                   *)
(***************************************************************************)
EXTENDS Integers, FiniteSets, SequencesExt

CONSTANTS
    Sessions,   \* of one user
    Window,     \* 50 in the code: sessions that a read returns
    MaxErrors,  \* 5 in the code: failures in a row that end the stream
    MaxPlace    \* bounds the places in the queue

UserEventsAssumption == {Window, MaxErrors, MaxPlace} \subseteq Nat \ {0}

ASSUME UserEventsAssumption

NoPlace == 0
ActiveStatuses == {"running", "queued"}
Statuses == ActiveStatuses \cup {"pending", "complete"}

VARIABLES
    stored,  \* session -> [status, place], for those that exist
    recent,  \* their order by updated_at, the last change first
    open,    \* the stream is being served
    known,   \* session_statuses: of the sessions of the last read
    active,  \* active_sessions
    errors,  \* consecutive_errors
    told     \* session -> [status, place], for the sessions of the last read

eventsVars == <<stored, recent, open, known, active, errors, told>>
stream == <<open, known, active, errors, told>>

Connected == known = << >> /\ active = {} /\ errors = 0 /\ told = << >>

EventsInit == stored = << >> /\ recent = << >> /\ open = FALSE /\ Connected

-----------------------------------------------------------------------------
(* The table, which the rest of the program changes                        *)

Store(s, st, p) ==
    /\ stored' = [t \in DOMAIN stored \cup {s} |-> IF t = s THEN [status |-> st, place |-> p] ELSE stored[t]]
    /\ recent' = <<s>> \o SelectSeq(recent, LAMBDA t : t # s)
    /\ UNCHANGED stream

Create(s) == s \notin DOMAIN stored /\ Store(s, "pending", NoPlace)

Enqueue(s, p) ==
    s \in DOMAIN stored /\ stored[s].status \notin ActiveStatuses /\ Store(s, "queued", p)

(* Only a place that differs is stored. *)
MoveUp(s, p) ==
    s \in DOMAIN stored /\ stored[s].status = "queued" /\ p < stored[s].place /\ Store(s, "queued", p)

RunSession(s) == s \in DOMAIN stored /\ stored[s].status # "running" /\ Store(s, "running", NoPlace)

End(s) == s \in DOMAIN stored /\ stored[s].status = "running" /\ Store(s, "complete", NoPlace)

-----------------------------------------------------------------------------
(* The stream                                                              *)

Connect ==
    /\ ~open /\ open' = TRUE
    /\ known' = << >> /\ active' = {} /\ errors' = 0 /\ told' = << >>
    /\ UNCHANGED <<stored, recent>>

SeenSessions == ToSet(SubSeq(recent, 1, IF Len(recent) < Window THEN Len(recent) ELSE Window))
SeenActive == {s \in SeenSessions : stored[s].status \in ActiveStatuses}
Changed == {s \in SeenSessions : s \in DOMAIN known /\ known[s] # stored[s].status}

(* Each changed session has its event; the whole list follows when the     *)
(* running and queued sessions are not those of the last list.  A session  *)
(* that no longer is in the window is forgotten.                           *)
ListIsDueByCount == Cardinality(SeenActive) # Cardinality(active)
ListIsDue == SeenActive # active

Poll ==
    /\ open
    /\ errors' = 0
    /\ told' = [s \in {t \in SeenSessions : ListIsDue \/ t \in Changed \/ t \in DOMAIN told} |->
                   IF ListIsDue \/ s \in Changed THEN stored[s] ELSE told[s]]
    /\ active' = IF ListIsDue THEN SeenActive ELSE active
    /\ known' = [s \in SeenSessions |-> stored[s].status]
    /\ UNCHANGED <<stored, recent, open>>

PollFailsForgets ==
    /\ open
    /\ errors' = errors + 1
    /\ open' = (errors' < MaxErrors)
    /\ known' = << >>
    /\ UNCHANGED <<stored, recent, active, told>>

(* The read fails: nothing is told, and what is known is kept. *)
PollFails ==
    /\ open
    /\ errors' = errors + 1
    /\ open' = (errors' < MaxErrors)
    /\ UNCHANGED <<stored, recent, known, active, told>>

Disconnect == open /\ open' = FALSE /\ UNCHANGED <<stored, recent, known, active, errors, told>>

EventsNext ==
    \/ \E s \in Sessions : Create(s) \/ RunSession(s) \/ End(s)
    \/ \E s \in Sessions, p \in 1 .. MaxPlace : Enqueue(s, p) \/ MoveUp(s, p)
    \/ Connect \/ Poll \/ PollFails \/ Disconnect

EventsSpec == EventsInit /\ [][EventsNext]_eventsVars

-----------------------------------------------------------------------------
(* Properties                                                              *)

StatusRow == [status : Statuses, place : 0 .. MaxPlace]

(* Every variable keeps its type; the order lists exactly the sessions. *)
EventsTypeOK ==
    /\ DOMAIN stored \subseteq Sessions /\ \A s \in DOMAIN stored : stored[s] \in StatusRow
    /\ ToSet(recent) = DOMAIN stored /\ IsInjective(recent)
    /\ open \in BOOLEAN /\ errors \in 0 .. MaxErrors /\ active \subseteq Sessions
    /\ DOMAIN known \subseteq Sessions /\ DOMAIN told \subseteq DOMAIN known
    /\ \A s \in DOMAIN told : told[s] \in StatusRow

(* What the stream has told of a session is what it last read, and it has  *)
(* told of every session that it read as running or queued: no read that   *)
(* fails in between, and no other session that changes, hides a change of  *)
(* a session that stays among the recent ones (auth.py:163-207).           *)
StatusIsTold ==
    \A s \in DOMAIN known :
        s \in DOMAIN told \/ known[s] \in ActiveStatuses => s \in DOMAIN told /\ told[s].status = known[s]

(* "This endpoint provides cross-session updates for: ... Queue position   *)
(* updates" (auth.py:107): right after a read, a queued session's place    *)
(* in the queue is the one that the client was told.  It does not hold: a  *)
(* place that changes alone makes no event.                                *)
PlaceIsTold ==
    [][Poll => \A s \in DOMAIN told' : stored[s].status = "queued" => told'[s] = stored[s]]_eventsVars

=============================================================================
