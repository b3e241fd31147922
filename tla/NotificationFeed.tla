--------------------------- MODULE NotificationFeed ---------------------------
(***************************************************************************)
(* The notifications of a tab: rows of the server, events that reach the   *)
(* tab through the socket of SocketLink, and the list and the unread       *)
(* counter of the notification store, which the answers of the API change  *)
(* too.                                                                    *)
(*                                                                         *)
(* Events and answers travel on different connections, so they overtake    *)
(* each other.  Nothing is sent again after a connection was lost, and     *)
(* nothing is fetched again but by a mount.                                *)
(*                                                                         *)
(* The order of the list is left out: a note is in it some times unread    *)
(* (newer, nearer the top) and some times read.                            *)
(***************************************************************************)
EXTENDS SocketLink, Integers, FiniteSets

CONSTANTS
    Note,     \* every notification there will be
    For,      \* the recipient of each
    Flow,     \* the calls the tab has under way at once
    NoNote,
    MaxEars   \* bound on the mounts of the bell between two loads of the page

ASSUME NotificationFeedAssumption ==
    /\ IsFiniteSet(Note)
    /\ For \in [Note -> User]
    /\ NoNote \notin Note
    /\ MaxEars \in Nat

VARIABLES
    row,     \* "none", "unread", "read" or "gone" (archived) on the server
    unsent,  \* notes that are saved, their events not yet sent
    wire,    \* the notes whose events are on their way to this tab
    ears,    \* the listeners setupSocketListeners has added; none is ever removed
    list,    \* notifications: how often each is listed as unread and as read
    unread,  \* unreadCount
    call,    \* what each flow waits for
    exact    \* history: since its last fetch began the tab was told everything
             \* once, and nothing crossed a call it could spoil

feed == <<row, unsent, wire, ears, list, unread, call, exact>>
vars == <<link, feed>>

Entry(new, old) == [new |-> new, old |-> old]
Empty == [n \in Note |-> Entry(0, 0)]
Listed(n) == list[n] # Entry(0, 0)

\* by: whose token the call carries.  snap: the rows a fetch is answered with.
Calling(op, note, by, ans, snap) ==
    [op |-> op, note |-> note, by |-> by, ans |-> ans, snap |-> snap]
NoCall == Calling("none", NoNote, Nobody, "none", Empty)

Quiet == \A f \in Flow : call[f].op = "none"

\* Calls whose answers replace or mark the whole list
Sweeping == \E f \in Flow : call[f].op \in {"fetch", "readAll"}

(***************************************************************************)
(* The server                                                              *)
(***************************************************************************)

Answer(f, ans, snap) ==
    call' = [call EXCEPT ![f] = Calling(call[f].op, call[f].note, call[f].by, ans, snap)]

Delivered(n) == sock = "open" /\ room = For[n]

\* Events that are to come to the tab, or should
Awaited == wire \cup {n \in unsent : For[n] = who}

\* create(): the row is saved ...
Notify(n) ==
    /\ row[n] = "none"
    /\ row' = [row EXCEPT ![n] = "unread"]
    /\ unsent' = unsent \cup {n}
    /\ exact' = (exact /\ (For[n] = who => \A f \in Flow : call[f].op # "readAll"))
    /\ UNCHANGED <<link, wire, ears, list, unread, call>>

\* ... and then the event goes to the recipient's room, ...
Emit(n) ==
    /\ n \in unsent
    /\ unsent' = unsent \ {n}
    /\ wire' = IF Delivered(n) THEN wire \cup {n} ELSE wire
    /\ exact' = (exact /\ (For[n] = who <=> Delivered(n)) /\ (For[n] = who => ears = 1))
    /\ UNCHANGED <<link, row, ears, list, unread, call>>

\* ... unless the server stops in between
StopServer ==
    /\ unsent # {}
    /\ unsent' = {}
    /\ exact' = (exact /\ \A n \in unsent : For[n] # who)
    /\ UNCHANGED <<link, row, wire, ears, list, unread, call>>

\* The user reads or archives one on another device
Elsewhere(n) ==
    /\ row[n] \in {"unread", "read"}
    /\ row' \in {[row EXCEPT ![n] = "read"], [row EXCEPT ![n] = "gone"]}
    /\ exact' = (exact /\ For[n] # who)
    /\ UNCHANGED <<link, unsent, wire, ears, list, unread, call>>

\* findAll: what is not archived
Rows(u) ==
    [n \in Note |-> IF For[n] # u THEN Entry(0, 0)
                    ELSE Entry(IF row[n] = "unread" THEN 1 ELSE 0, IF row[n] = "read" THEN 1 ELSE 0)]

ServeFetch(f) ==
    /\ call[f].op = "fetch" /\ call[f].ans = "none"
    /\ Answer(f, "ok", Rows(call[f].by))
    /\ UNCHANGED row

\* markAsRead loads the row, and save() makes its columns those of what was loaded,
\* which takes back an archiving it had not seen, unless that comes so late that
\* save() has already compared
LoadRow(f) ==
    /\ call[f].op = "read" /\ call[f].ans = "none"
    /\ Answer(f, row[call[f].note], Empty)
    /\ UNCHANGED row

SaveRead(f) ==
    LET n == call[f].note IN
    /\ call[f].ans \in {"unread", "read", "gone"}
    /\ \/ row' = [row EXCEPT ![n] = IF call[f].ans = "gone" THEN "gone" ELSE "read"]
       \/ row[n] = "gone" /\ UNCHANGED row
    /\ Answer(f, "ok", Empty)

ServeArchive(f) ==
    /\ call[f].op = "archive" /\ call[f].ans = "none"
    /\ row' = [row EXCEPT ![call[f].note] = "gone"]
    /\ Answer(f, "ok", Empty)

\* markAllAsRead is one UPDATE
ServeReadAll(f) ==
    /\ call[f].op = "readAll" /\ call[f].ans = "none"
    /\ row' = [n \in Note |-> IF For[n] = call[f].by /\ row[n] = "unread" THEN "read" ELSE row[n]]
    /\ Answer(f, "ok", Empty)

Serve(f) ==
    /\ ServeFetch(f) \/ LoadRow(f) \/ SaveRead(f) \/ ServeArchive(f) \/ ServeReadAll(f)
    /\ UNCHANGED <<link, unsent, wire, ears, list, unread, exact>>

(***************************************************************************)
(* The store                                                               *)
(***************************************************************************)

Ask(f, op, note) ==
    /\ call[f].op = "none"
    /\ call' = [call EXCEPT ![f] = Calling(op, note, who, "none", Empty)]

\* NotificationBell's effect: fetchNotifications, setupSocketListeners, connect
MountBell(f) ==
    /\ Mount
    /\ ears < MaxEars
    /\ ears' = ears + 1
    /\ Ask(f, "fetch", NoNote)
    /\ exact' = (Quiet /\ Awaited = {})
    /\ UNCHANGED <<row, unsent, wire, list, unread>>

\* A click on one that is shown as unread, or on its archive button
AskOne(f, op, n) ==
    /\ who # Nobody
    /\ IF op = "read" THEN list[n].new > 0 ELSE Listed(n)
    /\ Ask(f, op, n)
    /\ exact' = (exact /\ ~Sweeping /\ \A g \in Flow : call[g].note # n)
    /\ UNCHANGED <<link, row, unsent, wire, ears, list, unread>>

\* "Mark all as read", shown beside a count above zero
AskAll(f) ==
    /\ who # Nobody
    /\ unread > 0
    /\ Ask(f, "readAll", NoNote)
    /\ exact' = (exact /\ Quiet /\ Awaited = {})
    /\ UNCHANGED <<link, row, unsent, wire, ears, list, unread>>

\* Of a list that shows each note once
Unread(l) == Cardinality({n \in Note : l[n].new > 0})

\* addNotification, by every listener
Hear(n) ==
    /\ n \in wire
    /\ wire' = wire \ {n}
    /\ list' = [list EXCEPT ![n] = Entry(list[n].new + ears, list[n].old)]
    /\ unread' = unread + ears
    /\ UNCHANGED <<link, row, unsent, ears, call, exact>>

\* What is there is listed in the answer or still to be announced, not both
ToldOnce(snap) ==
    \A n \in Note : For[n] = who /\ row[n] \in {"unread", "read"} =>
        (n \in Awaited <=> snap[n] = Entry(0, 0))

TakeFetch(f) ==
    /\ call[f].op = "fetch"
    /\ exact' = (exact /\ ToldOnce(call[f].snap))
    /\ list' = call[f].snap
    /\ unread' = Unread(call[f].snap)

AllRead(entry) == Entry(0, entry.new + entry.old)

\* The count goes down by one, whatever was read by then, but not below zero
TakeRead(f) ==
    /\ call[f].op = "read"
    /\ list' = [list EXCEPT ![call[f].note] = AllRead(list[call[f].note])]
    /\ unread' = IF unread > 0 THEN unread - 1 ELSE 0

BugTakeArchive(f) ==
    LET n == call[f].note IN
    /\ call[f].op = "archive"
    /\ list' = [list EXCEPT ![n] = Entry(0, 0)]
    /\ unread' = IF unread > 0 THEN unread - 1 ELSE 0

\* The count goes down by one if the first one with this id is unread
TakeArchive(f) ==
    LET n == call[f].note IN
    /\ call[f].op = "archive"
    /\ list' = [list EXCEPT ![n] = Entry(0, 0)]
    /\ unread' = IF list[n].new > 0 THEN unread - 1 ELSE unread

TakeReadAll(f) ==
    /\ call[f].op = "readAll"
    /\ list' = [n \in Note |-> AllRead(list[n])]
    /\ unread' = 0

Take(f) ==
    /\ call[f].ans = "ok"
    /\ TakeFetch(f) \/ ((TakeRead(f) \/ TakeArchive(f) \/ TakeReadAll(f)) /\ UNCHANGED exact)
    /\ call' = [call EXCEPT ![f] = NoCall]
    /\ UNCHANGED <<link, row, unsent, wire, ears>>

\* A call fails before or after the server has done it: only `error` is set
Miss(f) ==
    /\ call[f].op # "none"
    /\ call' = [call EXCEPT ![f] = NoCall]
    /\ exact' = (exact /\ call[f].op # "fetch" /\ call[f].ans # "ok")
    /\ UNCHANGED <<link, row, unsent, wire, ears, list, unread>>

(***************************************************************************)
(* The link, for what it does to events                                    *)
(***************************************************************************)

\* A socket that is closed loses what is on its way
Cut(step) ==
    /\ step
    /\ wire' = IF sock' = "open" THEN wire ELSE {}
    /\ exact' = (exact /\ wire' = wire /\ who' = who)
    /\ UNCHANGED <<row, unsent, ears, list, unread, call>>

LinkStep ==
    \/ \E u \in User : Cut(SignIn(u))
    \/ Cut(SignOut) \/ Cut(Visible)
    \/ Cut(Opened) \/ Cut(OpenFails) \/ Cut(Drop) \/ Cut(Kick) \/ Cut(TimerFires)

\* Memory is gone; the list was never persisted
ReloadPage ==
    /\ Reload
    /\ wire' = {} /\ ears' = 0 /\ list' = Empty /\ unread' = 0
    /\ call' = [f \in Flow |-> NoCall]
    /\ exact' = FALSE
    /\ UNCHANGED <<row, unsent>>

Init ==
    /\ LinkInit
    /\ row = [n \in Note |-> "none"]
    /\ unsent = {} /\ wire = {} /\ ears = 0 /\ list = Empty /\ unread = 0
    /\ call = [f \in Flow |-> NoCall]
    /\ exact = FALSE

Next ==
    \/ LinkStep \/ ReloadPage \/ StopServer
    \/ \E n \in Note : Notify(n) \/ Emit(n) \/ Elsewhere(n) \/ Hear(n)
    \/ \E f \in Flow : MountBell(f) \/ AskAll(f) \/ Serve(f) \/ Take(f) \/ Miss(f)
    \/ \E f \in Flow, op \in {"read", "archive"}, n \in Note : AskOne(f, op, n)

Spec == Init /\ [][Next]_vars

(***************************************************************************)
(* Properties                                                              *)
(***************************************************************************)

Lists == [Note -> [new : Nat, old : Nat]]

\* Type invariant: a call that waits has a user.
TypeOK ==
    /\ LinkTypeOK
    /\ row \in [Note -> {"none", "unread", "read", "gone"}]
    /\ unsent \subseteq Note /\ wire \subseteq Note
    /\ ears \in 0 .. MaxEars
    /\ list \in Lists
    /\ unread \in Int
    /\ exact \in BOOLEAN
    /\ \A f \in Flow :
        /\ call[f].op \in {"none", "fetch", "read", "archive", "readAll"}
        /\ call[f].ans \in {"none", "unread", "read", "gone", "ok"}
        /\ call[f].snap \in Lists
        /\ call[f].op # "none" => call[f].by \in User
        /\ call[f].op \in {"read", "archive"} => call[f].note \in Note

\* When all is answered, sent and heard, the list shows exactly what the server
\* has and the bell counts what is unread in it, provided that since the last fetch
\* began no event was lost or heard twice, its answer told the tab of each note
\* that is not announced, and no calls crossed that mark the same one.  Notes may be
\* saved, announced and heard in any order while it fetches, reads or archives.
BellExact ==
    exact /\ Quiet /\ Awaited = {} =>
        list = Rows(who) /\ unread = Unread(list)
=============================================================================
