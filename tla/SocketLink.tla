------------------------------ MODULE SocketLink ------------------------------
(***************************************************************************)
(* The socket of one browser tab: the connection socketService keeps, the  *)
(* effects of the page that connect and disconnect it, and the room of the *)
(* user the server puts it into.                                           *)
(*                                                                         *)
(* Two mechanisms reconnect: socket.io's manager, and timers of the        *)
(* service.  Both stop after MaxAttempts failures.                         *)
(***************************************************************************)
EXTENDS Naturals

CONSTANTS
    User,        \* users who log in on this tab
    Tenanted,    \* those of them who belong to a tenant
    Nobody,
    MaxAttempts  \* maxReconnectAttempts, five in the code

ASSUME SocketLinkAssumption ==
    /\ Nobody \notin User
    /\ Tenanted \subseteq User
    /\ MaxAttempts \in Nat \ {0}

VARIABLES
    who,       \* the user of the auth store
    sock,      \* "none" (null), "idle" (nothing tries), "opening" or "open"
    auth,      \* socket.auth: the user the next connection will name
    status,    \* connectionStatus
    attempts,  \* reconnectAttempts, those of the service
    tries,     \* reconnections the manager has begun since it last was connected
    timer,     \* reconnectTimer is running
    room,      \* the user whose room the server has this socket in
    overtaken  \* history: connect() was last called for a user it did not heed, while
               \* the socket was another's

link == <<who, sock, auth, status, attempts, tries, timer, room, overtaken>>

(***************************************************************************)
(* socketService                                                           *)
(***************************************************************************)

Create(u) ==
    /\ sock' = "opening"
    /\ auth' = u
    /\ status' = "connecting"
    /\ tries' = 0
    /\ overtaken' = FALSE
    /\ UNCHANGED <<attempts, timer, room>>

\* connect() does nothing while the first connection is being made, nor with a
\* socket that is there for a user without a tenant
Unheeded(u) ==
    /\ status = "connecting" \/ (sock # "none" /\ u \notin Tenanted)
    /\ overtaken' = (auth # u)
    /\ UNCHANGED <<sock, auth, status, attempts, tries, timer, room>>

BugRenew(u) ==
    /\ status # "connecting" /\ sock # "none" /\ u \in Tenanted
    /\ auth' = u
    /\ overtaken' = FALSE
    /\ UNCHANGED <<attempts, timer, sock, room, status, tries>>

\* A socket that is there gets the user for its next connection, and makes it
\* if it is connected; if it is not, nothing begins to connect it
Renew(u) ==
    /\ status # "connecting" /\ sock # "none" /\ u \in Tenanted
    /\ auth' = u
    /\ overtaken' = FALSE
    /\ IF sock = "open"
       THEN sock' = "opening" /\ room' = Nobody /\ status' = "disconnected" /\ tries' = 0
       ELSE UNCHANGED <<sock, room, status, tries>>
    /\ UNCHANGED <<attempts, timer>>

Connect(u) ==
    \/ Unheeded(u)
    \/ status # "connecting" /\ sock = "none" /\ Create(u)
    \/ Renew(u)

Disconnect ==
    /\ sock' = "none"
    /\ status' = IF sock = "none" THEN status ELSE "disconnected"
    /\ timer' = FALSE
    /\ room' = Nobody
    /\ overtaken' = FALSE
    /\ UNCHANGED <<auth, attempts, tries>>

\* reconnect(): the timer of an earlier call is cleared first
Reconnect ==
    IF attempts < MaxAttempts
    THEN attempts' = attempts + 1 /\ timer' = TRUE
    ELSE timer' = FALSE /\ UNCHANGED attempts

(***************************************************************************)
(* The page                                                                *)
(***************************************************************************)

\* login() of the store, over an earlier user or none; SocketInitializer's
\* effect connects
SignIn(u) ==
    /\ u # who
    /\ who' = u
    /\ Connect(u)

\* logout() of the store, and the same effect
SignOut ==
    /\ who # Nobody
    /\ who' = Nobody
    /\ Disconnect

BugMount ==
    /\ Connect(who)
    /\ UNCHANGED who

\* The effect of a bell that is mounted, or of either when the user's record is
\* replaced by a newer one; on() finds the socket SocketInitializer has made
Mount ==
    /\ who # Nobody
    /\ Connect(who)
    /\ UNCHANGED who

\* The page becomes visible again
Visible ==
    /\ who # Nobody
    /\ sock # "open"
    /\ Connect(who)
    /\ UNCHANGED who

\* The page is loaded again, the auth store persisting
Reload ==
    /\ sock' = IF who = Nobody THEN "none" ELSE "opening"
    /\ auth' = who
    /\ status' = IF who = Nobody THEN "disconnected" ELSE "connecting"
    /\ attempts' = 0
    /\ tries' = 0
    /\ timer' = FALSE
    /\ room' = Nobody
    /\ overtaken' = FALSE
    /\ UNCHANGED who

(***************************************************************************)
(* socket.io and the network                                               *)
(***************************************************************************)

\* The server takes the handshake and joins the socket to the room it names
Opened ==
    /\ sock = "opening"
    /\ sock' = "open"
    /\ room' = auth
    /\ status' = "connected"
    /\ attempts' = 0
    /\ tries' = 0
    /\ UNCHANGED <<who, auth, timer, overtaken>>

BugOpenFails ==
    /\ sock = "opening"
    /\ status' = "error"
    /\ IF status = "error" THEN UNCHANGED <<attempts, timer>> ELSE Reconnect
    /\ IF tries < MaxAttempts
       THEN tries' = tries + 1 /\ UNCHANGED sock
       ELSE tries' = 0 /\ sock' = "idle"
    /\ UNCHANGED <<who, auth, room, overtaken>>

\* connect_error; the manager tries again, or gives up
OpenFails ==
    /\ sock = "opening"
    /\ status' = "error"
    /\ Reconnect
    /\ IF tries < MaxAttempts
       THEN tries' = tries + 1 /\ UNCHANGED sock
       ELSE tries' = 0 /\ sock' = "idle"
    /\ UNCHANGED <<who, auth, room, overtaken>>

\* The connection breaks, and the manager begins to reconnect
Drop ==
    /\ sock = "open"
    /\ sock' = "opening"
    /\ tries' = 1
    /\ status' = "disconnected"
    /\ room' = Nobody
    /\ UNCHANGED <<who, auth, attempts, timer, overtaken>>

\* "io server disconnect": the manager leaves this to the program
Kick ==
    /\ sock = "open"
    /\ sock' = "idle"
    /\ status' = "disconnected"
    /\ room' = Nobody
    /\ Reconnect
    /\ UNCHANGED <<who, auth, tries, overtaken>>

\* The timer of reconnect(): connect() of a socket somebody is connecting, or
\* that is connected, does nothing
TimerFires ==
    /\ timer
    /\ timer' = FALSE
    /\ sock' = IF sock = "idle" THEN "opening" ELSE sock
    /\ UNCHANGED <<who, auth, status, attempts, tries, room, overtaken>>

LinkInit ==
    /\ who \in User \cup {Nobody}
    /\ sock = IF who = Nobody THEN "none" ELSE "opening"
    /\ auth = who
    /\ status = IF who = Nobody THEN "disconnected" ELSE "connecting"
    /\ attempts = 0 /\ tries = 0 /\ timer = FALSE
    /\ room = Nobody /\ overtaken = FALSE

LinkNext ==
    \/ \E u \in User : SignIn(u)
    \/ SignOut \/ Mount \/ Visible \/ Reload
    \/ Opened \/ OpenFails \/ Drop \/ Kick \/ TimerFires

LinkSpec == LinkInit /\ [][LinkNext]_link

(***************************************************************************)
(* Properties                                                              *)
(***************************************************************************)

LinkTypeOK ==
    /\ who \in User \cup {Nobody}
    /\ sock \in {"none", "idle", "opening", "open"}
    /\ auth \in User \cup {Nobody}
    /\ status \in {"disconnected", "connecting", "connected", "error"}
    /\ attempts \in 0 .. MaxAttempts
    /\ tries \in 0 .. MaxAttempts
    /\ timer \in BOOLEAN
    /\ room \in User \cup {Nobody}
    /\ overtaken \in BOOLEAN

\* A connected tab is in the room of the user who is logged in, whoever was before
\* and however often the connection was lost, unless he logged in over another
\* user while that one's first connection was being made (socket.ts:36) or without
\* having a tenant (socket.ts:92): connect() does nothing then, and the tab stays
\* in the other's room until a call of connect() is heeded.
RoomIsOwn == sock = "open" /\ ~overtaken => room = who

\* A tab with a user has a socket, and is not left without a connection, without
\* anybody who tries and without a timer, before the service has used up its
\* attempts: neither mechanism waits for the other one.
KeepsTrying ==
    who # Nobody =>
        \/ sock \in {"open", "opening"}
        \/ sock = "idle" /\ (timer \/ attempts = MaxAttempts)
=============================================================================
