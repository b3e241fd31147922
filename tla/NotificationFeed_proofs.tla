------------------------ MODULE NotificationFeed_proofs ------------------------
(***************************************************************************)
(* Proofs about SocketLink, alone and under the notifications of a tab,    *)
(* and about what an exact tab shows.                                      *)
(*                                                                         *)
(* LinkInv is inductive for the link, and the notifications only make its  *)
(* steps.  For BellExact the invariant (Told) says of every note where it  *)
(* is: shown as the server has it, to be announced, or the business of the *)
(* one call that is about it, asked, loaded or served; and of an answer    *)
(* with the rows, that it is wrong only about notes that are new.          *)
(***************************************************************************)
EXTENDS NotificationFeed, FiniteSetTheorems, TLAPS

(***************************************************************************)
(* The link                                                                *)
(***************************************************************************)

\* What ties the socket, its status and the user together: a connection that is
\* open is the one auth names, the service says "connecting" only while its first
\* connection is being made, and auth names the user unless he was overtaken.
Wired ==
    /\ sock = "open" => room = auth /\ status = "connected"
    /\ status = "connecting" => sock = "opening"
    /\ ~overtaken /\ sock # "none" => auth = who
    /\ who = Nobody => sock = "none"

LinkInv == LinkTypeOK /\ Wired /\ KeepsTrying

USE SocketLinkAssumption DEF SocketLinkAssumption

LEMMA LinkInitInv == LinkInit => LinkInv
<1> SUFFICES ASSUME LinkInit PROVE LinkInv
  OBVIOUS
<1>1. LinkTypeOK
  <2>1. attempts \in 0 .. MaxAttempts /\ tries \in 0 .. MaxAttempts
    BY DEF LinkInit
  <2>2. timer \in BOOLEAN /\ overtaken \in BOOLEAN
    BY DEF LinkInit
  <2> QED BY <2>1, <2>2 DEF LinkInit, LinkTypeOK
<1>2. Wired
  BY DEF LinkInit, Wired
<1>3. KeepsTrying
  BY DEF LinkInit, KeepsTrying
<1> QED BY <1>1, <1>2, <1>3 DEF LinkInv

\* connect(), whoever calls it for the user of the page
LEMMA ConnectInv ==
    ASSUME LinkInv, NEW u \in User, who' = u, Connect(u)
    PROVE  LinkInv'
<1>1. CASE Unheeded(u)
  BY <1>1 DEF Unheeded, LinkInv, LinkTypeOK, Wired, KeepsTrying
<1>2. CASE status # "connecting" /\ sock = "none" /\ Create(u)
  <2>1. LinkTypeOK'
    <3>1. attempts' \in 0 .. MaxAttempts /\ tries' \in 0 .. MaxAttempts
      BY <1>2 DEF Create, LinkInv, LinkTypeOK
    <3>2. timer' \in BOOLEAN /\ overtaken' \in BOOLEAN
      BY <1>2 DEF Create, LinkInv, LinkTypeOK
    <3> QED BY <1>2, <3>1, <3>2 DEF Create, LinkInv, LinkTypeOK
  <2>2. Wired'
    BY <1>2 DEF Create, LinkInv, LinkTypeOK, Wired
  <2>3. KeepsTrying'
    BY <1>2 DEF Create, KeepsTrying
  <2> QED BY <2>1, <2>2, <2>3 DEF LinkInv
<1>3. CASE Renew(u)
  <2>1. LinkTypeOK'
    <3>1. attempts' \in 0 .. MaxAttempts /\ tries' \in 0 .. MaxAttempts
      BY <1>3 DEF Renew, LinkInv, LinkTypeOK
    <3>2. timer' \in BOOLEAN /\ overtaken' \in BOOLEAN
      BY <1>3 DEF Renew, LinkInv, LinkTypeOK
    <3> QED BY <1>3, <3>1, <3>2 DEF Renew, LinkInv, LinkTypeOK
  <2>2. Wired'
    BY <1>3 DEF Renew, LinkInv, LinkTypeOK, Wired
  <2>3. KeepsTrying'
    BY <1>3 DEF Renew, LinkInv, Wired, KeepsTrying
  <2> QED BY <2>1, <2>2, <2>3 DEF LinkInv
<1> QED BY <1>1, <1>2, <1>3 DEF Connect

LEMMA LinkNextInv == LinkInv /\ [LinkNext]_link => LinkInv'
<1> SUFFICES ASSUME LinkInv, [LinkNext]_link PROVE LinkInv'
  OBVIOUS
<1>1. ASSUME NEW u \in User, SignIn(u) PROVE LinkInv'
  BY <1>1, ConnectInv DEF SignIn
<1>2. CASE SignOut
  BY <1>2 DEF SignOut, Disconnect, LinkInv, LinkTypeOK, Wired, KeepsTrying
<1>3. CASE Mount
  BY <1>3, ConnectInv DEF Mount, LinkInv, LinkTypeOK
<1>4. CASE Visible
  BY <1>4, ConnectInv DEF Visible, LinkInv, LinkTypeOK
<1>5. CASE Reload
  <2>1. LinkTypeOK'
    <3>1. attempts' \in 0 .. MaxAttempts /\ tries' \in 0 .. MaxAttempts
      BY <1>5 DEF Reload, LinkInv, LinkTypeOK
    <3>2. timer' \in BOOLEAN /\ overtaken' \in BOOLEAN
      BY <1>5 DEF Reload, LinkInv, LinkTypeOK
    <3> QED BY <1>5, <3>1, <3>2 DEF Reload, LinkInv, LinkTypeOK
  <2>2. Wired'
    BY <1>5 DEF Reload, Wired
  <2>3. KeepsTrying'
    BY <1>5 DEF Reload, KeepsTrying
  <2> QED BY <2>1, <2>2, <2>3 DEF LinkInv
<1>6. CASE Opened
  BY <1>6 DEF Opened, LinkInv, LinkTypeOK, Wired, KeepsTrying
<1>7. CASE OpenFails
  <2>1. LinkTypeOK'
    <3>1. attempts' \in 0 .. MaxAttempts /\ tries' \in 0 .. MaxAttempts
      BY <1>7 DEF OpenFails, Reconnect, LinkInv, LinkTypeOK
    <3>2. timer' \in BOOLEAN
      BY <1>7 DEF OpenFails, Reconnect
    <3> QED BY <1>7, <3>1, <3>2 DEF OpenFails, LinkInv, LinkTypeOK
  <2>2. Wired'
    BY <1>7 DEF OpenFails, LinkInv, Wired
  <2>3. KeepsTrying'
    BY <1>7 DEF OpenFails, Reconnect, LinkInv, LinkTypeOK, Wired, KeepsTrying
  <2> QED BY <2>1, <2>2, <2>3 DEF LinkInv
<1>8. CASE Drop
  BY <1>8 DEF Drop, LinkInv, LinkTypeOK, Wired, KeepsTrying
<1>9. CASE Kick
  <2>1. LinkTypeOK'
    <3>1. attempts' \in 0 .. MaxAttempts
      BY <1>9 DEF Kick, Reconnect, LinkInv, LinkTypeOK
    <3>2. timer' \in BOOLEAN
      BY <1>9 DEF Kick, Reconnect
    <3> QED BY <1>9, <3>1, <3>2 DEF Kick, LinkInv, LinkTypeOK
  <2>2. Wired'
    BY <1>9 DEF Kick, LinkInv, Wired
  <2>3. KeepsTrying'
    BY <1>9 DEF Kick, Reconnect, LinkInv, LinkTypeOK, KeepsTrying
  <2> QED BY <2>1, <2>2, <2>3 DEF LinkInv
<1>10. CASE TimerFires
  BY <1>10 DEF TimerFires, LinkInv, LinkTypeOK, Wired, KeepsTrying
<1>11. CASE UNCHANGED link
  BY <1>11 DEF link, LinkInv, LinkTypeOK, Wired, KeepsTrying
<1> QED BY <1>1, <1>2, <1>3, <1>4, <1>5, <1>6, <1>7, <1>8, <1>9, <1>10, <1>11 DEF LinkNext

\* What holds of the link in every run of the page: the socket is the user's own,
\* and the two mechanisms that reconnect it never both wait (socket.ts).
THEOREM LinkInvCorrect == LinkSpec => []LinkInv
<1>1. LinkInit => LinkInv
  BY LinkInitInv
<1>2. LinkInv /\ [LinkNext]_link => LinkInv'
  BY LinkNextInv
<1> QED BY <1>1, <1>2, PTL DEF LinkSpec

LEMMA WiredRoom == LinkInv => RoomIsOwn
BY DEF LinkInv, Wired, RoomIsOwn

(***************************************************************************)
(* The link under the notifications                                        *)
(***************************************************************************)

LEMMA FeedStep == [Next]_vars => [LinkNext]_link
<1> SUFFICES ASSUME [Next]_vars PROVE [LinkNext]_link
  OBVIOUS
<1>1. CASE LinkStep
  BY <1>1 DEF LinkStep, Cut, LinkNext
<1>2. CASE ReloadPage
  BY <1>2 DEF ReloadPage, LinkNext
<1>3. ASSUME StopServer \/ \E n \in Note : Notify(n) \/ Emit(n) \/ Elsewhere(n) \/ Hear(n)
      PROVE  UNCHANGED link
  BY <1>3 DEF StopServer, Notify, Emit, Elsewhere, Hear
<1>4. ASSUME NEW f \in Flow, MountBell(f) PROVE LinkNext
  BY <1>4 DEF MountBell, LinkNext
<1>5. ASSUME NEW f \in Flow, AskAll(f) \/ Serve(f) \/ Take(f) \/ Miss(f) PROVE UNCHANGED link
  BY <1>5 DEF AskAll, Serve, Take, Miss
<1>6. ASSUME NEW f \in Flow, NEW op \in {"read", "archive"}, NEW n \in Note, AskOne(f, op, n)
      PROVE  UNCHANGED link
  BY <1>6 DEF AskOne
<1>7. CASE UNCHANGED vars
  BY <1>7 DEF vars
<1> QED BY <1>1, <1>2, <1>3, <1>4, <1>5, <1>6, <1>7 DEF Next

\* The store and the API only ever do to the socket what the link may do: the
\* notifications of a tab implement its link.
THEOREM ImplementsLinkCorrect == Spec => LinkSpec
<1>1. Init => LinkInit
  BY DEF Init
<1>2. [Next]_vars => [LinkNext]_link
  BY FeedStep
<1> QED BY <1>1, <1>2, PTL DEF Spec, LinkSpec

\* The connection of a tab is in the room of the user it shows unless he logged
\* in over another whose first connection was being made or has no tenant, for any
\* number of users with and without one, attempts, notifications and calls
\* (SocketInitializer, connect of socket.ts, handleConnection).
THEOREM RoomIsOwnCorrect == Spec => []RoomIsOwn
BY ImplementsLinkCorrect, LinkInvCorrect, WiredRoom, PTL

\* A tab with a user has a connection, or somebody who tries to make one, until
\* the attempts are used up, whatever its notifications do (connect and reconnect
\* of socket.ts).
THEOREM KeepsTryingCorrect == Spec => []KeepsTrying
<1>1. LinkInv => KeepsTrying
  BY DEF LinkInv
<1> QED BY <1>1, ImplementsLinkCorrect, LinkInvCorrect, PTL

(***************************************************************************)
(* Types                                                                   *)
(***************************************************************************)

Ops == {"none", "fetch", "read", "archive", "readAll"}
Answers == {"none", "unread", "read", "gone", "ok"}
Entries == [new : Nat, old : Nat]
Calls == [op : Ops, note : Note \cup {NoNote}, by : User \cup {Nobody}, ans : Answers, snap : Lists]

LEMMA EntryFields ==
  ASSUME NEW new \in Nat, NEW old \in Nat
  PROVE  Entry(new, old) \in Entries /\ Entry(new, old).new = new /\ Entry(new, old).old = old
BY DEF Entry, Entries

LEMMA EntriesFields ==
  ASSUME NEW e \in Entries
  PROVE  e.new \in Nat /\ e.old \in Nat /\ e = Entry(e.new, e.old)
BY DEF Entry, Entries

LEMMA ListsEntries == Lists = [Note -> Entries]
BY DEF Lists, Entries

LEMMA CallingFields ==
  ASSUME NEW op \in Ops, NEW note \in Note \cup {NoNote}, NEW by \in User \cup {Nobody},
         NEW ans \in Answers, NEW snap \in Lists
  PROVE  LET c == Calling(op, note, by, ans, snap)
         IN  /\ c \in Calls /\ c.op = op /\ c.note = note /\ c.by = by /\ c.ans = ans /\ c.snap = snap
BY DEF Calling, Calls

LEMMA CallsFields ==
  ASSUME NEW c \in Calls
  PROVE  /\ c.op \in Ops /\ c.note \in Note \cup {NoNote} /\ c.by \in User \cup {Nobody}
         /\ c.ans \in Answers /\ c.snap \in Lists
BY DEF Calls

LEMMA EmptyFields == Empty \in Lists
<1>1. Entry(0, 0) \in Entries
  BY EntryFields
<1> QED BY <1>1, ListsEntries DEF Empty

LEMMA NoCallFields ==
  /\ NoCall \in Calls /\ NoCall.op = "none" /\ NoCall.note = NoNote /\ NoCall.ans = "none"
  /\ NoCall.snap = Empty
<1>1. "none" \in Ops /\ "none" \in Answers
  BY DEF Ops, Answers
<1> QED BY <1>1, CallingFields, EmptyFields DEF NoCall

LEMMA RowsFields == ASSUME NEW u PROVE Rows(u) \in Lists
<1>1. \A x, y \in {0, 1} : Entry(x, y) \in Entries
  BY EntryFields
<1>2. Entry(0, 0) \in Entries
  BY <1>1
<1>3. \A n \in Note : Entry(IF row[n] = "unread" THEN 1 ELSE 0, IF row[n] = "read" THEN 1 ELSE 0) \in Entries
  BY <1>1
<1> QED BY <1>2, <1>3, ListsEntries DEF Rows

LEMMA UnreadNat == ASSUME NEW l PROVE Unread(l) \in Nat
BY FS_Subset, FS_CardinalityType, NotificationFeedAssumption DEF Unread, NotificationFeedAssumption

\* Only a call on one note names one, and only markAsRead answers with what it loaded
WellCall(c) ==
    /\ c.op # "none" => c.by \in User
    /\ c.op \in {"read", "archive"} <=> c.note \in Note
    /\ c.op = "none" => c.ans = "none"
    /\ c.ans \in {"unread", "read", "gone"} => c.op = "read"

StoreTyped == ears \in 0 .. MaxEars /\ list \in Lists /\ unread \in Int
CallsTyped == call \in [Flow -> Calls] /\ \A f \in Flow : WellCall(call[f])
RowsTyped ==
    row \in [Note -> {"none", "unread", "read", "gone"}] /\ unsent \subseteq Note /\ wire \subseteq Note
FeedTyped == StoreTyped /\ CallsTyped /\ RowsTyped /\ exact \in BOOLEAN

LEMMA CallFields ==
  ASSUME CallsTyped, NEW f \in Flow
  PROVE  /\ call[f] \in Calls /\ WellCall(call[f])
         /\ call[f].op \in Ops /\ call[f].note \in Note \cup {NoNote} /\ call[f].by \in User \cup {Nobody}
         /\ call[f].ans \in Answers /\ call[f].snap \in Lists
BY CallsFields DEF CallsTyped

\* What becomes of flow f, the others as they were
Becomes(f, c) ==
    c \in Calls /\ call' \in [Flow -> Calls] /\ call'[f] = c /\ \A g \in Flow \ {f} : call'[g] = call[g]

Answered(f, ans, snap) ==
    \E c \in Calls :
        /\ Becomes(f, c) /\ c.ans = ans /\ c.snap = snap
        /\ c.op = call[f].op /\ c.note = call[f].note /\ c.by = call[f].by

Asked(f, op, note) ==
    /\ call[f].op = "none"
    /\ \E c \in Calls : Becomes(f, c) /\ c.op = op /\ c.note = note /\ c.by = who /\ c.ans = "none"

LEMMA AnswerDoes ==
  ASSUME CallsTyped, NEW f \in Flow, NEW ans \in Answers, NEW snap \in Lists, Answer(f, ans, snap)
  PROVE  Answered(f, ans, snap)
<1>1. PICK op \in Ops, note \in Note \cup {NoNote}, by \in User \cup {Nobody} :
        op = call[f].op /\ note = call[f].note /\ by = call[f].by
  BY CallFields
<1>2. PICK c \in Calls : /\ c = Calling(op, note, by, ans, snap)
                         /\ c.op = op /\ c.note = note /\ c.by = by /\ c.ans = ans /\ c.snap = snap
  BY CallingFields
<1>3. call' = [call EXCEPT ![f] = c]
  BY <1>1, <1>2 DEF Answer
<1>4. Becomes(f, c)
  BY <1>3 DEF Becomes, CallsTyped
<1> QED BY <1>1, <1>2, <1>4 DEF Answered

LEMMA AskDoes ==
  ASSUME CallsTyped, NEW f \in Flow, NEW op \in Ops, NEW note \in Note \cup {NoNote},
         who \in User, Ask(f, op, note)
  PROVE  Asked(f, op, note)
<1>1. "none" \in Answers /\ who \in User \cup {Nobody}
  BY DEF Answers
<1>2. PICK c \in Calls : c = Calling(op, note, who, "none", Empty)
  BY <1>1, EmptyFields, CallingFields
<1>3. c.op = op /\ c.note = note /\ c.by = who /\ c.ans = "none"
  BY <1>1, <1>2, EmptyFields, CallingFields
<1>4. call[f].op = "none" /\ call' = [call EXCEPT ![f] = c]
  BY <1>2 DEF Ask
<1>5. Becomes(f, c)
  BY <1>4 DEF Becomes, CallsTyped
<1> QED BY <1>3, <1>4, <1>5 DEF Asked

LEMMA OverDoes ==
  ASSUME CallsTyped, NEW f \in Flow, call' = [call EXCEPT ![f] = NoCall]
  PROVE  Becomes(f, NoCall)
BY NoCallFields DEF Becomes, CallsTyped

LEMMA BecomesWell ==
  ASSUME CallsTyped, NEW f \in Flow, NEW c, Becomes(f, c), WellCall(c)
  PROVE  CallsTyped'
BY DEF CallsTyped, Becomes

LEMMA AskedWell ==
  ASSUME CallsTyped, NEW f \in Flow, NEW op, NEW note, Asked(f, op, note), who \in User,
         op \in {"read", "archive"} <=> note \in Note, op # "none"
  PROVE  CallsTyped'
<1>1. PICK c \in Calls : Becomes(f, c) /\ c.op = op /\ c.note = note /\ c.by = who /\ c.ans = "none"
  BY DEF Asked
<1>2. WellCall(c)
  BY <1>1 DEF WellCall
<1> QED BY <1>1, <1>2, BecomesWell

LEMMA AnsweredWell ==
  ASSUME CallsTyped, NEW f \in Flow, NEW ans, NEW snap, Answered(f, ans, snap), call[f].op # "none",
         ans \in {"unread", "read", "gone"} => call[f].op = "read"
  PROVE  CallsTyped'
<1>1. PICK c \in Calls :
        /\ Becomes(f, c) /\ c.ans = ans
        /\ c.op = call[f].op /\ c.note = call[f].note /\ c.by = call[f].by
  BY DEF Answered
<1>2. WellCall(call[f])
  BY CallFields
<1>3. WellCall(c)
  BY <1>1, <1>2 DEF WellCall
<1> QED BY <1>1, <1>3, BecomesWell

LEMMA OverWell ==
  ASSUME CallsTyped, NEW f \in Flow, call' = [call EXCEPT ![f] = NoCall]
  PROVE  CallsTyped'
<1>1. WellCall(NoCall)
  BY NoCallFields, NotificationFeedAssumption DEF WellCall, NotificationFeedAssumption
<1> QED BY <1>1, OverDoes, BecomesWell

(***************************************************************************)
(* What the server does with a call                                        *)
(***************************************************************************)

LEMMA ServeFetchDoes ==
  ASSUME FeedTyped, NEW f \in Flow, ServeFetch(f)
  PROVE  /\ call[f].op = "fetch" /\ call[f].ans = "none" /\ UNCHANGED row
         /\ Answered(f, "ok", Rows(call[f].by))
<1>1. PICK snap \in Lists : snap = Rows(call[f].by)
  BY RowsFields
<1>2. Answered(f, "ok", snap)
  BY <1>1, AnswerDoes DEF ServeFetch, Answers, FeedTyped
<1> QED BY <1>1, <1>2 DEF ServeFetch

LEMMA LoadRowDoes ==
  ASSUME FeedTyped, NEW f \in Flow, LoadRow(f)
  PROVE  /\ call[f].op = "read" /\ call[f].ans = "none" /\ UNCHANGED row /\ call[f].note \in Note
         /\ Answered(f, row[call[f].note], Empty)
<1>1. call[f].note \in Note
  BY CallFields DEF LoadRow, FeedTyped, WellCall
<1>2. PICK ans \in Answers : ans = row[call[f].note]
  BY <1>1 DEF FeedTyped, RowsTyped, Answers
<1>3. Answered(f, ans, Empty)
  BY <1>2, AnswerDoes, EmptyFields DEF LoadRow, FeedTyped
<1> QED BY <1>1, <1>2, <1>3 DEF LoadRow

LEMMA SaveReadDoes ==
  ASSUME FeedTyped, NEW f \in Flow, SaveRead(f)
  PROVE  /\ call[f].op = "read" /\ call[f].ans \in {"unread", "read", "gone"} /\ call[f].note \in Note
         /\ Answered(f, "ok", Empty)
         /\ \/ row' = [row EXCEPT ![call[f].note] = IF call[f].ans = "gone" THEN "gone" ELSE "read"]
            \/ row[call[f].note] = "gone" /\ UNCHANGED row
<1>1. call[f].ans \in {"unread", "read", "gone"}
  BY DEF SaveRead
<1>2. call[f].op = "read" /\ call[f].note \in Note
  BY <1>1, CallFields DEF FeedTyped, WellCall
<1>3. Answered(f, "ok", Empty)
  BY AnswerDoes, EmptyFields DEF SaveRead, FeedTyped, Answers
<1> QED BY <1>1, <1>2, <1>3 DEF SaveRead

LEMMA ServeArchiveDoes ==
  ASSUME FeedTyped, NEW f \in Flow, ServeArchive(f)
  PROVE  /\ call[f].op = "archive" /\ call[f].ans = "none" /\ call[f].note \in Note
         /\ Answered(f, "ok", Empty) /\ row' = [row EXCEPT ![call[f].note] = "gone"]
<1>1. call[f].op = "archive" /\ call[f].note \in Note
  BY CallFields DEF ServeArchive, FeedTyped, WellCall
<1>2. Answered(f, "ok", Empty)
  BY AnswerDoes, EmptyFields DEF ServeArchive, FeedTyped, Answers
<1> QED BY <1>1, <1>2 DEF ServeArchive

LEMMA ServeReadAllDoes ==
  ASSUME FeedTyped, NEW f \in Flow, ServeReadAll(f)
  PROVE  /\ call[f].op = "readAll" /\ call[f].ans = "none"
         /\ Answered(f, "ok", Empty)
         /\ row' = [n \in Note |-> IF For[n] = call[f].by /\ row[n] = "unread" THEN "read" ELSE row[n]]
<1>1. Answered(f, "ok", Empty)
  BY AnswerDoes, EmptyFields DEF ServeReadAll, FeedTyped, Answers
<1> QED BY <1>1 DEF ServeReadAll

LEMMA ServeTyped ==
  ASSUME FeedTyped, NEW f \in Flow, Serve(f)
  PROVE  FeedTyped'
<1>1. StoreTyped' /\ exact' \in BOOLEAN /\ wire' \subseteq Note /\ unsent' \subseteq Note
  BY DEF Serve, FeedTyped, StoreTyped, RowsTyped
<1>2. CASE ServeFetch(f)
  BY <1>1, <1>2, ServeFetchDoes, AnsweredWell DEF FeedTyped, RowsTyped
<1>3. CASE LoadRow(f)
  <2>1. PICK ans : ans = row[call[f].note] /\ Answered(f, ans, Empty)
    BY <1>3, LoadRowDoes
  <2>2. CallsTyped'
    BY <1>3, <2>1, LoadRowDoes, AnsweredWell DEF FeedTyped
  <2> QED BY <1>1, <1>3, <2>2, LoadRowDoes DEF FeedTyped, RowsTyped
<1>4. CASE SaveRead(f)
  <2>1. CallsTyped'
    BY <1>4, SaveReadDoes, AnsweredWell DEF FeedTyped
  <2>2. row' \in [Note -> {"none", "unread", "read", "gone"}]
    BY <1>4, SaveReadDoes DEF FeedTyped, RowsTyped
  <2> QED BY <1>1, <2>1, <2>2 DEF FeedTyped, RowsTyped
<1>5. CASE ServeArchive(f)
  <2>1. CallsTyped'
    BY <1>5, ServeArchiveDoes, AnsweredWell DEF FeedTyped
  <2> QED BY <1>1, <1>5, <2>1, ServeArchiveDoes DEF FeedTyped, RowsTyped
<1>6. CASE ServeReadAll(f)
  <2>1. CallsTyped'
    BY <1>6, ServeReadAllDoes, AnsweredWell DEF FeedTyped
  <2> QED BY <1>1, <1>6, <2>1, ServeReadAllDoes DEF FeedTyped, RowsTyped
<1> QED BY <1>2, <1>3, <1>4, <1>5, <1>6 DEF Serve

(***************************************************************************)
(* What the store does with an answer                                      *)
(***************************************************************************)

\* list' with note n shown otherwise
Shows(n, new, old) ==
    /\ list' \in Lists /\ list'[n].new = new /\ list'[n].old = old
    /\ \A m \in Note \ {n} : list'[m] = list[m]

LEMMA ShowsDoes ==
  ASSUME list \in Lists, NEW n \in Note, NEW new \in Nat, NEW old \in Nat,
         list' = [list EXCEPT ![n] = Entry(new, old)]
  PROVE  Shows(n, new, old)
<1>1. PICK e \in Entries : e = Entry(new, old) /\ e.new = new /\ e.old = old
  BY EntryFields
<1>2. list' = [list EXCEPT ![n] = e]
  BY <1>1
<1> QED BY <1>1, <1>2, ListsEntries DEF Shows

LEMMA ListFields ==
  ASSUME list \in Lists, NEW n \in Note
  PROVE  list[n].new \in Nat /\ list[n].old \in Nat /\ list[n] = Entry(list[n].new, list[n].old)
BY ListsEntries, EntriesFields

LEMMA HearDoes ==
  ASSUME FeedTyped, NEW n \in Note, Hear(n)
  PROVE  Shows(n, list[n].new + ears, list[n].old) /\ unread' = unread + ears
<1>1. list[n].new + ears \in Nat /\ list[n].old \in Nat
  BY ListFields, NotificationFeedAssumption DEF FeedTyped, StoreTyped, NotificationFeedAssumption
<1>2. PICK new \in Nat, old \in Nat : new = list[n].new + ears /\ old = list[n].old
  BY <1>1
<1>3. list' = [list EXCEPT ![n] = Entry(new, old)]
  BY <1>2 DEF Hear
<1> QED BY <1>2, <1>3, ShowsDoes DEF Hear, FeedTyped, StoreTyped

LEMMA TakeReadDoes ==
  ASSUME FeedTyped, NEW f \in Flow, TakeRead(f)
  PROVE  LET n == call[f].note
         IN  /\ call[f].op = "read" /\ n \in Note /\ Shows(n, 0, list[n].new + list[n].old)
             /\ unread' = IF unread > 0 THEN unread - 1 ELSE 0
<1>1. PICK n \in Note : n = call[f].note
  BY CallFields DEF TakeRead, FeedTyped, WellCall
<1>2. PICK old \in Nat : old = list[n].new + list[n].old
  BY ListFields DEF FeedTyped, StoreTyped
<1>3. list' = [list EXCEPT ![n] = Entry(0, old)]
  BY <1>1, <1>2 DEF TakeRead, AllRead
<1>4. Shows(n, 0, old)
  BY <1>3, ShowsDoes DEF FeedTyped, StoreTyped
<1> QED BY <1>1, <1>2, <1>4 DEF TakeRead

LEMMA TakeArchiveDoes ==
  ASSUME FeedTyped, NEW f \in Flow, TakeArchive(f)
  PROVE  LET n == call[f].note
         IN  /\ call[f].op = "archive" /\ n \in Note /\ Shows(n, 0, 0)
             /\ unread' = IF list[n].new > 0 THEN unread - 1 ELSE unread
<1>1. PICK n \in Note : n = call[f].note
  BY CallFields DEF TakeArchive, FeedTyped, WellCall
<1>2. list' = [list EXCEPT ![n] = Entry(0, 0)]
  BY <1>1 DEF TakeArchive
<1>3. Shows(n, 0, 0)
  BY <1>2, ShowsDoes DEF FeedTyped, StoreTyped
<1> QED BY <1>1, <1>3 DEF TakeArchive

LEMMA AllReadFields ==
  ASSUME NEW e \in Entries
  PROVE  AllRead(e) \in Entries /\ AllRead(e).new = 0 /\ AllRead(e).old = e.new + e.old
<1>1. e.new + e.old \in Nat
  BY EntriesFields
<1> QED BY <1>1, EntryFields DEF AllRead

LEMMA TakeTyped ==
  ASSUME FeedTyped, NEW f \in Flow, Take(f)
  PROVE  FeedTyped'
<1>1. CallsTyped'
  BY OverWell DEF Take, FeedTyped
<1>2. RowsTyped' /\ exact' \in BOOLEAN /\ ears' \in 0 .. MaxEars
  BY DEF Take, TakeFetch, FeedTyped, RowsTyped, StoreTyped
<1>3. CASE TakeFetch(f)
  <2>1. list' \in Lists /\ unread' \in Int
    BY <1>3, CallFields, UnreadNat DEF TakeFetch, FeedTyped
  <2> QED BY <1>1, <1>2, <2>1 DEF FeedTyped, StoreTyped
<1>4. CASE TakeRead(f)
  BY <1>1, <1>2, <1>4, TakeReadDoes DEF Shows, FeedTyped, StoreTyped
<1>5. CASE TakeArchive(f)
  BY <1>1, <1>2, <1>5, TakeArchiveDoes DEF Shows, FeedTyped, StoreTyped
<1>6. CASE TakeReadAll(f)
  <2>1. \A n \in Note : AllRead(list[n]) \in Entries
    BY ListsEntries, AllReadFields DEF FeedTyped, StoreTyped
  <2>2. list' \in Lists /\ unread' \in Int
    BY <1>6, <2>1, ListsEntries DEF TakeReadAll
  <2> QED BY <1>1, <1>2, <2>2 DEF FeedTyped, StoreTyped
<1> QED BY <1>3, <1>4, <1>5, <1>6 DEF Take

LEMMA FeedNextTyped ==
  ASSUME LinkTypeOK, FeedTyped, [Next]_vars
  PROVE  FeedTyped'
<1>1. who # Nobody => who \in User
  BY DEF LinkTypeOK
<1>2. ASSUME NEW n \in Note, Notify(n) \/ Emit(n) PROVE FeedTyped'
  BY <1>2 DEF Notify, Emit, FeedTyped, RowsTyped, StoreTyped, CallsTyped
<1>3. ASSUME NEW n \in Note, Elsewhere(n) PROVE FeedTyped'
  BY <1>3 DEF Elsewhere, FeedTyped, RowsTyped, StoreTyped, CallsTyped
<1>4. ASSUME NEW n \in Note, Hear(n) PROVE FeedTyped'
  <2>1. list' \in Lists /\ unread' \in Int
    BY <1>4, HearDoes DEF Shows, FeedTyped, StoreTyped
  <2> QED BY <1>4, <2>1 DEF Hear, FeedTyped, RowsTyped, StoreTyped, CallsTyped
<1>5. ASSUME NEW f \in Flow, MountBell(f) PROVE FeedTyped'
  <2>1. who \in User /\ Ask(f, "fetch", NoNote) /\ "fetch" \in Ops
    BY <1>1, <1>5 DEF MountBell, Mount, Ops
  <2>2. CallsTyped'
    BY <2>1, AskDoes, AskedWell, NotificationFeedAssumption DEF FeedTyped, NotificationFeedAssumption
  <2>3. ears' \in 0 .. MaxEars /\ exact' \in BOOLEAN
    BY <1>5, NotificationFeedAssumption DEF MountBell, FeedTyped, StoreTyped, NotificationFeedAssumption
  <2> QED BY <1>5, <2>2, <2>3 DEF MountBell, FeedTyped, RowsTyped, StoreTyped
<1>6. ASSUME NEW f \in Flow, AskAll(f) PROVE FeedTyped'
  <2>1. who \in User /\ Ask(f, "readAll", NoNote) /\ "readAll" \in Ops
    BY <1>1, <1>6 DEF AskAll, Ops
  <2>2. CallsTyped'
    BY <2>1, AskDoes, AskedWell, NotificationFeedAssumption DEF FeedTyped, NotificationFeedAssumption
  <2> QED BY <1>6, <2>2 DEF AskAll, FeedTyped, RowsTyped, StoreTyped
<1>7. ASSUME NEW f \in Flow, NEW op \in {"read", "archive"}, NEW n \in Note, AskOne(f, op, n)
      PROVE  FeedTyped'
  <2>1. who \in User /\ Ask(f, op, n) /\ op \in Ops
    BY <1>1, <1>7 DEF AskOne, Ops
  <2>2. CallsTyped'
    BY <2>1, AskDoes, AskedWell DEF FeedTyped
  <2> QED BY <1>7, <2>2 DEF AskOne, FeedTyped, RowsTyped, StoreTyped
<1>8. ASSUME NEW f \in Flow, Miss(f) PROVE FeedTyped'
  <2>1. CallsTyped'
    BY <1>8, OverWell DEF Miss, FeedTyped
  <2> QED BY <1>8, <2>1 DEF Miss, FeedTyped, RowsTyped, StoreTyped
<1>9. CASE LinkStep
  BY <1>9 DEF LinkStep, Cut, FeedTyped, RowsTyped, StoreTyped, CallsTyped
<1>10. CASE ReloadPage
  <2>1. WellCall(NoCall)
    BY NoCallFields, NotificationFeedAssumption DEF WellCall, NotificationFeedAssumption
  <2>2. CallsTyped'
    BY <1>10, <2>1, NoCallFields DEF ReloadPage, CallsTyped
  <2>3. StoreTyped'
    BY <1>10, EmptyFields, NotificationFeedAssumption
    DEF ReloadPage, FeedTyped, StoreTyped, NotificationFeedAssumption
  <2>4. RowsTyped' /\ exact' \in BOOLEAN
    BY <1>10 DEF ReloadPage, FeedTyped, RowsTyped
  <2> QED BY <2>2, <2>3, <2>4 DEF FeedTyped
<1>11. CASE StopServer
  BY <1>11 DEF StopServer, FeedTyped, RowsTyped, StoreTyped, CallsTyped
<1>12. CASE UNCHANGED vars
  BY <1>12 DEF vars, feed, FeedTyped, RowsTyped, StoreTyped, CallsTyped
<1> QED BY <1>2, <1>3, <1>4, <1>5, <1>6, <1>7, <1>8, <1>9, <1>10, <1>11, <1>12, ServeTyped, TakeTyped
    DEF Next

LEMMA FeedInitTyped == Init => FeedTyped
<1> SUFFICES ASSUME Init PROVE FeedTyped
  OBVIOUS
<1>1. WellCall(NoCall)
  BY NoCallFields, NotificationFeedAssumption DEF WellCall, NotificationFeedAssumption
<1>2. CallsTyped
  BY <1>1, NoCallFields DEF Init, CallsTyped
<1>3. StoreTyped
  BY EmptyFields, NotificationFeedAssumption DEF Init, StoreTyped, NotificationFeedAssumption
<1> QED BY <1>2, <1>3 DEF Init, FeedTyped, RowsTyped

LEMMA TypedType == LinkTypeOK /\ FeedTyped => TypeOK
<1> SUFFICES ASSUME LinkTypeOK, FeedTyped PROVE TypeOK
  OBVIOUS
<1>1. ASSUME NEW f \in Flow
      PROVE  /\ call[f].op \in {"none", "fetch", "read", "archive", "readAll"}
             /\ call[f].ans \in {"none", "unread", "read", "gone", "ok"}
             /\ call[f].snap \in Lists
             /\ call[f].op # "none" => call[f].by \in User
             /\ call[f].op \in {"read", "archive"} => call[f].note \in Note
  BY CallFields DEF FeedTyped, WellCall, Ops, Answers
<1> QED BY <1>1 DEF FeedTyped, StoreTyped, RowsTyped, TypeOK

LEMMA LinkInvAlways == Spec => []LinkInv
BY ImplementsLinkCorrect, LinkInvCorrect, PTL

LEMMA FeedTypedAlways == Spec => []FeedTyped
<1>1. LinkInv /\ FeedTyped /\ [Next]_vars => FeedTyped'
  BY FeedNextTyped DEF LinkInv
<1> QED BY <1>1, FeedInitTyped, LinkInvAlways, PTL DEF Spec

\* Link, rows, events, calls and the list and count of the store stay well-
\* formed, for any number of users, notifications and calls
\* (notificationStore.ts).
THEOREM TypeCorrect == Spec => []TypeOK
<1>1. LinkInv /\ FeedTyped => TypeOK
  BY TypedType DEF LinkInv
<1> QED BY <1>1, LinkInvAlways, FeedTypedAlways, PTL

(***************************************************************************)
(* What an exact tab shows                                                 *)
(***************************************************************************)

Absent == Entry(0, 0)
Fresh == Entry(1, 0)
Seen == Entry(0, 1)

\* What the server has of a note, for the user of the tab
Due(n) ==
    IF For[n] # who THEN Absent
    ELSE IF row[n] = "unread" THEN Fresh
    ELSE IF row[n] = "read" THEN Seen ELSE Absent

\* The server has done it, and the store has not heard of it
Served(n) == \E f \in Flow : call[f].ans = "ok" /\ (call[f].note = n \/ call[f].op = "readAll")

\* A note that is to be announced is unread, its event was not sent before, and no
\* call under way is about it
Ahead(n) ==
    /\ n \in wire => For[n] = who /\ n \notin unsent
    /\ n \in Awaited => row[n] = "unread" /\ \A f \in Flow : call[f].note # n /\ call[f].op # "readAll"

\* A note is shown as the server has it, but while its event or an answer about it
\* is to come, and then as it was before
Shown(n) ==
    /\ list[n] \in {Absent, Fresh, Seen}
    /\ n \in Awaited => list[n] = Absent
    /\ \A f \in Flow : call[f].op = "read" /\ call[f].note = n =>
        /\ For[n] = who /\ list[n] = Fresh
        /\ \/ call[f].ans \in {"none", "unread"} /\ row[n] = "unread"
           \/ call[f].ans = "ok" /\ row[n] = "read"
    /\ \A f \in Flow : call[f].op = "archive" /\ call[f].note = n =>
        /\ For[n] = who /\ list[n] # Absent
        /\ \/ call[f].ans = "none" /\ row[n] \in {"unread", "read"}
           \/ call[f].ans = "ok" /\ row[n] = "gone"
    /\ \A f \in Flow : call[f].op = "readAll" /\ call[f].ans = "ok" => AllRead(list[n]) = Due(n)
    /\ n \notin Awaited /\ ~Served(n) => list[n] = Due(n)

\* A fetch is answered with what the server has of a note, or had before it was new
Fetched(snap, n) == snap[n] = Due(n) \/ (snap[n] = Absent /\ For[n] = who /\ row[n] = "unread")

\* No two calls under way are about the same note
Apart ==
    \A f, g \in Flow :
        /\ call[f].op # "none" /\ call[g].op # "none"
        /\ call[f].op \in {"fetch", "readAll"} \/ call[f].note = call[g].note
        => f = g

Fetching == \E f \in Flow : call[f].op = "fetch"

Fetches ==
    \A f \in Flow : call[f].op = "fetch" /\ call[f].ans = "ok" => \A n \in Note : Fetched(call[f].snap, n)

Told ==
    /\ who \in User
    /\ Apart
    /\ \A f \in Flow : call[f].op # "none" => call[f].by = who
    /\ wire # {} => ears = 1
    /\ \A n \in Note : Ahead(n)
    /\ Fetches
    /\ ~Fetching => unread = Unread(list) /\ \A n \in Note : Shown(n)

(***************************************************************************)
(* Entries and their number                                                *)
(***************************************************************************)

LEMMA EntryValues ==
  /\ Absent \in Entries /\ Absent.new = 0 /\ Absent.old = 0
  /\ Fresh \in Entries /\ Fresh.new = 1 /\ Fresh.old = 0
  /\ Seen \in Entries /\ Seen.new = 0 /\ Seen.old = 1
  /\ Absent # Fresh /\ Absent # Seen /\ Fresh # Seen
BY DEF Absent, Fresh, Seen, Entry, Entries

LEMMA EntryIs ==
  ASSUME NEW e \in Entries
  PROVE  /\ e.new = 0 /\ e.old = 0 => e = Absent
         /\ e.new = 1 /\ e.old = 0 => e = Fresh
         /\ e.new = 0 /\ e.old = 1 => e = Seen
BY EntriesFields DEF Absent, Fresh, Seen

LEMMA AllReadValues == AllRead(Absent) = Absent /\ AllRead(Fresh) = Seen /\ AllRead(Seen) = Seen
BY EntryValues DEF AllRead, Absent, Fresh, Seen, Entry

LEMMA RowsDue == Rows(who) = [n \in Note |-> Due(n)]
<1>1. \A n \in Note :
        (IF For[n] # who THEN Entry(0, 0)
         ELSE Entry(IF row[n] = "unread" THEN 1 ELSE 0, IF row[n] = "read" THEN 1 ELSE 0)) = Due(n)
  BY DEF Due, Absent, Fresh, Seen
<1> QED BY <1>1 DEF Rows

LEMMA UnreadSame ==
  ASSUME NEW l, NEW k, \A n \in Note : l[n].new > 0 <=> k[n].new > 0
  PROVE  Unread(k) = Unread(l)
<1>1. {n \in Note : l[n].new > 0} = {n \in Note : k[n].new > 0}
  OBVIOUS
<1> QED BY <1>1 DEF Unread

LEMMA UnreadMore ==
  ASSUME NEW l, NEW k, NEW n \in Note, l[n].new = 0, k[n].new = 1,
         \A m \in Note \ {n} : l[m] = k[m]
  PROVE  Unread(k) = Unread(l) + 1
<1> DEFINE before == {m \in Note : l[m].new > 0}
           after == {m \in Note : k[m].new > 0}
<1>1. n \notin before /\ after = before \cup {n}
  OBVIOUS
<1>2. IsFiniteSet(before)
  BY FS_Subset, NotificationFeedAssumption DEF NotificationFeedAssumption
<1>3. Cardinality(after) = Cardinality(before) + 1
  BY <1>1, <1>2, FS_AddElement
<1> QED BY <1>3 DEF Unread

LEMMA UnreadNone ==
  ASSUME NEW l, \A n \in Note : l[n].new = 0
  PROVE  Unread(l) = 0
<1>1. {n \in Note : l[n].new > 0} = {}
  OBVIOUS
<1> QED BY <1>1, FS_EmptySet DEF Unread

(***************************************************************************)
(* Steps that leave a note alone                                           *)
(***************************************************************************)

About(c, n) == c.note = n \/ c.op = "readAll"

LEMMA DueKept ==
  ASSUME NEW n, who' = who, row'[n] = row[n] \/ For[n] # who
  PROVE  Due(n)' = Due(n)
BY DEF Due

LEMMA ShownFrame ==
  ASSUME NEW n \in Note, Shown(n), list'[n] = list[n], who' = who,
         row'[n] = row[n] \/ For[n] # who, n \in Awaited' <=> n \in Awaited,
         \A f \in Flow : call'[f] = call[f] \/ ~(About(call[f], n) \/ About(call'[f], n))
  PROVE  Shown(n)'
<1>1. Due(n)' = Due(n)
  BY DueKept
<1>2. Served(n)' <=> Served(n)
  BY DEF Served, About
<1> QED BY <1>1, <1>2 DEF Shown, About

LEMMA AheadFrame ==
  ASSUME NEW n \in Note, Ahead(n), who' = who, UNCHANGED wire,
         For[n] = who => (n \in unsent' <=> n \in unsent),
         row'[n] = row[n] \/ For[n] # who \/ n \notin Awaited,
         n \in Awaited => \A f \in Flow : About(call'[f], n) => About(call[f], n)
  PROVE  Ahead(n)'
<1>1. n \in Awaited' <=> n \in Awaited
  BY DEF Awaited
<1>2. n \in Awaited => For[n] = who
  BY DEF Awaited, Ahead
<1>3. CASE n \in Awaited
  <2>1. row'[n] = "unread"
    BY <1>2, <1>3 DEF Ahead
  <2>2. \A f \in Flow : call'[f].note # n /\ call'[f].op # "readAll"
    BY <1>3 DEF Ahead, About
  <2> QED BY <1>2, <1>3, <2>1, <2>2 DEF Ahead
<1>4. CASE n \notin Awaited
  BY <1>1, <1>4 DEF Ahead, Awaited
<1> QED BY <1>3, <1>4

LEMMA FetchedFrame ==
  ASSUME NEW n, NEW snap, Fetched(snap, n), who' = who, row'[n] = row[n] \/ For[n] # who
  PROVE  Fetched(snap, n)'
BY DueKept DEF Fetched

LEMMA FetchesFrame ==
  ASSUME Fetches, who' = who, \A n \in Note : row'[n] = row[n] \/ For[n] # who,
         \A f \in Flow : call'[f] = call[f] \/ call'[f].ans # "ok" \/ call'[f].op # "fetch"
  PROVE  Fetches'
<1> SUFFICES ASSUME NEW f \in Flow, call'[f].op = "fetch", call'[f].ans = "ok", NEW n \in Note
             PROVE  Fetched(call[f].snap, n)'
  BY DEF Fetches
<1>1. call'[f] = call[f] /\ Fetched(call[f].snap, n)
  BY DEF Fetches
<1>2. PICK snap : snap = call[f].snap
  OBVIOUS
<1>3. Fetched(snap, n)'
  BY <1>1, <1>2, FetchedFrame
<1> QED BY <1>1, <1>2, <1>3 DEF Fetched

\* Only a call about one note names it
LEMMA NotesOf ==
  ASSUME FeedTyped, NEW f \in Flow
  PROVE  call[f].op \in {"read", "archive"} <=> call[f].note \in Note
BY CallFields DEF FeedTyped, WellCall

LEMMA AnswersOf ==
  ASSUME FeedTyped, NEW f \in Flow
  PROVE  /\ call[f].op = "none" => call[f].ans = "none"
         /\ call[f].ans \in {"unread", "read", "gone"} => call[f].op = "read"
         /\ call[f].op \in Ops
BY CallFields DEF FeedTyped, WellCall

\* Steps of which the user of the tab sees nothing
LEMMA UnseenTold ==
  ASSUME Told, \A n \in Note : row'[n] = row[n] \/ For[n] # who,
         \A n \in Note : For[n] = who => (n \in unsent' <=> n \in unsent),
         UNCHANGED <<who, wire, ears, list, unread, call>>
  PROVE  Told'
<1>1. \A n \in Note : Ahead(n)'
  BY AheadFrame DEF Told
<1>2. \A n \in Note : Shown(n) => Shown(n)'
  <2>1. \A n \in Note : n \in Awaited' <=> n \in Awaited
    BY DEF Awaited
  <2> QED BY <2>1, ShownFrame
<1>3. (Fetching' <=> Fetching) /\ Apart'
  BY DEF Fetching, Apart, Told
<1>4. Fetches'
  BY FetchesFrame DEF Told
<1> QED BY <1>1, <1>2, <1>3, <1>4 DEF Told

\* A note that is not there yet
LEMMA NewNote ==
  ASSUME FeedTyped, Told, NEW n \in Note, row[n] = "none"
  PROVE  n \notin Awaited /\ \A f \in Flow : call[f].note # n
<1>1. n \notin Awaited
  BY DEF Told, Ahead
<1>2. ASSUME NEW f \in Flow, call[f].note = n PROVE FALSE
  <2>1. call[f].op \in {"read", "archive"}
    BY <1>2, NotesOf
  <2>2. ~Fetching
    BY <2>1 DEF Told, Apart, Fetching
  <2> QED BY <1>2, <2>1, <2>2 DEF Told, Shown
<1> QED BY <1>1, <1>2

LEMMA NotifyTold ==
  ASSUME FeedTyped, Told, NEW n \in Note, Notify(n), exact'
  PROVE  Told'
<1>1. /\ row[n] = "none" /\ UNCHANGED <<who, wire, ears, list, unread, call>>
      /\ unsent' = unsent \cup {n}
  BY DEF Notify, link
<1>2. row'[n] = "unread" /\ \A m \in Note \ {n} : row'[m] = row[m]
  BY DEF Notify, FeedTyped, RowsTyped
<1>3. CASE For[n] = who
  <2>1. \A f \in Flow : call[f].note # n /\ call[f].op # "readAll"
    BY <1>1, <1>3, NewNote DEF Notify
  <2>2. n \notin Awaited /\ n \notin wire
    BY <1>1, NewNote DEF Awaited
  <2>3. Ahead(n)'
    BY <1>1, <1>2, <2>1, <2>2 DEF Ahead
  <2>4. \A m \in Note \ {n} : Ahead(m)'
    BY <1>1, <1>2, AheadFrame DEF Told
  <2>5. Fetches'
    <3> SUFFICES ASSUME NEW f \in Flow, call[f].op = "fetch", call[f].ans = "ok", NEW m \in Note
                 PROVE  Fetched(call[f].snap, m)'
      BY <1>1 DEF Fetches
    <3>1. PICK snap : snap = call[f].snap /\ Fetched(snap, m)
      BY DEF Told, Fetches
    <3>2. CASE m = n
      <4>1. snap[m] = Absent
        BY <1>1, <3>1, <3>2 DEF Fetched, Due
      <4> QED BY <1>1, <1>2, <1>3, <3>1, <3>2, <4>1 DEF Fetched
    <3>3. CASE m # n
      <4>1. Fetched(snap, m)'
        BY <1>1, <1>2, <3>1, <3>3, FetchedFrame
      <4> QED BY <1>1, <3>1, <4>1 DEF Fetched
    <3> QED BY <3>2, <3>3
  <2>6. (Fetching' <=> Fetching) /\ Apart'
    BY <1>1 DEF Fetching, Apart, Told
  <2>7. ASSUME ~Fetching, NEW m \in Note PROVE Shown(m)'
    <3>1. Shown(m)
      BY <2>7 DEF Told
    <3>2. CASE m = n
      <4>1. list[m] = Absent
        BY <1>1, <2>1, <2>2, <3>1, <3>2 DEF Shown, Served, Due
      <4>2. m \in Awaited'
        BY <1>1, <1>3, <3>2 DEF Awaited
      <4> QED BY <1>1, <2>1, <3>2, <4>1, <4>2 DEF Shown
    <3>3. CASE m # n
      <4>1. m \in Awaited' <=> m \in Awaited
        BY <1>1, <3>3 DEF Awaited
      <4> QED BY <1>1, <1>2, <3>1, <3>3, <4>1, ShownFrame
    <3> QED BY <3>2, <3>3
  <2> QED BY <1>1, <2>3, <2>4, <2>5, <2>6, <2>7 DEF Told
<1>4. CASE For[n] # who
  BY <1>1, <1>2, <1>4, UnseenTold
<1> QED BY <1>3, <1>4

\* The event of a note of the user goes on its way
LEMMA EmitTold ==
  ASSUME Told, NEW n \in Note, Emit(n), exact'
  PROVE  Told'
<1>1. /\ n \in unsent /\ unsent' = unsent \ {n}
      /\ UNCHANGED <<who, row, ears, list, unread, call>>
  BY DEF Emit, link
<1>2. CASE For[n] = who
  <2>1. wire' = wire \cup {n} /\ ears = 1
    BY <1>2 DEF Emit
  <2>2. \A m \in Note : m \in Awaited' <=> m \in Awaited
    BY <1>1, <1>2, <2>1 DEF Awaited
  <2>3. \A m \in Note : Ahead(m)'
    BY <1>1, <1>2, <2>1, <2>2 DEF Told, Ahead
  <2>4. \A m \in Note : Shown(m) => Shown(m)'
    BY <1>1, <2>2, ShownFrame
  <2>5. (Fetching' <=> Fetching) /\ Apart'
    BY <1>1 DEF Fetching, Apart, Told
  <2>6. Fetches'
    BY <1>1, FetchesFrame DEF Told
  <2> QED BY <1>1, <2>1, <2>3, <2>4, <2>5, <2>6 DEF Told
<1>3. CASE For[n] # who
  <2>1. wire' = wire
    BY <1>3 DEF Emit
  <2> QED BY <1>1, <1>3, <2>1, UnseenTold
<1> QED BY <1>2, <1>3

LEMMA HearTold ==
  ASSUME FeedTyped, Told, NEW n \in Note, Hear(n)
  PROVE  Told'
<1>1. n \in wire /\ wire' = wire \ {n} /\ UNCHANGED <<who, row, unsent, ears, call>>
  BY DEF Hear, link
<1>2. ears = 1 /\ n \in Awaited /\ n \notin Awaited'
  BY <1>1 DEF Told, Ahead, Awaited
<1>3. /\ For[n] = who /\ row[n] = "unread"
      /\ \A f \in Flow : call[f].note # n /\ call[f].op # "readAll"
  BY <1>1, <1>2 DEF Told, Ahead
<1>4. \A m \in Note \ {n} : m \in Awaited' <=> m \in Awaited
  BY <1>1 DEF Awaited
<1>5. \A m \in Note : Ahead(m)'
  BY <1>1, <1>2, <1>4 DEF Told, Ahead
<1>6. (Fetching' <=> Fetching) /\ Apart'
  BY <1>1 DEF Fetching, Apart, Told
<1>7. Fetches'
  BY <1>1, FetchesFrame DEF Told
<1>8. ASSUME ~Fetching PROVE unread' = Unread(list)' /\ \A m \in Note : Shown(m)'
  <2>1. unread = Unread(list) /\ \A m \in Note : Shown(m)
    BY <1>8 DEF Told
  <2>2. list[n] = Absent
    BY <1>2, <2>1 DEF Shown
  <2>3. Shows(n, 1, 0) /\ unread' = unread + 1
    BY <1>2, <2>2, HearDoes, EntryValues
  <2>4. list'[n] = Fresh
    BY <2>3, EntryIs, ListsEntries DEF Shows
  <2>5. Unread(list') = Unread(list) + 1
    BY <2>2, <2>3, EntryValues, UnreadMore DEF Shows
  <2>6. Shown(n)'
    BY <1>1, <1>2, <1>3, <2>4 DEF Shown, Due
  <2>7. \A m \in Note \ {n} : Shown(m)'
    BY <1>1, <1>4, <2>1, <2>3, ShownFrame DEF Shows
  <2> QED BY <2>1, <2>3, <2>5, <2>6, <2>7
<1> QED BY <1>1, <1>2, <1>5, <1>6, <1>7, <1>8 DEF Told

(***************************************************************************)
(* Calls that are answered                                                 *)
(***************************************************************************)

LEMMA AnsweredKeeps ==
  ASSUME NEW f \in Flow, NEW ans, NEW snap, Answered(f, ans, snap)
  PROVE  /\ \A g \in Flow : /\ call'[g].op = call[g].op /\ call'[g].note = call[g].note
                            /\ call'[g].by = call[g].by
         /\ \A g \in Flow \ {f} : call'[g] = call[g]
         /\ call'[f].ans = ans /\ call'[f].snap = snap
BY DEF Answered, Becomes

LEMMA SameCalls ==
  ASSUME \A g \in Flow : call'[g].op = call[g].op /\ call'[g].note = call[g].note
  PROVE  (Fetching' <=> Fetching) /\ (Sweeping' <=> Sweeping) /\ (Apart => Apart')
BY DEF Fetching, Sweeping, Apart

\* A call about one note is under way: nothing else is about this note, and no call
\* about all
LEMMA OneNote ==
  ASSUME FeedTyped, Told, NEW f \in Flow, call[f].op \in {"read", "archive"}
  PROVE  /\ call[f].note \in Note
         /\ ~Sweeping /\ ~Fetching /\ Shown(call[f].note) /\ unread = Unread(list)
         /\ call[f].note \notin Awaited
         /\ \A g \in Flow \ {f} : call[g].note # call[f].note
<1>1. call[f].note \in Note
  BY NotesOf
<1>2. \A g \in Flow : call[g].op \in {"fetch", "readAll"} => g = f
  BY DEF Told, Apart
<1>3. ~Sweeping /\ ~Fetching
  BY <1>2 DEF Sweeping, Fetching
<1>4. ASSUME NEW g \in Flow \ {f}, call[g].note = call[f].note PROVE FALSE
  <2>1. call[g].op \in {"read", "archive"}
    BY <1>1, <1>4, NotesOf
  <2> QED BY <1>4, <2>1 DEF Told, Apart
<1>5. call[f].note \notin Awaited
  BY <1>1 DEF Told, Ahead
<1> QED BY <1>1, <1>3, <1>4, <1>5 DEF Told

LEMMA AnswerOneTold ==
  ASSUME FeedTyped, Told, NEW f \in Flow, NEW n \in Note, n = call[f].note, call[f].op \in {"read", "archive"},
         NEW ans, NEW snap, Answered(f, ans, snap), UNCHANGED <<who, unsent, wire, ears, list, unread>>,
         \A m \in Note \ {n} : row'[m] = row[m],
         Shown(n)'
  PROVE  Told'
<1>1. /\ ~Sweeping /\ ~Fetching /\ unread = Unread(list) /\ n \notin Awaited
      /\ \A m \in Note : Shown(m) /\ Ahead(m)
  BY OneNote DEF Told
<1>2. ~Sweeping' /\ ~Fetching' /\ Apart'
  BY <1>1, AnsweredKeeps, SameCalls DEF Told
<1>3. \A m \in Note : m \in Awaited' <=> m \in Awaited
  BY DEF Awaited
<1>4. ASSUME NEW m \in Note \ {n} PROVE Shown(m)'
  <2>1. \A g \in Flow : call'[g] = call[g] \/ ~(About(call[g], m) \/ About(call'[g], m))
    BY AnsweredKeeps DEF About
  <2> QED BY <1>1, <1>3, <2>1, ShownFrame
<1>5. ASSUME NEW m \in Note PROVE Ahead(m)'
  <2>1. \A g \in Flow : About(call'[g], m) => About(call[g], m)
    BY AnsweredKeeps DEF About
  <2> QED BY <1>1, <2>1, AheadFrame
<1>6. \A g \in Flow : call'[g].op # "none" => call'[g].by = who
  BY AnsweredKeeps DEF Told
<1> QED BY <1>1, <1>2, <1>4, <1>5, <1>6 DEF Told, Fetches, Fetching

LEMMA ServeTold ==
  ASSUME FeedTyped, Told, NEW f \in Flow, Serve(f)
  PROVE  Told'
<1>1. UNCHANGED <<who, unsent, wire, ears, list, unread>>
  BY DEF Serve, link
<1>2. row \in [Note -> {"none", "unread", "read", "gone"}]
  BY DEF FeedTyped, RowsTyped
<1>3. PICK n : n = call[f].note
  OBVIOUS
<1>4. \A m \in Note : m \in Awaited' <=> m \in Awaited
  BY <1>1 DEF Awaited
<1>5. CASE ServeFetch(f)
  <2>1. /\ call[f].op = "fetch" /\ row' = row /\ call[f].by = who
        /\ Answered(f, "ok", Rows(call[f].by))
    BY <1>5, ServeFetchDoes DEF Told
  <2>2. PICK snap : snap = Rows(who) /\ Answered(f, "ok", snap)
    BY <2>1
  <2>3. /\ \A g \in Flow : call'[g].op = call[g].op /\ call'[g].note = call[g].note /\ call'[g].by = call[g].by
        /\ \A g \in Flow \ {f} : call'[g] = call[g]
        /\ call'[f].snap = snap
    BY <2>2, AnsweredKeeps
  <2>4. Fetching' /\ (Sweeping' <=> Sweeping) /\ Apart'
    BY <2>1, <2>3, SameCalls DEF Told, Fetching
  <2>5. \A m \in Note : snap[m] = Due(m)
    BY <2>2, RowsDue
  <2>6. \A g \in Flow \ {f} : call'[g].op # "fetch"
    BY <2>1, <2>3 DEF Told, Apart
  <2>7. \A m \in Note : Fetched(snap, m)'
    BY <1>1, <2>1, <2>5, FetchedFrame DEF Fetched
  <2>8. \A g \in Flow : call'[g].op # "none" => call'[g].by = who
    BY <2>3 DEF Told
  <2>9. \A m \in Note : Ahead(m)'
    <3>1. \A m \in Note, g \in Flow : About(call'[g], m) => About(call[g], m)
      BY <2>3 DEF About
    <3> QED BY <1>1, <2>1, <3>1, AheadFrame DEF Told
  <2> QED BY <1>1, <2>3, <2>4, <2>6, <2>7, <2>8, <2>9 DEF Told, Fetches
<1>6. CASE LoadRow(f)
  <2>1. PICK ans : ans = row[n] /\ Answered(f, ans, Empty)
    BY <1>3, <1>6, LoadRowDoes
  <2>2. call[f].op = "read" /\ call[f].ans = "none" /\ row' = row /\ n \in Note
    BY <1>3, <1>6, LoadRowDoes
  <2>3. /\ ~Sweeping /\ Shown(n) /\ n \notin Awaited /\ \A g \in Flow \ {f} : call[g].note # n
    BY <1>3, <2>2, OneNote
  <2>4. ans = "unread" /\ For[n] = who /\ list[n] = Fresh /\ row[n] = "unread"
    BY <1>3, <2>1, <2>2, <2>3 DEF Shown
  <2>5. /\ \A g \in Flow : call'[g].op = call[g].op /\ call'[g].note = call[g].note
        /\ \A g \in Flow \ {f} : call'[g] = call[g]
        /\ call'[f].ans = ans
    BY <2>1, AnsweredKeeps
  <2>6. ~Served(n)
    BY <1>3, <2>2, <2>3 DEF Served, Sweeping
  <2>7. Shown(n)'
    BY <1>1, <1>3, <1>4, <2>2, <2>3, <2>4, <2>5, <2>6 DEF Shown, Due, Sweeping
  <2> QED BY <1>1, <1>3, <2>1, <2>2, <2>7, AnswerOneTold
<1>7. CASE SaveRead(f)
  <2>1. /\ call[f].op = "read" /\ call[f].ans \in {"unread", "read", "gone"} /\ n \in Note
        /\ Answered(f, "ok", Empty)
        /\ \/ row' = [row EXCEPT ![n] = IF call[f].ans = "gone" THEN "gone" ELSE "read"]
           \/ row[n] = "gone" /\ row' = row
    BY <1>3, <1>7, SaveReadDoes
  <2>2. /\ ~Sweeping /\ Shown(n) /\ n \notin Awaited /\ \A g \in Flow \ {f} : call[g].note # n
    BY <1>3, <2>1, OneNote
  <2>3. call[f].ans = "unread" /\ For[n] = who /\ list[n] = Fresh /\ row[n] = "unread"
    BY <1>3, <2>1, <2>2 DEF Shown
  <2>4. row'[n] = "read" /\ \A m \in Note \ {n} : row'[m] = row[m]
    BY <1>2, <2>1, <2>3
  <2>5. /\ \A g \in Flow : call'[g].op = call[g].op /\ call'[g].note = call[g].note
        /\ \A g \in Flow \ {f} : call'[g] = call[g]
        /\ call'[f].ans = "ok"
    BY <2>1, AnsweredKeeps
  <2>6. Served(n)'
    BY <1>3, <2>5 DEF Served
  <2>7. Shown(n)'
    BY <1>1, <1>3, <1>4, <2>1, <2>2, <2>3, <2>4, <2>5, <2>6 DEF Shown, Sweeping
  <2> QED BY <1>1, <1>3, <2>1, <2>4, <2>7, AnswerOneTold
<1>8. CASE ServeArchive(f)
  <2>1. /\ call[f].op = "archive" /\ call[f].ans = "none" /\ n \in Note
        /\ Answered(f, "ok", Empty) /\ row' = [row EXCEPT ![n] = "gone"]
    BY <1>3, <1>8, ServeArchiveDoes
  <2>2. /\ ~Sweeping /\ Shown(n) /\ n \notin Awaited /\ \A g \in Flow \ {f} : call[g].note # n
    BY <1>3, <2>1, OneNote
  <2>3. For[n] = who /\ list[n] \in {Fresh, Seen} /\ list[n] # Absent
    BY <1>3, <2>1, <2>2 DEF Shown
  <2>4. row'[n] = "gone" /\ \A m \in Note \ {n} : row'[m] = row[m]
    BY <1>2, <2>1
  <2>5. /\ \A g \in Flow : call'[g].op = call[g].op /\ call'[g].note = call[g].note
        /\ \A g \in Flow \ {f} : call'[g] = call[g]
        /\ call'[f].ans = "ok"
    BY <2>1, AnsweredKeeps
  <2>6. Served(n)'
    BY <1>3, <2>5 DEF Served
  <2>7. Shown(n)'
    BY <1>1, <1>3, <1>4, <2>1, <2>2, <2>3, <2>4, <2>5, <2>6 DEF Shown, Sweeping
  <2> QED BY <1>1, <1>3, <2>1, <2>4, <2>7, AnswerOneTold
<1>9. CASE ServeReadAll(f)
  <2>1. /\ call[f].op = "readAll" /\ call[f].ans = "none" /\ call[f].by = who
        /\ Answered(f, "ok", Empty)
        /\ row' = [m \in Note |-> IF For[m] = who /\ row[m] = "unread" THEN "read" ELSE row[m]]
    BY <1>9, ServeReadAllDoes DEF Told
  <2>2. \A g \in Flow \ {f} : call[g].op = "none"
    BY <2>1 DEF Told, Apart
  <2>3. ~Fetching /\ Sweeping /\ \A m \in Note : m \notin Awaited
    BY <2>1, <2>2 DEF Fetching, Sweeping, Told, Ahead
  <2>4. /\ \A g \in Flow : call'[g].op = call[g].op /\ call'[g].note = call[g].note /\ call'[g].by = call[g].by
        /\ \A g \in Flow \ {f} : call'[g] = call[g]
        /\ call'[f].ans = "ok"
    BY <2>1, AnsweredKeeps
  <2>5. ~Fetching' /\ Sweeping' /\ Apart'
    BY <2>3, <2>4, SameCalls DEF Told
  <2>6. ASSUME NEW m \in Note PROVE Shown(m)'
    <3>1. \A g \in Flow : call[g].note # m /\ call[g].ans # "ok"
      BY <2>1, <2>2, NotesOf, AnswersOf
    <3>2. Shown(m) /\ ~Served(m) /\ m \notin Awaited
      BY <2>3, <3>1 DEF Told, Served
    <3>3. list[m] = Due(m) /\ list[m] \in {Absent, Fresh, Seen}
      BY <3>2 DEF Shown
    <3>4. AllRead(Due(m)) = Due(m)'
      BY <1>1, <2>1, AllReadValues DEF Due
    <3>5. Served(m)'
      BY <2>1, <2>4 DEF Served
    <3>6. \A g \in Flow : call'[g].note # m
      BY <2>4, <3>1
    <3> QED BY <1>1, <1>4, <3>2, <3>3, <3>4, <3>5, <3>6 DEF Shown
  <2>7. \A g \in Flow : call'[g].op # "none" => call'[g].by = who
    BY <2>4 DEF Told
  <2>8. \A m \in Note : Ahead(m)'
    BY <1>1, <2>3, AheadFrame DEF Told
  <2> QED BY <1>1, <2>3, <2>5, <2>6, <2>7, <2>8 DEF Told, Fetches, Fetching
<1> QED BY <1>5, <1>6, <1>7, <1>8, <1>9 DEF Serve

(***************************************************************************)
(* Answers that the store takes, and calls that end without                *)
(***************************************************************************)

LEMMA OverKeeps ==
  ASSUME FeedTyped, Told, NEW f \in Flow, call' = [call EXCEPT ![f] = NoCall]
  PROVE  /\ call'[f].op = "none" /\ call'[f].note \notin Note /\ call'[f].ans = "none"
         /\ \A g \in Flow \ {f} : call'[g] = call[g]
         /\ Apart' /\ (Sweeping' => Sweeping)
         /\ call[f].op # "fetch" => (Fetching' <=> Fetching)
         /\ UNCHANGED <<who, row, unsent, wire>> => \A n \in Note : Ahead(n)'
<1>1. /\ call'[f].op = "none" /\ call'[f].note \notin Note /\ call'[f].ans = "none"
      /\ \A g \in Flow \ {f} : call'[g] = call[g]
  BY OverDoes, NoCallFields, NotificationFeedAssumption DEF Becomes, FeedTyped, NotificationFeedAssumption
<1>2. ASSUME UNCHANGED <<who, row, unsent, wire>>, NEW n \in Note PROVE Ahead(n)'
  <2>1. call'[f].op # "readAll" /\ call'[f].note # n
    BY <1>1
  <2>2. \A g \in Flow : About(call'[g], n) => About(call[g], n)
    BY <1>1, <2>1 DEF About
  <2> QED BY <1>2, <2>2, AheadFrame DEF Told
<1> QED BY <1>1, <1>2 DEF Apart, Sweeping, Fetching, Told

\* An answer about one note is taken, which is shown as the server has it
LEMMA TakeOneTold ==
  ASSUME FeedTyped, Told, NEW f \in Flow, NEW n \in Note, n = call[f].note, call[f].op \in {"read", "archive"},
         call' = [call EXCEPT ![f] = NoCall], UNCHANGED <<who, row, unsent, wire, ears>>,
         \A m \in Note \ {n} : list'[m] = list[m],
         list'[n] = Due(n), list'[n] \in {Absent, Fresh, Seen}, unread' = Unread(list')
  PROVE  Told'
<1>1. /\ ~Sweeping /\ ~Fetching /\ Shown(n) /\ \A m \in Note : Shown(m)
      /\ \A g \in Flow \ {f} : call[g].note # n
  BY OneNote DEF Told
<1>2. n \notin Awaited /\ \A m \in Note : m \in Awaited' <=> m \in Awaited
  BY OneNote DEF Awaited
<1>3. /\ call'[f].op = "none" /\ call'[f].note \notin Note /\ call'[f].ans = "none"
      /\ \A g \in Flow \ {f} : call'[g] = call[g]
      /\ Apart' /\ ~Sweeping' /\ ~Fetching' /\ \A m \in Note : Ahead(m)'
  BY <1>1, OverKeeps
<1>4. \A g \in Flow : call'[g].note # n /\ call'[g].op # "readAll"
  BY <1>1, <1>3 DEF Sweeping
<1>5. Due(n)' = Due(n)
  BY DueKept
<1>6. Shown(n)'
  BY <1>2, <1>4, <1>5 DEF Shown
<1>7. ASSUME NEW m \in Note \ {n} PROVE Shown(m)'
  <2>1. \A g \in Flow : call'[g] = call[g] \/ ~(About(call[g], m) \/ About(call'[g], m))
    BY <1>3 DEF About
  <2> QED BY <1>1, <1>2, <2>1, ShownFrame
<1>8. \A g \in Flow : call'[g].op # "none" => call'[g].by = who
  BY <1>3 DEF Told
<1> QED BY <1>3, <1>6, <1>7, <1>8 DEF Told, Fetches, Fetching

\* An answer about all notes is taken
LEMMA TakeAllTold ==
  ASSUME FeedTyped, Told, NEW f \in Flow, call[f].op \in {"fetch", "readAll"},
         call' = [call EXCEPT ![f] = NoCall], UNCHANGED <<who, row, unsent, wire, ears>>,
         \A n \in Note : list'[n] = (IF n \in Awaited THEN Absent ELSE Due(n)), unread' = Unread(list')
  PROVE  Told'
<1>1. \A g \in Flow \ {f} : call[g].op = "none"
  BY AnswersOf DEF Told, Apart
<1>2. /\ call'[f].op = "none" /\ call'[f].note \notin Note /\ call'[f].ans = "none"
      /\ \A g \in Flow \ {f} : call'[g] = call[g]
      /\ Apart' /\ \A n \in Note : Ahead(n)'
  BY OverKeeps
<1>3. \A g \in Flow : call'[g].op = "none"
  BY <1>1, <1>2
<1>4. \A g \in Flow, n \in Note : call'[g].note # n
  BY <1>1, <1>2, NotesOf
<1>5. ASSUME NEW n \in Note PROVE Shown(n)'
  <2>1. Due(n)' = Due(n) /\ Due(n) \in {Absent, Fresh, Seen}
    BY DueKept DEF Due
  <2>2. n \in Awaited' <=> n \in Awaited
    BY DEF Awaited
  <2>3. list'[n] \in {Absent, Fresh, Seen}
    BY <2>1
  <2> QED BY <1>3, <1>4, <2>1, <2>2, <2>3 DEF Shown
<1> QED BY <1>2, <1>3, <1>5 DEF Told, Fetches, Fetching

\* What the answer of a fetch lists when all is listed in it or still to be announced
LEMMA FetchedOnce ==
  ASSUME FeedTyped, Told, NEW snap, NEW n \in Note, Fetched(snap, n), ToldOnce(snap)
  PROVE  snap[n] = IF n \in Awaited THEN Absent ELSE Due(n)
<1>1. CASE For[n] = who /\ row[n] \in {"unread", "read"}
  <2>1. n \in Awaited <=> snap[n] = Absent
    BY <1>1 DEF ToldOnce, Absent
  <2> QED BY <2>1 DEF Fetched
<1>2. CASE ~(For[n] = who /\ row[n] \in {"unread", "read"})
  <2>1. n \notin Awaited
    BY <1>2 DEF Told, Ahead, Awaited
  <2> QED BY <1>2, <2>1 DEF Fetched
<1> QED BY <1>1, <1>2

LEMMA TakeTold ==
  ASSUME FeedTyped, Told, NEW f \in Flow, Take(f), exact'
  PROVE  Told'
<1>1. call[f].ans = "ok" /\ call' = [call EXCEPT ![f] = NoCall] /\ UNCHANGED <<who, row, unsent, wire, ears>>
  BY DEF Take, link
<1>2. PICK n : n = call[f].note
  OBVIOUS
<1>3. list \in Lists
  BY DEF FeedTyped, StoreTyped
<1>4. CASE TakeFetch(f)
  <2>1. call[f].op = "fetch" /\ ToldOnce(call[f].snap) /\ list' = call[f].snap /\ unread' = Unread(list')
    BY <1>4 DEF TakeFetch
  <2>2. \A m \in Note : list'[m] = IF m \in Awaited THEN Absent ELSE Due(m)
    BY <1>1, <2>1, FetchedOnce DEF Told, Fetches
  <2> QED BY <1>1, <2>1, <2>2, TakeAllTold
<1>5. CASE TakeReadAll(f)
  <2>1. call[f].op = "readAll" /\ unread' = 0 /\ list' = [m \in Note |-> AllRead(list[m])]
    BY <1>5 DEF TakeReadAll
  <2>2. ~Fetching /\ \A m \in Note : m \notin Awaited
    BY <2>1 DEF Told, Apart, Fetching, Ahead
  <2>3. \A m \in Note : list'[m] = Due(m)
    BY <1>1, <2>1, <2>2 DEF Told, Shown
  <2>4. \A m \in Note : list'[m].new = 0
    BY <1>3, <2>1, ListsEntries, AllReadFields
  <2> QED BY <1>1, <2>1, <2>2, <2>3, <2>4, UnreadNone, TakeAllTold
<1>6. CASE TakeRead(f)
  <2>1. /\ call[f].op = "read" /\ n \in Note /\ Shows(n, 0, list[n].new + list[n].old)
        /\ unread' = IF unread > 0 THEN unread - 1 ELSE 0
    BY <1>2, <1>6, TakeReadDoes
  <2>2. Shown(n) /\ unread = Unread(list)
    BY <1>2, <2>1, OneNote
  <2>3. For[n] = who /\ list[n] = Fresh /\ row[n] = "read"
    BY <1>1, <1>2, <2>1, <2>2 DEF Shown
  <2>4. list[n].new = 1 /\ list[n].old = 0
    BY <2>3, EntryValues
  <2>5. list' \in Lists /\ list'[n].new = 0 /\ list'[n].old = 1 /\ \A m \in Note \ {n} : list'[m] = list[m]
    BY <2>1, <2>4 DEF Shows
  <2>6. list'[n] = Seen
    BY <2>1, <2>5, EntryIs, ListsEntries
  <2>7. Unread(list) = Unread(list') + 1
    BY <2>1, <2>4, <2>5, UnreadMore
  <2>8. unread' = Unread(list')
    BY <2>1, <2>2, <2>7, UnreadNat
  <2>9. Due(n) = Seen
    BY <2>3 DEF Due
  <2> QED BY <1>1, <1>2, <2>1, <2>5, <2>6, <2>8, <2>9, TakeOneTold
<1>7. CASE TakeArchive(f)
  <2>1. /\ call[f].op = "archive" /\ n \in Note /\ Shows(n, 0, 0)
        /\ unread' = IF list[n].new > 0 THEN unread - 1 ELSE unread
    BY <1>2, <1>7, TakeArchiveDoes
  <2>2. Shown(n) /\ unread = Unread(list)
    BY <1>2, <2>1, OneNote
  <2>3. list[n] \in {Fresh, Seen} /\ row[n] = "gone"
    BY <1>1, <1>2, <2>1, <2>2 DEF Shown
  <2>4. list' \in Lists /\ list'[n].new = 0 /\ list'[n].old = 0 /\ \A m \in Note \ {n} : list'[m] = list[m]
    BY <2>1 DEF Shows
  <2>5. list'[n] = Absent
    BY <2>1, <2>4, EntryIs, ListsEntries
  <2>6. unread' = Unread(list')
    <3>1. CASE list[n] = Fresh
      <4>1. Unread(list) = Unread(list') + 1
        BY <2>1, <2>4, <3>1, EntryValues, UnreadMore
      <4> QED BY <2>1, <2>2, <3>1, <4>1, EntryValues, UnreadNat
    <3>2. CASE list[n] = Seen
      <4>1. list[n].new = 0
        BY <3>2, EntryValues
      <4>2. \A m \in Note : list[m].new > 0 <=> list'[m].new > 0
        BY <2>4, <4>1
      <4>3. Unread(list') = Unread(list)
        BY <4>2, UnreadSame
      <4> QED BY <2>1, <2>2, <4>1, <4>3
    <3> QED BY <2>3, <3>1, <3>2
  <2>7. Due(n) = Absent
    BY <2>3 DEF Due
  <2> QED BY <1>1, <1>2, <2>1, <2>4, <2>5, <2>6, <2>7, TakeOneTold
<1> QED BY <1>4, <1>5, <1>6, <1>7 DEF Take

LEMMA MissTold ==
  ASSUME FeedTyped, Told, NEW f \in Flow, Miss(f), exact'
  PROVE  Told'
<1>1. /\ call[f].op # "fetch" /\ call[f].ans # "ok" /\ call' = [call EXCEPT ![f] = NoCall]
      /\ UNCHANGED <<who, row, unsent, wire, ears, list, unread>>
  BY DEF Miss, link
<1>2. /\ call'[f].op = "none" /\ call'[f].note \notin Note /\ call'[f].ans = "none"
      /\ \A g \in Flow \ {f} : call'[g] = call[g]
      /\ Apart' /\ (Fetching' <=> Fetching) /\ \A n \in Note : Ahead(n)'
  BY <1>1, OverKeeps
<1>3. ASSUME NEW n \in Note, Shown(n) PROVE Shown(n)'
  <2>1. Served(n) => Served(n)'
    BY <1>1, <1>2 DEF Served
  <2>2. Due(n)' = Due(n)
    BY <1>1, DueKept
  <2>3. \A g \in Flow : call'[g] = call[g] \/ (call'[g].op = "none" /\ call'[g].note # n)
    BY <1>2
  <2>4. n \in Awaited' <=> n \in Awaited
    BY <1>1 DEF Awaited
  <2> QED BY <1>1, <1>3, <2>1, <2>2, <2>3, <2>4 DEF Shown
<1>4. \A g \in Flow : call'[g].op # "none" => call'[g].by = who
  BY <1>2 DEF Told
<1>5. Fetches'
  BY <1>1, <1>2, FetchesFrame DEF Told
<1> QED BY <1>1, <1>2, <1>3, <1>4, <1>5 DEF Told

(***************************************************************************)
(* Calls that begin                                                        *)
(***************************************************************************)

LEMMA AskedKeeps ==
  ASSUME NEW f \in Flow, NEW op, NEW note, Asked(f, op, note)
  PROVE  /\ call[f].op = "none"
         /\ call'[f].op = op /\ call'[f].note = note /\ call'[f].by = who /\ call'[f].ans = "none"
         /\ \A g \in Flow \ {f} : call'[g] = call[g]
BY DEF Asked, Becomes

LEMMA MountTold ==
  ASSUME LinkTypeOK, FeedTyped, NEW f \in Flow, MountBell(f), exact'
  PROVE  Told'
<1>1. Quiet /\ Awaited = {} /\ UNCHANGED <<who, unsent, wire>> /\ who \in User
  BY DEF MountBell, Mount, LinkTypeOK
<1>2. Asked(f, "fetch", NoNote)
  BY <1>1, AskDoes DEF MountBell, Ops, FeedTyped
<1>3. /\ call'[f].op = "fetch" /\ call'[f].by = who /\ call'[f].ans = "none"
      /\ \A g \in Flow \ {f} : call'[g].op = "none"
  BY <1>1, <1>2, AskedKeeps DEF Quiet
<1>4. Fetching' /\ Apart'
  BY <1>3 DEF Fetching, Apart
<1>5. \A n \in Note : Ahead(n)'
  BY <1>1 DEF Ahead, Awaited
<1>6. wire' = {}
  BY <1>1 DEF Awaited
<1>7. \A g \in Flow : ~(call'[g].op = "fetch" /\ call'[g].ans = "ok")
  BY <1>3
<1> QED BY <1>1, <1>3, <1>4, <1>5, <1>6, <1>7 DEF Told, Fetches

LEMMA AskAllTold ==
  ASSUME LinkTypeOK, FeedTyped, Told, NEW f \in Flow, AskAll(f), exact'
  PROVE  Told'
<1>1. Quiet /\ Awaited = {} /\ UNCHANGED <<who, row, unsent, wire, ears, list, unread>> /\ who \in User
  BY DEF AskAll, LinkTypeOK, link
<1>2. Asked(f, "readAll", NoNote)
  BY <1>1, AskDoes DEF AskAll, Ops, FeedTyped
<1>3. /\ call'[f].op = "readAll" /\ call'[f].note = NoNote /\ call'[f].by = who /\ call'[f].ans = "none"
      /\ \A g \in Flow \ {f} : call'[g] = call[g] /\ call'[g].op = "none"
  BY <1>1, <1>2, AskedKeeps DEF Quiet
<1>4. ~Fetching /\ ~Fetching' /\ Apart'
  BY <1>1, <1>3 DEF Fetching, Apart, Quiet
<1>5. ASSUME NEW n \in Note PROVE Shown(n)'
  <2>1. \A g \in Flow : call[g].note # n /\ call[g].ans # "ok"
    BY <1>1, NotesOf, AnswersOf DEF Quiet
  <2>2. Shown(n) /\ ~Served(n)
    BY <1>4, <2>1 DEF Told, Served
  <2>3. \A g \in Flow : call'[g].note # n /\ call'[g].ans # "ok"
    BY <1>3, <2>1, NotificationFeedAssumption DEF NotificationFeedAssumption
  <2>4. Due(n)' = Due(n)
    BY <1>1, DueKept
  <2>5. n \notin Awaited' /\ n \notin Awaited
    BY <1>1 DEF Awaited
  <2> QED BY <1>1, <2>2, <2>3, <2>4, <2>5 DEF Shown
<1>6. \A n \in Note : Ahead(n)'
  BY <1>1 DEF Ahead, Awaited
<1> QED BY <1>1, <1>3, <1>4, <1>5, <1>6 DEF Told, Fetches, Fetching

LEMMA AskOneTold ==
  ASSUME LinkTypeOK, FeedTyped, Told, NEW f \in Flow, NEW op \in {"read", "archive"}, NEW n \in Note,
         AskOne(f, op, n), exact'
  PROVE  Told'
<1>1. /\ ~Sweeping /\ \A g \in Flow : call[g].note # n
      /\ UNCHANGED <<who, row, unsent, wire, ears, list, unread>> /\ who \in User
  BY DEF AskOne, LinkTypeOK, link
<1>2. Asked(f, op, n)
  BY <1>1, AskDoes DEF AskOne, Ops, FeedTyped
<1>3. /\ call[f].op = "none"
      /\ call'[f].op = op /\ call'[f].note = n /\ call'[f].by = who /\ call'[f].ans = "none"
      /\ \A g \in Flow \ {f} : call'[g] = call[g]
  BY <1>2, AskedKeeps
<1>4. ~Fetching /\ ~Fetching' /\ ~Sweeping' /\ Apart'
  BY <1>1, <1>3 DEF Fetching, Sweeping, Apart, Told
<1>5. \A m \in Note : m \in Awaited' <=> m \in Awaited
  BY <1>1 DEF Awaited
<1>6. ASSUME NEW m \in Note \ {n} PROVE Shown(m)'
  <2>1. ~About(call[f], m) /\ ~About(call'[f], m)
    BY <1>3, NotesOf DEF About
  <2> QED BY <1>1, <1>3, <1>4, <1>5, <2>1, ShownFrame DEF Told
<1>7. Shown(n)'
  <2>1. Shown(n) /\ ~Served(n)
    BY <1>1, <1>4 DEF Told, Served, Sweeping
  <2>2. list[n] # Absent /\ (op = "read" => list[n].new > 0)
    BY EntryValues DEF AskOne, Listed, Absent
  <2>3. n \notin Awaited /\ list[n] = Due(n)
    BY <2>1, <2>2 DEF Shown
  <2>4. For[n] = who /\ row[n] \in {"unread", "read"}
    BY <2>2, <2>3 DEF Due
  <2>5. op = "read" => list[n] = Fresh /\ row[n] = "unread"
    BY <2>2, <2>3, <2>4, EntryValues DEF Due
  <2>6. ~Served(n)'
    BY <1>1, <1>3, <1>4 DEF Served, Sweeping
  <2>7. Due(n)' = Due(n)
    BY <1>1, DueKept
  <2>8. \A g \in Flow \ {f} : call'[g].note # n
    BY <1>1, <1>3
  <2> QED BY <1>1, <1>3, <1>4, <1>5, <2>1, <2>2, <2>3, <2>4, <2>5, <2>7, <2>8 DEF Shown, Sweeping
<1>8. n \notin Awaited
  BY <1>1, <1>4, EntryValues DEF AskOne, Listed, Absent, Told, Shown
<1>9. ASSUME NEW m \in Note PROVE Ahead(m)'
  <2>1. m # n => \A g \in Flow : About(call'[g], m) => About(call[g], m)
    BY <1>3 DEF About
  <2> QED BY <1>1, <1>8, <2>1, AheadFrame DEF Told
<1>10. \A g \in Flow : call'[g].op # "none" => call'[g].by = who
  BY <1>3 DEF Told
<1> QED BY <1>1, <1>4, <1>6, <1>7, <1>9, <1>10 DEF Told, Fetches, Fetching

LEMMA ToldNext ==
  ASSUME LinkTypeOK, FeedTyped, exact => Told, [Next]_vars
  PROVE  exact' => Told'
<1> SUFFICES ASSUME exact' PROVE Told'
  OBVIOUS
<1>1. ASSUME NEW n \in Note, Notify(n) \/ Emit(n) \/ Elsewhere(n) \/ Hear(n) PROVE Told'
  <2>1. exact
    BY <1>1 DEF Notify, Emit, Elsewhere, Hear
  <2>2. CASE Elsewhere(n)
    <3>1. For[n] # who /\ UNCHANGED <<who, unsent, wire, ears, list, unread, call>>
      BY <2>2 DEF Elsewhere, link
    <3>2. \A m \in Note \ {n} : row'[m] = row[m]
      BY <2>2 DEF Elsewhere, FeedTyped, RowsTyped
    <3>3. \A m \in Note : row'[m] = row[m] \/ For[m] # who
      BY <3>1, <3>2
    <3> QED BY <2>1, <3>1, <3>3, UnseenTold
  <2> QED BY <1>1, <2>1, <2>2, NotifyTold, EmitTold, HearTold
<1>2. ASSUME NEW f \in Flow, MountBell(f) \/ AskAll(f) \/ Serve(f) \/ Take(f) \/ Miss(f) PROVE Told'
  <2>1. MountBell(f) \/ exact
    BY <1>2 DEF AskAll, Serve, Take, TakeFetch, Miss
  <2> QED BY <1>2, <2>1, MountTold, AskAllTold, ServeTold, TakeTold, MissTold
<1>3. ASSUME NEW f \in Flow, NEW op \in {"read", "archive"}, NEW n \in Note, AskOne(f, op, n)
      PROVE  Told'
  <2>1. exact
    BY <1>3 DEF AskOne
  <2> QED BY <1>3, <2>1, AskOneTold
<1>4. CASE LinkStep
  <2>1. exact /\ UNCHANGED <<who, row, unsent, wire, ears, list, unread, call>>
    BY <1>4 DEF LinkStep, Cut
  <2> QED BY <2>1, UnseenTold
<1>5. ~ReloadPage
  BY DEF ReloadPage
<1>6. CASE StopServer
  <2>1. /\ exact /\ UNCHANGED <<who, row, wire, ears, list, unread, call>>
        /\ unsent' = {} /\ \A n \in unsent : For[n] # who
    BY <1>6 DEF StopServer, link
  <2> QED BY <2>1, UnseenTold
<1>7. CASE UNCHANGED vars
  BY <1>7, UnseenTold DEF vars, feed, link
<1> QED BY <1>1, <1>2, <1>3, <1>4, <1>5, <1>6, <1>7 DEF Next

LEMMA ToldExact ==
  ASSUME FeedTyped, exact => Told
  PROVE  BellExact
<1> SUFFICES ASSUME exact, Quiet, Awaited = {} PROVE list = Rows(who) /\ unread = Unread(list)
  BY DEF BellExact
<1>1. ~Fetching
  BY DEF Quiet, Fetching
<1>2. \A n \in Note : ~Served(n) /\ Shown(n)
  BY <1>1, AnswersOf DEF Quiet, Served, Told
<1>3. \A n \in Note : list[n] = Due(n)
  BY <1>2 DEF Shown
<1>4. list = [n \in Note |-> Due(n)]
  BY <1>3, ListsEntries DEF FeedTyped, StoreTyped
<1> QED BY <1>1, <1>4, RowsDue DEF Told

\* When all is answered, sent and heard, a tab that was told everything once since
\* its last fetch began shows and counts what the server has, for any number of
\* notifications, saved, announced, fetched, read and archived in any order
\* (notificationStore.ts, notification.service.ts).
THEOREM BellExactCorrect == Spec => []BellExact
<1>1. Init => (exact => Told)
  BY DEF Init
<1>2. LinkInv /\ FeedTyped /\ (exact => Told) /\ [Next]_vars => (exact => Told)'
  BY ToldNext DEF LinkInv
<1>3. FeedTyped /\ (exact => Told) => BellExact
  BY ToldExact
<1> QED BY <1>1, <1>2, <1>3, LinkInvAlways, FeedTypedAlways, PTL DEF Spec
=============================================================================
