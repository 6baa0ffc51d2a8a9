----------------------------- MODULE RoomsPanel -----------------------------
(***************************************************************************)
(* The rooms panel of the web console (skytimeServerGroupMainCtl and its   *)
(* factories in static/scripts/main.js), with the handlers of              *)
(* server/apis.go that answer it.                                          *)
(*                                                                         *)
(* The page is one thread: a click or a callback is one step, and nothing  *)
(* runs while an alert is up.  Requests are answered in any order, and one *)
(* may fail before or after its handler has run.  Every dialog has a scope *)
(* of its own; dialogs may be open together.                               *)
(***************************************************************************)
EXTENDS Integers, Sequences, FiniteSets

CONSTANTS
    Dialogs,     \* the dialogs the operator opens
    KindsOf,     \* bound: which ones a dialog may be
    NumRooms,    \* the rooms are room_0 .. room_(NumRooms - 1)
    Peers,       \* peer_ids
    RoomOf,      \* the room a peer_id hashes to
    RangeTasks,  \* what may be in the fields of a range dialog
    SetTasks,    \* what may be in the list of a set dialog
    MaxQueries,  \* bound: times the list is asked for
    MaxMoves,    \* bound: times a peer comes or goes
    MaxFails,    \* bound: requests that fail
    NoTask       \* the operator has not left the dialog with OK

Rooms == 0 .. NumRooms - 1
Queries == 1 .. MaxQueries

\* A field of type number holds the default, a string, until it is edited;
\* then a number, or null when it has been cleared.
Field == [as : {"string", "null", "number", "fraction"}, n : Int]

\* A room number in a comma-separated list, with a space before it or not.
Token == [room : Int, space : BOOLEAN]

ASSUME PanelConstants ==
    /\ NumRooms \in Nat /\ MaxQueries \in Nat \ {0}
    /\ MaxMoves \in Nat /\ MaxFails \in Nat
    /\ KindsOf \in [Dialogs -> SUBSET {"view", "all", "range", "set", "peers"}]
    /\ RoomOf \in [Peers -> Rooms]
    /\ \A t \in RangeTasks : t.from \in Field /\ t.to \in Field
    /\ \A t \in SetTasks : t \subseteq Token

Kinds == {"view", "all", "range", "set", "peers"}

\* What the dialog of a kind can hand to $modalInstance.close.  For "all" it
\* is whether something has been typed, for "view" the room of the row.
Tasks(k) ==
    CASE k = "view" -> Rooms
      [] k = "all" -> BOOLEAN
      [] k = "range" -> RangeTasks
      [] k = "set" -> SetTasks
      [] k = "peers" -> SUBSET Peers

VARIABLES
    allowed,  \* the address of the operator passes check_console_ipf
    online,   \* the peers that are in the connections of their room
    moves,    \* how often one has come or gone
    query,    \* where a request for /api/server_rooms is
    rows,     \* the rows its handler has read: [num, seen]
    latest,   \* the query whose array is $scope.server_rooms
    asked,    \* history: moves when that query was made
    server_rooms, \* what is in that array
    dialog,   \* a dialog: unopened, open, gone
    kind,     \* which dialog it is
    task,     \* the room it views, or what OK has handed over
    call,     \* where the request of the dialog is
    peers,    \* {$scope.peers} of the dialog, {} while it is undefined
    answer,   \* what apiRoomview has answered
    job,      \* the goroutine of the handler: none, sleeping, done
    targets,  \* room_ids or peer_ids of the goroutine
    pushed,   \* the rooms or peers that were given the push
    told,     \* what the alert for the dialog said
    alert,    \* an alert is up
    fails     \* how many requests have failed

listVars == <<query, rows, latest, asked, server_rooms>>
dialogVars == <<dialog, kind, task, peers, told>>
handlerVars == <<answer, job, targets, pushed>>
panelVars == <<allowed, online, moves, listVars, dialogVars, call,
               handlerVars, alert, fails>>

Connections(r) == {p \in online : RoomOf[p] = r}

PanelTypeOK ==
    /\ allowed \in BOOLEAN /\ alert \in BOOLEAN
    /\ online \subseteq Peers
    /\ moves \in 0 .. MaxMoves /\ fails \in 0 .. MaxFails
    /\ query \in [Queries -> {"unsent", "sent", "over"}]
    /\ \A q \in Queries : Len(rows[q]) <= NumRooms
    /\ latest \in Queries
    /\ asked \in 0 .. MaxMoves
    /\ Len(server_rooms) \in {0, NumRooms}
    /\ dialog \in [Dialogs -> {"unopened", "open", "gone"}]
    /\ kind \in [Dialogs -> Kinds]
    /\ call \in [Dialogs -> {"none", "sent", "answered", "failed", "over"}]
    /\ peers \in [Dialogs -> SUBSET SUBSET Peers]
    /\ job \in [Dialogs -> {"none", "sleeping", "done"}]
    /\ told \in [Dialogs -> {"nothing", "success", "failure"}]

\* The page has been opened: the list has been asked for, and is empty.  The
\* peers are connected; they may leave and come back.
PanelInit ==
    /\ allowed \in BOOLEAN
    /\ online = Peers
    /\ moves = 0
    /\ query = [q \in Queries |-> IF q = 1 THEN "sent" ELSE "unsent"]
    /\ rows = [q \in Queries |-> <<>>]
    /\ latest = 1
    /\ asked = 0
    /\ server_rooms = <<>>
    /\ dialog = [d \in Dialogs |-> "unopened"]
    /\ kind = [d \in Dialogs |-> "view"]
    /\ task = [d \in Dialogs |-> NoTask]
    /\ call = [d \in Dialogs |-> "none"]
    /\ peers = [d \in Dialogs |-> {}]
    /\ answer = [d \in Dialogs |-> {}]
    /\ job = [d \in Dialogs |-> "none"]
    /\ targets = [d \in Dialogs |-> {}]
    /\ pushed = [d \in Dialogs |-> {}]
    /\ told = [d \in Dialogs |-> "nothing"]
    /\ alert = FALSE
    /\ fails = 0

----------------------------------------------------------------------------
(* The server                                                              *)

\* A peer registers or unregisters.  Bound: MaxMoves.
PeerMoves(p) ==
    /\ moves < MaxMoves
    /\ moves' = moves + 1
    /\ online' = IF p \in online THEN online \ {p} ELSE online \cup {p}
    /\ UNCHANGED <<allowed, listVars, dialogVars, call, handlerVars, alert,
                   fails>>

\* apiGetServerGroup reads the rooms one after the other.
ReadRow(q) ==
    /\ query[q] = "sent"
    /\ allowed
    /\ Len(rows[q]) < NumRooms
    /\ rows' = [rows EXCEPT ![q] =
          Append(@, [num |-> Cardinality(Connections(Len(@))), seen |-> moves])]
    /\ UNCHANGED <<allowed, online, moves, query, latest, asked, server_rooms,
                   dialogVars, call, handlerVars, alert, fails>>

\* It answers when it has them all, and at once, with nothing, where the
\* address is refused.
Answered(q) ==
    /\ query[q] = "sent"
    /\ allowed => Len(rows[q]) = NumRooms

\* apiRoomview answers with the connections of the room.  (The range over the
\* map, which no lock protects, is one step: the properties ask only whose
\* room a peer on the page is in.)
HandleView(d) ==
    /\ call[d] = "sent" /\ kind[d] = "view"
    /\ answer' = [answer EXCEPT ![d] =
          IF allowed THEN Connections(task[d]) ELSE {}]
    /\ call' = [call EXCEPT ![d] = "answered"]
    /\ UNCHANGED <<allowed, online, moves, listVars, dialogVars, job, targets,
                   pushed, alert, fails>>

\* json.Unmarshal into an int: a string or a fraction is an error, null
\* leaves the zero value.
IsInt(f) == f.as \in {"null", "number"}
IntOf(f) == IF f.as = "number" THEN f.n ELSE 0

\* Mutant of RangeRooms: the error of json.Unmarshal is ignored.
RangeRoomsAnyway(t) == IntOf(t.from) .. IntOf(t.to)

\* room_ids of apiBroadcastRange: none where Unmarshal failed.
RangeRooms(t) ==
    IF IsInt(t.from) /\ IsInt(t.to) THEN IntOf(t.from) .. IntOf(t.to) ELSE {}

\* room_ids of apiBroadcastSet.  TrimSpace is applied to "room_" and the
\* number together: a space before the number stays, and names no room.
SetRooms(t) == {k.room : k \in {j \in t : ~j.space}}

Decode(k, t) ==
    CASE k = "all" -> Rooms
      [] k = "range" -> RangeRooms(t)
      [] k = "set" -> SetRooms(t)
      [] k = "peers" -> t

\* The four broadcast handlers: a refused address gets an empty answer, any
\* other starts the goroutine, and every answer has status 200.
HandlePost(d) ==
    /\ call[d] = "sent" /\ kind[d] # "view"
    /\ call' = [call EXCEPT ![d] = "answered"]
    /\ IF allowed
       THEN /\ job' = [job EXCEPT ![d] = "sleeping"]
            /\ targets' = [targets EXCEPT ![d] = Decode(kind[d], task[d])]
       ELSE UNCHANGED <<job, targets>>
    /\ UNCHANGED <<allowed, online, moves, listVars, dialogVars, answer,
                   pushed, alert, fails>>

\* The goroutine wakes up after 100 ms and makes the push: rooms and peers
\* that are not found are passed over.
RunJob(d) ==
    /\ job[d] = "sleeping"
    /\ job' = [job EXCEPT ![d] = "done"]
    /\ pushed' = [pushed EXCEPT ![d] =
          targets[d] \cap (IF kind[d] = "peers" THEN online ELSE Rooms)]
    /\ targets' = [targets EXCEPT ![d] = {}]
    /\ UNCHANGED <<allowed, online, moves, listVars, dialogVars, call, answer,
                   alert, fails>>

----------------------------------------------------------------------------
(* The list                                                                *)

\* refresh(): server_rooms becomes a new, empty array.
RefreshList(q) ==
    /\ ~alert
    /\ query[q] = "unsent" /\ q = latest + 1
    /\ query' = [query EXCEPT ![q] = "sent"]
    /\ latest' = q
    /\ asked' = moves
    /\ server_rooms' = <<>>
    /\ UNCHANGED <<allowed, online, moves, rows, dialogVars, call, handlerVars,
                   alert, fails>>

QueryOver(q) ==
    /\ query' = [query EXCEPT ![q] = "over"]
    /\ rows' = [rows EXCEPT ![q] = <<>>]

\* Mutant of FillArray: the answer goes to whatever the page shows.
FillArrayShown(q) ==
    /\ ~alert
    /\ Answered(q)
    /\ QueryOver(q)
    /\ server_rooms' = rows[q]
    /\ UNCHANGED <<allowed, online, moves, latest, asked, dialogVars, call,
                   handlerVars, alert, fails>>

\* The answer fills the array its own query() returned, which the page shows
\* only if it has not been refreshed since.
FillArray(q) ==
    /\ ~alert
    /\ Answered(q)
    /\ QueryOver(q)
    /\ server_rooms' = IF q = latest THEN rows[q] ELSE server_rooms
    /\ UNCHANGED <<allowed, online, moves, latest, asked, dialogVars, call,
                   handlerVars, alert, fails>>

\* The request fails: query() has no error callback.
ListFails(q) ==
    /\ query[q] = "sent"
    /\ fails < MaxFails
    /\ fails' = fails + 1
    /\ QueryOver(q)
    /\ UNCHANGED <<allowed, online, moves, latest, asked, server_rooms,
                   dialogVars, call, handlerVars, alert>>

----------------------------------------------------------------------------
(* The dialogs                                                             *)

\* broadPeers, broadcastAllRoom, rangeSet, broadSet
OpenDialog(d, k) ==
    /\ ~alert
    /\ dialog[d] = "unopened" /\ k # "view" /\ k \in KindsOf[d]
    /\ dialog' = [dialog EXCEPT ![d] = "open"]
    /\ kind' = [kind EXCEPT ![d] = k]
    /\ UNCHANGED <<allowed, online, moves, listVars, task, peers, told, call,
                   handlerVars, alert, fails>>

\* checkRoom(room), on a row of the list: the request is made at once.
CheckRoom(d, r) ==
    /\ ~alert
    /\ dialog[d] = "unopened" /\ "view" \in KindsOf[d]
    /\ r < Len(server_rooms)
    /\ dialog' = [dialog EXCEPT ![d] = "open"]
    /\ task' = [task EXCEPT ![d] = r]
    /\ call' = [call EXCEPT ![d] = "sent"]
    /\ UNCHANGED <<allowed, online, moves, listVars, kind, peers, told,
                   handlerVars, alert, fails>>

\* OK closes the dialog, and result.then makes the request in the same turn,
\* unless what it got is empty.  A second click finds the dialog closed.
Ok(d, t) ==
    /\ ~alert
    /\ dialog[d] = "open" /\ kind[d] # "view" /\ t \in Tasks(kind[d])
    /\ dialog' = [dialog EXCEPT ![d] = "gone"]
    /\ task' = [task EXCEPT ![d] = t]
    /\ call' = [call EXCEPT ![d] =
          IF kind[d] = "all" /\ ~t THEN "none" ELSE "sent"]
    /\ UNCHANGED <<allowed, online, moves, listVars, kind, peers, told,
                   handlerVars, alert, fails>>

\* Cancel closes with null, Escape and a click outside dismiss, and the OK of
\* the dialog of a room only closes it: no request.
Cancel(d) ==
    /\ ~alert
    /\ dialog[d] = "open"
    /\ dialog' = [dialog EXCEPT ![d] = "gone"]
    /\ UNCHANGED <<allowed, online, moves, listVars, kind, task, peers, told,
                   call, handlerVars, alert, fails>>

----------------------------------------------------------------------------
(* The callbacks                                                           *)

\* Mutant of ShowPeers: the dialogs share one scope.
ShowPeersShared(d) ==
    /\ ~alert
    /\ call[d] = "answered" /\ kind[d] = "view"
    /\ call' = [call EXCEPT ![d] = "over"]
    /\ peers' = [e \in Dialogs |->
          IF dialog[e] = "open" /\ kind[e] = "view" THEN {answer[d]} ELSE peers[e]]
    /\ answer' = [answer EXCEPT ![d] = {}]
    /\ UNCHANGED <<allowed, online, moves, listVars, dialog, kind, task, told,
                   job, targets, pushed, alert, fails>>

\* viewRoom's success callback.  The handler writes no peers as null, which
\* Angular does not take for an array: no callback is called then.  The empty
\* answer of a refused address counts as no peers.
ShowPeers(d) ==
    /\ ~alert
    /\ call[d] = "answered" /\ kind[d] = "view"
    /\ call' = [call EXCEPT ![d] = "over"]
    /\ peers' = [peers EXCEPT ![d] =
          IF allowed /\ answer[d] = {} THEN @ ELSE {answer[d]}]
    /\ answer' = [answer EXCEPT ![d] = {}]
    /\ UNCHANGED <<allowed, online, moves, listVars, dialog, kind, task, told,
                   job, targets, pushed, alert, fails>>

\* The success callback of a push.
AlertSuccess(d) ==
    /\ ~alert
    /\ call[d] = "answered" /\ kind[d] # "view"
    /\ call' = [call EXCEPT ![d] = "over"]
    /\ told' = [told EXCEPT ![d] = "success"]
    /\ alert' = TRUE
    /\ UNCHANGED <<allowed, online, moves, listVars, dialog, kind, task, peers,
                   handlerVars, fails>>

\* A request of a dialog is lost before its handler runs, or its answer is
\* lost: then the push is made all the same.  The first case stands also for a
\* connection that breaks within the body: ioutil.ReadAll fails, the handler
\* starts no goroutine, and its answer has no way back to the page.
CallFails(d) ==
    /\ call[d] \in {"sent", "answered"}
    /\ fails < MaxFails
    /\ fails' = fails + 1
    /\ call' = [call EXCEPT ![d] = "failed"]
    /\ UNCHANGED <<allowed, online, moves, listVars, dialogVars, handlerVars,
                   alert>>

\* Mutant of AlertFailure: every callback says success.
AlertFailureAsSuccess(d) ==
    /\ ~alert
    /\ call[d] = "failed"
    /\ call' = [call EXCEPT ![d] = "over"]
    /\ told' = [told EXCEPT ![d] = "success"]
    /\ alert' = TRUE
    /\ UNCHANGED <<allowed, online, moves, listVars, dialog, kind, task, peers,
                   handlerVars, fails>>

\* The error callback.
AlertFailure(d) ==
    /\ ~alert
    /\ call[d] = "failed"
    /\ call' = [call EXCEPT ![d] = "over"]
    /\ told' = [told EXCEPT ![d] = "failure"]
    /\ alert' = TRUE
    /\ UNCHANGED <<allowed, online, moves, listVars, dialog, kind, task, peers,
                   handlerVars, fails>>

DismissAlert ==
    /\ alert
    /\ alert' = FALSE
    /\ UNCHANGED <<allowed, online, moves, listVars, dialogVars, call,
                   handlerVars, fails>>

----------------------------------------------------------------------------

Callback(d) == ShowPeers(d) \/ AlertSuccess(d) \/ AlertFailure(d)

\* What happens of itself to the request of a dialog.
DialogStep(d) == HandleView(d) \/ HandlePost(d) \/ Callback(d)

PanelNext ==
    \/ \E p \in Peers : PeerMoves(p)
    \/ \E q \in Queries : \/ ReadRow(q) \/ FillArray(q) \/ ListFails(q)
                          \/ RefreshList(q)
    \/ \E d \in Dialogs :
          \/ DialogStep(d) \/ RunJob(d) \/ CallFails(d) \/ Cancel(d)
          \/ \E k \in Kinds : OpenDialog(d, k)
          \/ \E r \in Rooms : CheckRoom(d, r)
          \/ \E t \in Tasks(kind[d]) : Ok(d, t)
    \/ DismissAlert

----------------------------------------------------------------------------

\* What is on the page is never older than the last press of refresh: an
\* answer that comes late fills an array nobody shows any more.
ListFresh ==
    \A i \in 1 .. Len(server_rooms) : server_rooms[i].seen >= asked

\* The dialog of a room shows peers of that room and of no other, whichever
\* answers come while several dialogs are open.
OwnPeers ==
    \A d \in Dialogs : \A p \in UNION peers[d] : RoomOf[p] = task[d]

\* The rooms or peers the fields of the dialog name: a field that has been
\* cleared is 0, one that has not been touched or is no integer names none.
Named(d) ==
    CASE kind[d] = "all" -> Rooms
      [] kind[d] = "range" ->
            {r \in Rooms :
                /\ IsInt(task[d].from) /\ IntOf(task[d].from) <= r
                /\ IsInt(task[d].to) /\ r <= IntOf(task[d].to)}
      [] kind[d] = "set" -> {k.room : k \in task[d]} \cap Rooms
      [] kind[d] = "peers" -> task[d]

\* A push goes to nobody the operator did not name, and there is none for a
\* dialog that was not left with OK: neither a failed json.Unmarshal nor a
\* request that is answered twice over widens it.
PushWithinNamed ==
    \A d \in Dialogs :
        job[d] # "none" => /\ kind[d] # "view"
                           /\ call[d] # "none"
                           /\ pushed[d] \subseteq Named(d)

\* When the request of a push is over, the operator has been told how it
\* ended, in spite of other dialogs and their alerts; and where the address is
\* allowed, "success" is said only of a push the server has taken on.
AlertTells ==
    \A d \in Dialogs :
        /\ call[d] = "over" /\ kind[d] # "view" => told[d] # "nothing"
        /\ allowed /\ told[d] = "success" => job[d] # "none"
=============================================================================
