-------------------------- MODULE RoomsPanelProofs --------------------------
(***************************************************************************)
(* Inductive invariant of the rooms panel, for any number of rooms, peers, *)
(* dialogs and requests.  The list and the dialogs depend on each other    *)
(* only through the address filter (allowed), so the invariant has a half  *)
(* for each; OperatorProofs draws the theorems from it.                    *)
(***************************************************************************)
EXTENDS RoomsPanel, TLAPS

\* A row of /api/server_rooms.
Row == [num : {Cardinality(S) : S \in SUBSET Peers}, seen : 0 .. MaxMoves]

\* The list.  An array that is being filled belongs to a request under way,
\* a refused address gets no rows, and the rows for the array on the page were
\* read after refresh() made it.
ListInv ==
    /\ allowed \in BOOLEAN
    /\ online \subseteq Peers
    /\ moves \in 0 .. MaxMoves /\ fails \in 0 .. MaxFails
    /\ query \in [Queries -> {"unsent", "sent", "over"}]
    /\ rows \in [Queries -> Seq(Row)]
    /\ latest \in Queries
    /\ asked \in 0 .. moves
    /\ server_rooms \in Seq(Row)
    /\ Len(server_rooms) \in {0, NumRooms}
    /\ \A q \in Queries : /\ Len(rows[q]) <= NumRooms
                          /\ query[q] # "sent" \/ ~allowed => rows[q] = <<>>
    /\ \A i \in 1 .. Len(rows[latest]) : rows[latest][i].seen >= asked
    /\ ListFresh

\* A request is made once for a dialog, after which the dialog keeps its task
\* and its kind.
RequestInv(d) ==
    /\ dialog[d] = "unopened" => call[d] = "none" /\ kind[d] = "view"
    /\ dialog[d] = "open" /\ kind[d] # "view" => call[d] = "none"
    /\ call[d] = "none" => /\ job[d] = "none" /\ told[d] = "nothing"
                           /\ answer[d] = {} /\ peers[d] = {}
    /\ call[d] # "none" /\ kind[d] # "view" => task[d] \in Tasks(kind[d])

\* The peers on their way to the dialog of a room, and those it shows.
ViewInv(d) ==
    /\ answer[d] \subseteq {p \in Peers : RoomOf[p] = task[d]}
    /\ \A P \in peers[d] : P \subseteq {p \in Peers : RoomOf[p] = task[d]}

\* A push: its handler runs once, and leaves what the goroutine needs.
PushInv(d) ==
    /\ job[d] # "none" => call[d] \notin {"none", "sent"} /\ kind[d] # "view"
    /\ job[d] = "sleeping" => targets[d] = Decode(kind[d], task[d])
    /\ pushed[d] \subseteq (IF job[d] = "done" THEN Named(d) ELSE {})

\* What the operator is told.
ToldInv(d) ==
    /\ allowed /\ call[d] = "answered" /\ kind[d] # "view" => job[d] # "none"
    /\ call[d] = "over" /\ kind[d] # "view" => told[d] # "nothing"
    /\ allowed /\ told[d] = "success" => job[d] # "none"

DialogType ==
    /\ alert \in BOOLEAN
    /\ dialog \in [Dialogs -> {"unopened", "open", "gone"}]
    /\ kind \in [Dialogs -> Kinds]
    /\ task = [d \in Dialogs |-> task[d]]
    /\ call \in [Dialogs -> {"none", "sent", "answered", "failed", "over"}]
    /\ peers \in [Dialogs -> SUBSET SUBSET Peers]
    /\ answer \in [Dialogs -> SUBSET Peers]
    /\ job \in [Dialogs -> {"none", "sleeping", "done"}]
    /\ targets = [d \in Dialogs |-> targets[d]]
    /\ pushed = [d \in Dialogs |-> pushed[d]]
    /\ told \in [Dialogs -> {"nothing", "success", "failure"}]

DialogOK(d) == RequestInv(d) /\ ViewInv(d) /\ PushInv(d) /\ ToldInv(d)

DialogInv == DialogType /\ \A d \in Dialogs : DialogOK(d)

PanelInv == ListInv /\ DialogInv
----------------------------------------------------------------------------
\* The invariant implies what the runs check.
LEMMA PanelGoals ==
    ASSUME PanelInv
    PROVE  PanelTypeOK /\ ListFresh /\ OwnPeers /\ PushWithinNamed /\ AlertTells
<1>1. PanelTypeOK
  BY PanelConstants DEF PanelInv, ListInv, DialogInv, DialogType, PanelTypeOK,
     PanelConstants
<1>2. ListFresh
  BY DEF PanelInv, ListInv
<1>3. OwnPeers
  BY DEF PanelInv, DialogInv, DialogOK, ViewInv, OwnPeers
<1>4. PushWithinNamed
  <2> SUFFICES ASSUME NEW d \in Dialogs, job[d] # "none"
               PROVE  /\ kind[d] # "view" /\ call[d] # "none"
                      /\ pushed[d] \subseteq Named(d)
    BY DEF PushWithinNamed
  <2> QED BY DEF PanelInv, DialogInv, DialogOK, PushInv
<1>5. AlertTells
  BY DEF PanelInv, DialogInv, DialogOK, ToldInv, AlertTells
<1> QED BY <1>1, <1>2, <1>3, <1>4, <1>5

\* The page that has just been opened.
LEMMA PanelInitInv == PanelInit => PanelInv
<1> SUFFICES ASSUME PanelInit
             PROVE  PanelInv
  OBVIOUS
<1>1. ListInv
  BY PanelConstants DEF PanelInit, ListInv, PanelConstants, Queries, ListFresh
<1>2. DialogInv
  BY DEF PanelInit, DialogInv, DialogType, DialogOK, RequestInv, ViewInv,
     PushInv, ToldInv, Kinds
<1> QED BY <1>1, <1>2 DEF PanelInv

\* The invariant of a dialog speaks of the entries of that dialog only.
LEMMA DialogKeeps ==
    ASSUME NEW d \in Dialogs, DialogOK(d), UNCHANGED allowed,
           dialog'[d] = dialog[d], kind'[d] = kind[d], task'[d] = task[d],
           call'[d] = call[d], peers'[d] = peers[d], answer'[d] = answer[d],
           job'[d] = job[d], targets'[d] = targets[d],
           pushed'[d] = pushed[d], told'[d] = told[d]
    PROVE  DialogOK(d)'
<1>1. Named(d)' = Named(d)
  BY DEF Named
<1>2. RequestInv(d)' /\ ViewInv(d)' /\ ToldInv(d)'
  BY DEF DialogOK, RequestInv, ViewInv, ToldInv
<1>3. PushInv(d)'
  BY <1>1 DEF DialogOK, PushInv
<1> QED BY <1>2, <1>3 DEF DialogOK

\* Steps that concern no dialog.
LEMMA DialogsIdle ==
    ASSUME DialogInv, UNCHANGED <<allowed, dialogVars, call, handlerVars>>,
           alert' \in BOOLEAN
    PROVE  DialogInv'
<1>1. UNCHANGED <<dialog, kind, task, call, peers, answer, job, targets,
                  pushed, told>>
  BY DEF dialogVars, handlerVars
<1>2. DialogType'
  BY <1>1 DEF DialogInv, DialogType
<1>3. \A d \in Dialogs : DialogOK(d)'
  BY <1>1, DialogKeeps DEF DialogInv
<1> QED BY <1>2, <1>3 DEF DialogInv

\* Steps that concern the list in nothing.
LEMMA ListIdle ==
    ASSUME ListInv, UNCHANGED <<allowed, online, moves, listVars>>,
           fails' \in 0 .. MaxFails
    PROVE  ListInv'
BY DEF ListInv, ListFresh, listVars

\* Steps of the other parts of Operator.
LEMMA PanelIdle ==
    ASSUME PanelInv, UNCHANGED panelVars
    PROVE  PanelInv'
<1>1. /\ UNCHANGED <<allowed, online, moves, listVars, fails>>
      /\ UNCHANGED <<dialogVars, call, handlerVars, alert>>
  BY DEF panelVars
<1>2. fails' \in 0 .. MaxFails /\ alert' \in BOOLEAN
  BY <1>1 DEF PanelInv, ListInv, DialogInv, DialogType
<1> QED BY <1>1, <1>2, ListIdle, DialogsIdle DEF PanelInv
----------------------------------------------------------------------------
(* The list                                                                *)

\* A peer comes or goes.
LEMMA InvPeerMoves ==
    ASSUME PanelInv, NEW p \in Peers, PeerMoves(p)
    PROVE  PanelInv'
<1> USE DEF PanelInv, ListInv, PeerMoves, listVars
<1>0. UNCHANGED <<allowed, query, rows, latest, asked, server_rooms, fails>>
  OBVIOUS
<1>1. ListInv'
  <2>1. /\ moves' \in 0 .. MaxMoves /\ asked \in 0 .. moves'
        /\ online' \subseteq Peers
    BY PanelConstants DEF PanelConstants
  <2>2. ListFresh'
    BY <1>0 DEF ListFresh
  <2> QED BY <1>0, <2>1, <2>2
<1>2. DialogInv'
  BY DialogsIdle DEF DialogInv, DialogType
<1> QED BY <1>1, <1>2

\* The handler reads another room.
LEMMA InvReadRow ==
    ASSUME PanelInv, NEW q \in Queries, ReadRow(q)
    PROVE  PanelInv'
<1> DEFINE row == [num |-> Cardinality(Connections(Len(rows[q]))), seen |-> moves]
<1>1. /\ rows' = [rows EXCEPT ![q] = Append(@, row)]
      /\ UNCHANGED <<allowed, online, moves, query, latest, asked>>
      /\ UNCHANGED <<server_rooms, fails>>
      /\ query[q] = "sent" /\ allowed /\ Len(rows[q]) < NumRooms
  BY DEF ReadRow
<1>2. row \in Row /\ row.seen = moves
  <2>1. Connections(Len(rows[q])) \in SUBSET Peers
    BY DEF Connections, PanelInv, ListInv
  <2> QED BY <2>1 DEF Row, PanelInv, ListInv
<1> HIDE DEF row
<1>3. rows' \in [Queries -> Seq(Row)] /\ rows[q] \in Seq(Row)
  BY <1>1, <1>2 DEF PanelInv, ListInv
<1>4. \A o \in Queries : /\ Len(rows'[o]) <= NumRooms
                         /\ query[o] # "sent" \/ ~allowed => rows'[o] = <<>>
  BY <1>1, <1>2, PanelConstants DEF PanelInv, ListInv, PanelConstants
<1>5. \A i \in 1 .. Len(rows'[latest]) : rows'[latest][i].seen >= asked
  <2>1. CASE q = latest
    <3> SUFFICES ASSUME NEW i \in 1 .. Len(rows'[q])
                 PROVE  rows'[q][i].seen >= asked
      BY <2>1
    <3>1. rows'[q] = Append(rows[q], row)
      BY <1>1 DEF PanelInv, ListInv
    <3>2. CASE i \in 1 .. Len(rows[q])
      BY <1>3, <2>1, <3>1, <3>2 DEF PanelInv, ListInv
    <3>3. CASE i = Len(rows[q]) + 1
      <4>1. rows'[q][i] = row
        BY <1>2, <1>3, <3>1, <3>3
      <4> QED BY <1>2, <4>1 DEF PanelInv, ListInv
    <3> QED BY <1>2, <1>3, <3>1, <3>2, <3>3
  <2>2. CASE q # latest
    BY <1>1, <2>2 DEF PanelInv, ListInv
  <2> QED BY <2>1, <2>2
<1>6. ListInv'
  BY <1>1, <1>3, <1>4, <1>5 DEF PanelInv, ListInv, ListFresh
<1>7. DialogInv'
  BY DialogsIdle DEF PanelInv, ReadRow, DialogInv, DialogType
<1> QED BY <1>6, <1>7 DEF PanelInv

\* refresh(): the request that is made has no rows yet.
LEMMA InvRefreshList ==
    ASSUME PanelInv, NEW q \in Queries, RefreshList(q)
    PROVE  PanelInv'
<1>1. ListInv'
  BY PanelConstants DEF PanelConstants, PanelInv, ListInv, ListFresh, RefreshList
<1>2. DialogInv'
  BY DialogsIdle DEF PanelInv, RefreshList, DialogInv, DialogType
<1> QED BY <1>1, <1>2 DEF PanelInv

\* A request for the list is over, with its rows on the page or not.
LEMMA InvQueryOver ==
    ASSUME PanelInv, NEW q \in Queries, FillArray(q) \/ ListFails(q)
    PROVE  PanelInv'
<1>1. /\ query' = [query EXCEPT ![q] = "over"]
      /\ rows' = [rows EXCEPT ![q] = <<>>]
      /\ UNCHANGED <<allowed, online, moves, latest, asked>>
      /\ query[q] = "sent"
  BY DEF FillArray, ListFails, QueryOver, Answered
<1>2. fails' \in 0 .. MaxFails
  BY PanelConstants DEF FillArray, ListFails, PanelInv, ListInv, PanelConstants
<1>3. /\ server_rooms' \in Seq(Row)
      /\ Len(server_rooms') \in {0, NumRooms}
      /\ \A i \in 1 .. Len(server_rooms') : server_rooms'[i].seen >= asked
  <2>1. CASE UNCHANGED server_rooms
    BY <2>1 DEF PanelInv, ListInv, ListFresh
  <2>2. CASE q = latest /\ server_rooms' = rows[q] /\ Answered(q)
    <3>1. Len(rows[q]) \in {0, NumRooms}
      BY <2>2 DEF PanelInv, ListInv, Answered
    <3> QED BY <2>2, <3>1 DEF PanelInv, ListInv
  <2> QED BY <2>1, <2>2 DEF FillArray, ListFails
<1>4. /\ query' \in [Queries -> {"unsent", "sent", "over"}]
      /\ rows' \in [Queries -> Seq(Row)]
      /\ \A o \in Queries : /\ Len(rows'[o]) <= NumRooms
                            /\ query'[o] # "sent" \/ ~allowed => rows'[o] = <<>>
      /\ \A i \in 1 .. Len(rows'[latest]) : rows'[latest][i].seen >= asked
  BY <1>1, PanelConstants DEF PanelInv, ListInv, PanelConstants
<1>5. ListInv'
  BY <1>1, <1>2, <1>3, <1>4 DEF PanelInv, ListInv, ListFresh
<1>6. DialogInv'
  BY DialogsIdle DEF PanelInv, FillArray, ListFails, DialogInv, DialogType
<1> QED BY <1>5, <1>6 DEF PanelInv
----------------------------------------------------------------------------
(* The dialogs                                                             *)

\* Nothing changes for the dialogs other than d.
OthersKeep(d) ==
    \A e \in Dialogs \ {d} :
        /\ dialog'[e] = dialog[e] /\ kind'[e] = kind[e] /\ task'[e] = task[e]
        /\ call'[e] = call[e] /\ peers'[e] = peers[e] /\ answer'[e] = answer[e]
        /\ job'[e] = job[e] /\ targets'[e] = targets[e]
        /\ pushed'[e] = pushed[e] /\ told'[e] = told[e]

\* A step of one dialog keeps the invariant if it keeps that of the dialog.
LEMMA OneDialog ==
    ASSUME PanelInv, NEW d \in Dialogs, OthersKeep(d), DialogType', DialogOK(d)',
           UNCHANGED <<allowed, online, moves, listVars>>,
           fails' \in 0 .. MaxFails
    PROVE  PanelInv'
<1>1. \A e \in Dialogs : DialogOK(e)'
  <2>1. \A e \in Dialogs \ {d} : DialogOK(e)'
    BY DialogKeeps DEF PanelInv, DialogInv, OthersKeep
  <2> QED BY <2>1
<1> QED BY <1>1, ListIdle DEF PanelInv, DialogInv

\* A dialog is opened or left without a request.
LEMMA InvOpenCancel ==
    ASSUME PanelInv, NEW d \in Dialogs,
           Cancel(d) \/ \E k \in Kinds : OpenDialog(d, k)
    PROVE  PanelInv'
<1> USE DEF DialogType
<1>1. DialogType /\ DialogOK(d)
  BY DEF PanelInv, DialogInv
<1>2. /\ UNCHANGED <<allowed, online, moves, listVars, task, peers, told, call>>
      /\ UNCHANGED <<handlerVars, alert, fails>>
  BY DEF Cancel, OpenDialog
<1>3. UNCHANGED <<answer, job, targets, pushed>>
  BY <1>2 DEF handlerVars
<1>4. DialogType'
  BY <1>1, <1>2, <1>3 DEF Cancel, OpenDialog
<1>5. OthersKeep(d)
  BY <1>1, <1>2, <1>3 DEF Cancel, OpenDialog, OthersKeep
<1>6. DialogOK(d)'
  <2>1. CASE Cancel(d)
    <3>1. UNCHANGED kind /\ dialog'[d] = "gone"
      BY <1>1, <2>1 DEF Cancel
    <3>2. Named(d)' = Named(d)
      BY <1>2, <3>1 DEF Named
    <3> QED BY <1>1, <1>2, <1>3, <3>1, <3>2
            DEF DialogOK, RequestInv, ViewInv, PushInv, ToldInv
  <2>2. ASSUME NEW k \in Kinds, OpenDialog(d, k)
        PROVE  DialogOK(d)'
    <3>1. /\ call[d] = "none" /\ dialog'[d] = "open" /\ kind'[d] = k
          /\ dialog[d] = "unopened"
      BY <1>1, <2>2 DEF OpenDialog, DialogOK, RequestInv
    <3>2. RequestInv(d)' /\ ViewInv(d)' /\ ToldInv(d)'
      BY <1>1, <1>2, <1>3, <3>1 DEF DialogOK, RequestInv, ViewInv, ToldInv
    <3>3. PushInv(d)'
      BY <1>1, <1>2, <1>3, <3>1 DEF DialogOK, RequestInv, PushInv
    <3> QED BY <3>2, <3>3 DEF DialogOK
  <2> QED BY <2>1, <2>2
<1>7. fails' \in 0 .. MaxFails
  BY <1>2 DEF PanelInv, ListInv
<1> QED BY <1>2, <1>4, <1>5, <1>6, <1>7, OneDialog

\* A dialog makes its request: checkRoom(room), or OK.
LEMMA InvRequest ==
    ASSUME PanelInv, NEW d \in Dialogs,
           \/ \E r \in Rooms : CheckRoom(d, r)
           \/ \E t \in Tasks(kind[d]) : Ok(d, t)
    PROVE  PanelInv'
<1> USE DEF DialogType
<1>1. DialogType /\ DialogOK(d)
  BY DEF PanelInv, DialogInv
<1>2. /\ UNCHANGED <<allowed, online, moves, listVars, kind, peers, told>>
      /\ UNCHANGED <<handlerVars, alert, fails>>
  BY DEF CheckRoom, Ok
<1>3. UNCHANGED <<answer, job, targets, pushed>>
  BY <1>2 DEF handlerVars
<1>4. call[d] = "none"
  BY <1>1 DEF CheckRoom, Ok, DialogOK, RequestInv
<1>5. /\ job[d] = "none" /\ told[d] = "nothing" /\ answer[d] = {} /\ peers[d] = {}
      /\ pushed[d] = {}
  BY <1>1, <1>4 DEF DialogOK, RequestInv, PushInv
<1>6. DialogType'
  <2>1. task' = [e \in Dialogs |-> task'[e]]
    BY <1>1 DEF CheckRoom, Ok
  <2>2. /\ dialog' \in [Dialogs -> {"unopened", "open", "gone"}]
        /\ call' \in [Dialogs -> {"none", "sent", "answered", "failed", "over"}]
    BY <1>1 DEF CheckRoom, Ok
  <2> QED BY <1>1, <1>2, <1>3, <2>1, <2>2
<1>7. OthersKeep(d)
  BY <1>1, <1>2, <1>3 DEF CheckRoom, Ok, OthersKeep
<1>8. /\ call'[d] \in {"none", "sent"} /\ dialog'[d] \in {"open", "gone"}
      /\ dialog'[d] = "open" => kind[d] = "view"
      /\ kind[d] # "view" => task'[d] \in Tasks(kind[d])
  <2>1. ASSUME NEW r \in Rooms, CheckRoom(d, r)
        PROVE  /\ kind[d] = "view" /\ call'[d] = "sent" /\ dialog'[d] = "open"
    BY <1>1, <2>1 DEF CheckRoom, DialogOK, RequestInv
  <2>2. ASSUME NEW t \in Tasks(kind[d]), Ok(d, t)
        PROVE  /\ call'[d] \in {"none", "sent"} /\ dialog'[d] = "gone"
               /\ task'[d] = t
    BY <1>1, <2>2 DEF Ok
  <2> QED BY <2>1, <2>2
<1>9. DialogOK(d)'
  <2>1. RequestInv(d)'
    BY <1>2, <1>3, <1>5, <1>8 DEF RequestInv
  <2>2. ViewInv(d)' /\ PushInv(d)' /\ ToldInv(d)'
    BY <1>2, <1>3, <1>5, <1>8 DEF ViewInv, PushInv, ToldInv
  <2> QED BY <2>1, <2>2 DEF DialogOK
<1>10. fails' \in 0 .. MaxFails
  BY <1>2 DEF PanelInv, ListInv
<1> QED BY <1>2, <1>6, <1>7, <1>9, <1>10, OneDialog

\* What a handler decodes names nobody the fields of the dialog do not name:
\* a field it cannot read names no room, and a space loses one.
LEMMA DecodeNamed ==
    ASSUME NEW d \in Dialogs, kind[d] \in Kinds, kind[d] # "view",
           task[d] \in Tasks(kind[d])
    PROVE  Decode(kind[d], task[d])
             \cap (IF kind[d] = "peers" THEN online ELSE Rooms) \subseteq Named(d)
<1>1. CASE kind[d] = "all"
  BY <1>1 DEF Decode, Named
<1>2. CASE kind[d] = "peers"
  BY <1>2 DEF Decode, Named
<1>3. CASE kind[d] = "set"
  BY <1>3 DEF Decode, Named, SetRooms
<1>4. CASE kind[d] = "range"
  <2>1. task[d].from \in Field /\ task[d].to \in Field
    BY <1>4, PanelConstants DEF Tasks, PanelConstants
  <2>2. IntOf(task[d].from) \in Int /\ IntOf(task[d].to) \in Int
    BY <2>1 DEF IntOf, Field
  <2>3. Decode(kind[d], task[d]) = RangeRooms(task[d])
    BY <1>4 DEF Decode
  <2>4. Named(d) = {r \in Rooms :
                      /\ IsInt(task[d].from) /\ IntOf(task[d].from) <= r
                      /\ IsInt(task[d].to) /\ r <= IntOf(task[d].to)}
    BY <1>4 DEF Named
  <2> QED BY <1>4, <2>2, <2>3, <2>4 DEF RangeRooms
<1> QED BY <1>1, <1>2, <1>3, <1>4 DEF Kinds

\* The handlers.
LEMMA InvHandle ==
    ASSUME PanelInv, NEW d \in Dialogs, HandleView(d) \/ HandlePost(d)
    PROVE  PanelInv'
<1> USE DEF DialogType
<1>1. DialogType /\ DialogOK(d)
  BY DEF PanelInv, DialogInv
<1>2. /\ UNCHANGED <<allowed, online, moves, listVars, dialogVars>>
      /\ UNCHANGED <<pushed, alert, fails>>
      /\ call[d] = "sent" /\ call' = [call EXCEPT ![d] = "answered"]
  BY DEF HandleView, HandlePost
<1>3. UNCHANGED <<dialog, kind, task, peers, told>>
  BY <1>2 DEF dialogVars
<1>4. call'[d] = "answered" /\ Named(d)' = Named(d)
  BY <1>1, <1>2, <1>3 DEF Named
<1>5. job[d] = "none" /\ pushed[d] = {}
  BY <1>1, <1>2 DEF DialogOK, PushInv
<1>6. CASE HandleView(d)
  <2>1. /\ UNCHANGED <<job, targets>> /\ kind[d] = "view"
        /\ answer' = [answer EXCEPT ![d] =
                        IF allowed THEN Connections(task[d]) ELSE {}]
    BY <1>6 DEF HandleView
  <2>2. /\ Connections(task[d]) \in SUBSET Peers
        /\ \A p \in Connections(task[d]) : RoomOf[p] = task[d]
    BY DEF Connections, PanelInv, ListInv
  <2>3. DialogType' /\ OthersKeep(d)
    BY <1>1, <1>2, <1>3, <2>1, <2>2 DEF OthersKeep
  <2>4. RequestInv(d)' /\ PushInv(d)' /\ ToldInv(d)'
    BY <1>1, <1>2, <1>3, <1>4, <1>5, <2>1
       DEF DialogOK, RequestInv, PushInv, ToldInv
  <2>5. ViewInv(d)'
    BY <1>1, <1>3, <2>1, <2>2 DEF DialogOK, ViewInv
  <2>6. fails' \in 0 .. MaxFails
    BY <1>2 DEF PanelInv, ListInv
  <2> QED BY <1>2, <2>3, <2>4, <2>5, <2>6, OneDialog DEF DialogOK
<1>7. CASE HandlePost(d)
  <2>1. /\ UNCHANGED answer /\ kind[d] # "view"
        /\ IF allowed
           THEN /\ job' = [job EXCEPT ![d] = "sleeping"]
                /\ targets' = [targets EXCEPT ![d] = Decode(kind[d], task[d])]
           ELSE UNCHANGED <<job, targets>>
    BY <1>7 DEF HandlePost
  <2>2. DialogType' /\ OthersKeep(d)
    BY <1>1, <1>2, <1>3, <2>1 DEF OthersKeep
  <2>3. /\ job'[d] = IF allowed THEN "sleeping" ELSE "none"
        /\ allowed => targets'[d] = Decode(kind[d], task[d])
    BY <1>1, <1>5, <2>1
  <2>4. RequestInv(d)' /\ ViewInv(d)' /\ ToldInv(d)'
    BY <1>1, <1>2, <1>3, <1>4, <2>1, <2>3
       DEF DialogOK, RequestInv, ViewInv, ToldInv
  <2>5. PushInv(d)'
    BY <1>1, <1>2, <1>3, <1>4, <1>5, <2>1, <2>3 DEF DialogOK, PushInv
  <2>6. fails' \in 0 .. MaxFails
    BY <1>2 DEF PanelInv, ListInv
  <2> QED BY <1>2, <2>2, <2>4, <2>5, <2>6, OneDialog DEF DialogOK
<1> QED BY <1>6, <1>7

\* The goroutine makes the push.
LEMMA InvRunJob ==
    ASSUME PanelInv, NEW d \in Dialogs, RunJob(d)
    PROVE  PanelInv'
<1> USE DEF DialogType
<1> DEFINE given == targets[d] \cap (IF kind[d] = "peers" THEN online ELSE Rooms)
<1>1. DialogType /\ DialogOK(d)
  BY DEF PanelInv, DialogInv
<1>2. /\ UNCHANGED <<allowed, online, moves, listVars, dialogVars, call>>
      /\ UNCHANGED <<answer, alert, fails>>
      /\ job[d] = "sleeping" /\ job' = [job EXCEPT ![d] = "done"]
      /\ pushed' = [pushed EXCEPT ![d] = given]
      /\ targets' = [targets EXCEPT ![d] = {}]
  BY DEF RunJob
<1>3. UNCHANGED <<dialog, kind, task, peers, told>>
  BY <1>2 DEF dialogVars
<1>4. given \subseteq Named(d)
  <2>1. kind[d] # "view" /\ task[d] \in Tasks(kind[d]) /\ kind[d] \in Kinds
    BY <1>1, <1>2 DEF DialogOK, RequestInv, PushInv
  <2>2. targets[d] = Decode(kind[d], task[d])
    BY <1>1, <1>2 DEF DialogOK, PushInv
  <2> QED BY <2>1, <2>2, DecodeNamed
<1> HIDE DEF given
<1>5. DialogType' /\ OthersKeep(d)
  BY <1>1, <1>2, <1>3 DEF OthersKeep
<1>6. job'[d] = "done" /\ pushed'[d] = given /\ Named(d)' = Named(d)
  BY <1>1, <1>2, <1>3 DEF Named
<1>7. PushInv(d)'
  BY <1>1, <1>2, <1>3, <1>4, <1>6 DEF DialogOK, PushInv
<1>8. RequestInv(d)' /\ ViewInv(d)' /\ ToldInv(d)'
  BY <1>1, <1>2, <1>3, <1>6 DEF DialogOK, RequestInv, ViewInv, ToldInv, PushInv
<1>9. fails' \in 0 .. MaxFails
  BY <1>2 DEF PanelInv, ListInv
<1> QED BY <1>2, <1>5, <1>7, <1>8, <1>9, OneDialog DEF DialogOK

\* The request of a dialog fails, or one of its callbacks is called.
LEMMA InvCallback ==
    ASSUME PanelInv, NEW d \in Dialogs, Callback(d) \/ CallFails(d)
    PROVE  PanelInv'
<1> USE DEF DialogType
<1>1. DialogType /\ DialogOK(d)
  BY DEF PanelInv, DialogInv
<1>2. /\ UNCHANGED <<allowed, online, moves, listVars, dialog, kind, task>>
      /\ UNCHANGED <<job, targets, pushed>>
  BY DEF Callback, ShowPeers, AlertSuccess, AlertFailure, CallFails, dialogVars,
     handlerVars
<1>3. fails' \in 0 .. MaxFails
  BY PanelConstants DEF PanelConstants, PanelInv, ListInv, Callback, ShowPeers,
     AlertSuccess, AlertFailure, CallFails
<1>4. Named(d)' = Named(d)
  BY <1>2 DEF Named
<1>5. CASE ShowPeers(d)
  <2>1. /\ call[d] = "answered" /\ kind[d] = "view" /\ UNCHANGED <<told, alert>>
        /\ call' = [call EXCEPT ![d] = "over"]
        /\ peers' = [peers EXCEPT ![d] =
                       IF allowed /\ answer[d] = {} THEN @ ELSE {answer[d]}]
        /\ answer' = [answer EXCEPT ![d] = {}]
    BY <1>5 DEF ShowPeers
  <2>2. DialogType' /\ OthersKeep(d)
    BY <1>1, <1>2, <2>1 DEF OthersKeep
  <2>3. ViewInv(d)'
    BY <1>1, <1>2, <2>1 DEF DialogOK, ViewInv
  <2>4. RequestInv(d)' /\ PushInv(d)' /\ ToldInv(d)'
    BY <1>1, <1>2, <1>4, <2>1 DEF DialogOK, RequestInv, PushInv, ToldInv
  <2> QED BY <1>2, <1>3, <2>2, <2>3, <2>4, OneDialog DEF DialogOK
<1>6. CASE AlertSuccess(d) \/ AlertFailure(d)
  <2>1. /\ UNCHANGED <<peers, answer>> /\ alert' = TRUE
        /\ call' = [call EXCEPT ![d] = "over"]
    BY <1>6 DEF AlertSuccess, AlertFailure, handlerVars
  <2>2. \/ /\ told' = [told EXCEPT ![d] = "success"]
           /\ call[d] = "answered" /\ kind[d] # "view"
        \/ told' = [told EXCEPT ![d] = "failure"] /\ call[d] = "failed"
    BY <1>6 DEF AlertSuccess, AlertFailure
  <2>3. DialogType' /\ OthersKeep(d)
    BY <1>1, <1>2, <2>1, <2>2 DEF OthersKeep
  <2>4. RequestInv(d)' /\ ViewInv(d)' /\ PushInv(d)'
    BY <1>1, <1>2, <1>4, <2>1, <2>2 DEF DialogOK, RequestInv, ViewInv, PushInv
  <2>5. ToldInv(d)'
    BY <1>1, <1>2, <2>1, <2>2 DEF DialogOK, ToldInv
  <2> QED BY <1>2, <1>3, <2>3, <2>4, <2>5, OneDialog DEF DialogOK
<1>7. CASE CallFails(d)
  <2>1. UNCHANGED <<peers, answer, told, alert>>
    BY <1>7 DEF CallFails, dialogVars, handlerVars
  <2>2. /\ call[d] \in {"sent", "answered"}
        /\ call' = [call EXCEPT ![d] = "failed"]
    BY <1>7 DEF CallFails
  <2>3. DialogType' /\ OthersKeep(d)
    BY <1>1, <1>2, <2>1, <2>2 DEF OthersKeep
  <2>4. RequestInv(d)' /\ ViewInv(d)' /\ PushInv(d)' /\ ToldInv(d)'
    BY <1>1, <1>2, <1>4, <2>1, <2>2
       DEF DialogOK, RequestInv, ViewInv, PushInv, ToldInv
  <2> QED BY <1>2, <1>3, <2>3, <2>4, OneDialog DEF DialogOK
<1> QED BY <1>5, <1>6, <1>7 DEF Callback

\* The operator reads an alert away.
LEMMA InvDismissAlert ==
    ASSUME PanelInv, DismissAlert
    PROVE  PanelInv'
<1>1. ListInv'
  BY ListIdle DEF DismissAlert, PanelInv, ListInv
<1>2. DialogInv'
  BY DialogsIdle DEF DismissAlert, PanelInv
<1> QED BY <1>1, <1>2 DEF PanelInv

\* Every step of the panel and of the server behind it keeps the invariant.
LEMMA PanelStep ==
    ASSUME PanelInv, PanelNext
    PROVE  PanelInv'
BY InvPeerMoves, InvReadRow, InvRefreshList, InvQueryOver, InvOpenCancel,
   InvRequest, InvHandle, InvRunJob, InvCallback, InvDismissAlert
   DEF PanelNext, DialogStep
=============================================================================
