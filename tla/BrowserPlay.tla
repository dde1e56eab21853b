---------------------------- MODULE BrowserPlay ----------------------------
(***************************************************************************)
(* Browser play (internal/server/web_emulation.go, web_netplay.go) and the *)
(* rooms of the multiplayer broker (internal/multiplayer).                 *)
(*                                                                         *)
(* A player gets a pass, a signed URL, to play one edition alone or in a   *)
(* room.  The script of the player page restores the save stream's current *)
(* revision, and uploads one after another the saves its emulator emits,   *)
(* each on the revision the script holds as base at that moment; both run  *)
(* at the same time, and beside the uploads of other devices (SaveStore).  *)
(*                                                                         *)
(* There is one edition and one save stream.  `rom' is its ROM: the hash   *)
(* in the catalogue and the content of the file.  Room ids and invitations *)
(* are random and never guessed.  Time is whatever lets a pass or a room   *)
(* expire.  A request that is cut off ends between two statements.         *)
(***************************************************************************)
EXTENDS SaveStore, FiniteSets

CONSTANTS Tabs,          \* browser tabs, each of a client of its own
          Agent,         \* the handler that uploads for another device
          Web,           \* varkiv-web-player, the device of every tab
          Rooms,         \* room ids, used in any order
          Roms,          \* contents of the ROM
          MaxEvents      \* bound: what people, devices and time do

BrowserAssumption ==
  /\ Agent \notin Tabs /\ Handlers = Tabs \cup {Agent}
  /\ Web \in Devices /\ Streams # {}

VARIABLES rooms,         \* Broker.sessions
          rom,           \* the launch artifact: its row and its file
          tabs,          \* what each tab has and does
          events         \* what people, devices and time did so far

playVars == <<rooms, rom, tabs, events>>
browserVars == <<revisions, push, rooms, rom, tabs, events>>

-----------------------------------------------------------------------------
(* Rooms *)

NoRoom == [state |-> "absent"]
Profiles == {"emulatorjs", "retroarch"}

MaxParticipants(profile) == IF profile = "emulatorjs" THEN 2 ELSE 4

\* Create of the broker: one participant, the host.
NewRoom(profile, content, client) ==
  [state |-> "waiting", profile |-> profile, content |-> content,
   clients |-> {client}, expired |-> FALSE]

\* active: a closed room is refused and stays, an expired one is deleted.
Active(r) == rooms[r].state \in {"waiting", "ready"} /\ ~rooms[r].expired
Swept(r) == IF rooms[r].state \in {"waiting", "ready"} /\ rooms[r].expired
              THEN [rooms EXCEPT ![r] = NoRoom] ELSE rooms

\* compatibilityMismatches finds none.
Compatible(r, profile, content) ==
  rooms[r].profile = profile /\ rooms[r].content = content

Joinable(r, profile, content, client) ==
  /\ Active(r)
  /\ Compatible(r, profile, content)
  /\ \/ client \in rooms[r].clients
     \/ Cardinality(rooms[r].clients) < MaxParticipants(profile)

WithClient(r, client) ==
  LET clients == rooms[r].clients \cup {client}
  IN  [rooms EXCEPT ![r].clients = clients,
                    ![r].state = IF Cardinality(clients) > 1 THEN "ready" ELSE @]

-----------------------------------------------------------------------------
(* Tabs *)

Stream == CHOOSE s \in Streams : TRUE

NoPass == [kind |-> "none"]
NoAnswer == [rev |-> NoRevision, at |-> "none"]

ClosedTab ==
  [phase |-> "closed", pass |-> NoPass, page |-> "none", content |-> rom.row,
   base |-> NoRevision, restore |-> NoAnswer, restored |-> FALSE,
   memory |-> {}, queue |-> <<>>, last |-> NoRevision]

Event == events < MaxEvents /\ events' = events + 1

Set(t, tab) == tabs' = [tabs EXCEPT ![t] = tab]

\* The row names the content and the file still has it.
VerifiedWebROM == rom.file = rom.row

Valid(pass) == pass.kind # "none" /\ pass.valid

\* The pass carries a save stream: that of playing alone.
ValidSaveToken(pass) == Valid(pass) /\ pass.kind = "solo"

Asks(t, phase) ==
  /\ Event
  /\ tabs[t].phase = "closed"
  /\ VerifiedWebROM
  /\ Set(t, [tabs[t] EXCEPT !.phase = phase, !.content = rom.row])
  /\ UNCHANGED <<revisions, push, rooms, rom>>

\* webEmulationEdition and the check of the ROM.  The answer is to come.
AskToPlayAlone(t) == Asks(t, "asks alone")

\* resolveWebNetplayEdition, likewise.
AskForRoom(t) == Asks(t, "asks for a room")

\* createWebEmulationSession: the current revision becomes the base.
SignSoloPass(t) ==
  /\ tabs[t].phase = "asks alone"
  /\ Set(t, [tabs[t] EXCEPT !.phase = "holds",
                            !.pass = [kind |-> "solo", valid |-> TRUE,
                                      content |-> tabs[t].content,
                                      base |-> CurrentStreamRevision(Stream)]])
  /\ UNCHANGED <<revisions, push, rooms, rom, events>>

RoomPass(t, r) ==
  [tabs[t] EXCEPT !.phase = "holds",
                  !.pass = [kind |-> "room", valid |-> TRUE, room |-> r,
                            content |-> tabs[t].content]]

\* createWebNetplaySession
CreateRoom(t, r) ==
  /\ tabs[t].phase = "asks for a room"
  /\ rooms[r].state = "absent"
  /\ \A u \in Tabs : tabs[u].pass.kind = "room" => tabs[u].pass.room # r
  /\ rooms' = [rooms EXCEPT ![r] = NewRoom("emulatorjs", tabs[t].content, t)]
  /\ Set(t, RoomPass(t, r))
  /\ UNCHANGED <<revisions, push, rom, events>>

\* joinWebNetplaySession; a refusal may still have deleted an expired room.
JoinRoom(t, r) ==
  /\ tabs[t].phase = "asks for a room"
  /\ rooms[r].state # "absent"
  /\ \/ /\ Joinable(r, "emulatorjs", tabs[t].content, t)
        /\ rooms' = WithClient(r, t)
        /\ Set(t, RoomPass(t, r))
     \/ /\ ~Joinable(r, "emulatorjs", tabs[t].content, t)
        /\ rooms' = Swept(r)
        /\ Set(t, ClosedTab)
  /\ UNCHANGED <<revisions, push, rom, events>>

\* createMultiplayerSession, joinMultiplayerSession: a client of the API
\* states its content and runtime itself.
HostByAPI(r, profile, content) ==
  /\ Event
  /\ rooms[r].state = "absent"
  /\ \A u \in Tabs : tabs[u].pass.kind = "room" => tabs[u].pass.room # r
  /\ rooms' = [rooms EXCEPT ![r] = NewRoom(profile, content, Agent)]
  /\ UNCHANGED <<revisions, push, rom, tabs>>

JoinByAPI(r, profile, content) ==
  /\ Event
  /\ Joinable(r, profile, content, Agent)
  /\ rooms' = WithClient(r, Agent)
  /\ UNCHANGED <<revisions, push, rom, tabs>>

\* closeMultiplayerSession
CloseRoom(r) ==
  /\ Event
  /\ rooms[r].state \in {"waiting", "ready"}
  /\ rooms' = [rooms EXCEPT ![r].state = "closed"]
  /\ UNCHANGED <<revisions, push, rom, tabs>>

\* Four hours pass: the room and the passes to it end together.
ExpireRoom(r) ==
  /\ Event
  /\ rooms[r].state # "absent" /\ ~rooms[r].expired
  /\ rooms' = [rooms EXCEPT ![r].expired = TRUE]
  /\ tabs' = [t \in Tabs |->
                IF tabs[t].pass.kind = "room" /\ tabs[t].pass.room = r
                  THEN [tabs[t] EXCEPT !.pass.valid = FALSE] ELSE tabs[t]]
  /\ UNCHANGED <<revisions, push, rom>>

\* getMultiplayerSession
LookAtRoom(r) ==
  /\ rooms' = Swept(r)
  /\ UNCHANGED <<revisions, push, rom, tabs, events>>

ExpireSoloPass(t) ==
  /\ Event
  /\ tabs[t].pass.kind = "solo" /\ tabs[t].pass.valid
  /\ Set(t, [tabs[t] EXCEPT !.pass.valid = FALSE])
  /\ UNCHANGED <<revisions, push, rooms, rom>>

-----------------------------------------------------------------------------
(* The player page *)

\* webEmulationPlayer: it leaves the file to the content request.
OpenSoloPage(t) ==
  LET tab == tabs[t]
  IN  /\ tab.phase = "holds" /\ ValidSaveToken(tab.pass)
      /\ rom.row = tab.pass.content
      /\ Set(t, [tab EXCEPT !.phase = "loads", !.page = "play",
                            !.base = IF tab.pass.kind = "solo"
                                       THEN tab.pass.base ELSE NoRevision])
      /\ UNCHANGED <<revisions, push, rooms, rom, events>>

\* webNetplayPlayer
OpenRoomPage(t) ==
  LET tab == tabs[t]
  IN  /\ tab.phase = "holds" /\ Valid(tab.pass) /\ tab.pass.kind = "room"
      /\ Active(tab.pass.room)
      /\ rom.row = tab.pass.content
      /\ rom.row = rooms[tab.pass.room].content
      /\ VerifiedWebROM
      /\ Set(t, [tab EXCEPT !.phase = "loads", !.page = "play-netplay"])
      /\ UNCHANGED <<revisions, push, rooms, rom, events>>

StartAnyGame(t) ==   \* mutant: any verified ROM
  LET tab == tabs[t]
  IN  /\ tab.phase = "loads" /\ Valid(tab.pass) /\ VerifiedWebROM
      /\ Set(t, [tab EXCEPT !.phase = "plays", !.content = rom.file])
      /\ UNCHANGED <<revisions, push, rooms, rom, events>>

\* webEmulationContent, then EJS_onGameStart, which asks for the save.  It
\* does not look at the room.
StartGame(t) ==
  LET tab == tabs[t]
  IN  /\ tab.phase = "loads" /\ Valid(tab.pass)
      /\ rom.row = tab.pass.content /\ VerifiedWebROM
      /\ Set(t, [tab EXCEPT !.phase = "plays", !.content = rom.file,
                            !.restore.at = IF tab.page = "play" THEN "asked" ELSE "none"])
      /\ UNCHANGED <<revisions, push, rooms, rom, events>>

\* restoreSave, on the emulator's load button.
RestoreSave(t) ==
  /\ Event
  /\ tabs[t].phase = "plays" /\ tabs[t].page = "play"
  /\ tabs[t].restore.at = "none"
  /\ Set(t, [tabs[t] EXCEPT !.restore.at = "asked"])
  /\ UNCHANGED <<revisions, push, rooms, rom>>

\* webEmulationSave, GET: no content when there is no revision.
ServeSave(t) ==
  LET current == CurrentStreamRevision(Stream)
  IN  /\ tabs[t].restore.at = "asked" /\ ValidSaveToken(tabs[t].pass)
      /\ IF current = NoRevision
           THEN Set(t, [tabs[t] EXCEPT !.restore = NoAnswer, !.restored = TRUE])
           ELSE Set(t, [tabs[t] EXCEPT !.restore = [rev |-> current, at |-> "sent"]])
      /\ UNCHANGED <<revisions, push, rooms, rom, events>>

\* The answer arrives: the save is loaded and its revision becomes the base.
ApplyRestore(t) ==
  /\ tabs[t].restore.at = "sent"
  /\ Set(t, [tabs[t] EXCEPT !.base = tabs[t].restore.rev, !.restored = TRUE,
                            !.memory = {tabs[t].restore.rev}, !.restore = NoAnswer,
                            !.queue = [i \in DOMAIN @ |-> [@[i] EXCEPT !.informed = FALSE]]])
  /\ UNCHANGED <<revisions, push, rooms, rom, events>>

\* Refused, or lost on the way: the player shows an error and plays on.
RestoreFails(t) ==
  /\ tabs[t].restore.at # "none"
  /\ Set(t, [tabs[t] EXCEPT !.restore = NoAnswer])
  /\ UNCHANGED <<revisions, push, rooms, rom, events>>

\* uploadSave: the emulator emits its save; the page of a room drops it.
\* `informed': a restore preceded the save, and none came in between since.
EmitSave(t, hash) ==
  LET tab == tabs[t]
      save == [hash |-> hash, informed |-> tab.restored]
  IN  /\ Event
      /\ tab.phase = "plays" /\ tab.page = "play"
      /\ Set(t, [tab EXCEPT !.queue = Append(@, save)])
      /\ UNCHANGED <<revisions, push, rooms, rom>>

BaseIsCurrent(t) == CurrentStreamRevision(Stream)   \* mutant of BaseSent

\* The header, or else the base of the pass.
BaseSent(t) ==
  IF tabs[t].base # NoRevision THEN tabs[t].base
  ELSE IF tabs[t].pass.kind = "solo" THEN tabs[t].pass.base ELSE NoRevision

\* webEmulationSave, POST, of the first save of the queue.
SendUpload(t) ==
  /\ push[t].pc = "idle"
  /\ tabs[t].queue # <<>> /\ ValidSaveToken(tabs[t].pass)
  /\ PushSet(t, Stream, Web, BaseSent(t), Head(tabs[t].queue).hash)
  /\ UNCHANGED <<revisions, playVars>>

\* The steps of PushSet in the server.
StoreSave(t) == PushStep(t) /\ UNCHANGED playVars

\* The answer names the stored revision, of a conflict too: the next base.
UploadAnswered(t) ==
  LET tab == tabs[t]
      rev == push[t].result
  IN  /\ push[t].pc = "done" /\ tab.queue # <<>>
      /\ push' = [push EXCEPT ![t] = NoPush]
      /\ Set(t, [tab EXCEPT !.queue = Tail(@), !.base = rev, !.last = rev,
                            !.memory = @ \cup {rev}])
      /\ UNCHANGED <<revisions, rooms, rom, events>>

\* Refused, cut off, or its answer lost: the save is not sent again.
UploadFails(t) ==
  /\ tabs[t].queue # <<>>
  /\ push[t].pc # "idle" \/ ~ValidSaveToken(tabs[t].pass)
  /\ push' = [push EXCEPT ![t] = NoPush]
  /\ Set(t, [tabs[t] EXCEPT !.queue = Tail(@)])
  /\ UNCHANGED <<revisions, rooms, rom, events>>

CloseTab(t) ==
  /\ tabs[t].phase # "closed"
  /\ push' = [push EXCEPT ![t] = NoPush]
  /\ Set(t, ClosedTab)
  /\ UNCHANGED <<revisions, rooms, rom, events>>

-----------------------------------------------------------------------------
(* The rest of the system *)

\* Another device uploads, on the revision it has: the current one or none.
OtherUploads ==
  /\ Event
  /\ push[Agent].pc = "idle"
  /\ \E d \in Devices \ {Web}, hash \in Hashes,
        base \in {NoRevision, CurrentStreamRevision(Stream)} :
        PushSet(Agent, Stream, d, base, hash)
  /\ UNCHANGED <<revisions, rooms, rom, tabs>>

OtherStep ==
  /\ PushStep(Agent) \/ RequestEnds(Agent)
  /\ UNCHANGED playVars

\* A new scan records what the file holds; somebody replaces the file.
ChangeRom ==
  /\ Event
  /\ \E new \in [row : Roms, file : Roms] :
       /\ new # rom
       /\ new.row \in {rom.row, rom.file}
       /\ new.row = rom.row \/ new.file = rom.file
       /\ rom' = new
  /\ UNCHANGED <<revisions, push, rooms, tabs>>

\* The key that signs the passes and the broker live in memory.
RestartService ==
  /\ Event
  /\ rooms' = [r \in Rooms |-> NoRoom]
  /\ push' = [h \in Handlers |-> NoPush]
  /\ tabs' = [t \in Tabs |->
       LET tab == tabs[t]
           cut == [tab EXCEPT !.restore = NoAnswer,
                              !.queue = IF push[t].pc = "idle" THEN @ ELSE Tail(@)]
       IN  IF tab.phase \in {"asks alone", "asks for a room"} THEN ClosedTab
           ELSE IF tab.pass.kind = "none" THEN tab
           ELSE [cut EXCEPT !.pass.valid = FALSE]]
  /\ UNCHANGED <<revisions, rom>>

BrowserInit ==
  /\ Init
  /\ rooms = [r \in Rooms |-> NoRoom]
  /\ \E content \in Roms : rom = [row |-> content, file |-> content]
  /\ tabs = [t \in Tabs |-> ClosedTab]
  /\ events = 0

RoomStep ==
  \/ \E r \in Rooms : CloseRoom(r) \/ ExpireRoom(r) \/ LookAtRoom(r)
  \/ \E r \in Rooms, profile \in Profiles, content \in Roms :
       HostByAPI(r, profile, content) \/ JoinByAPI(r, profile, content)

TabStep(t) ==
  \/ AskToPlayAlone(t) \/ AskForRoom(t) \/ SignSoloPass(t) \/ ExpireSoloPass(t)
  \/ \E r \in Rooms : CreateRoom(t, r) \/ JoinRoom(t, r)
  \/ OpenSoloPage(t) \/ OpenRoomPage(t) \/ StartGame(t)
  \/ RestoreSave(t) \/ ServeSave(t) \/ ApplyRestore(t) \/ RestoreFails(t)
  \/ \E hash \in Hashes : EmitSave(t, hash)
  \/ SendUpload(t) \/ StoreSave(t) \/ UploadAnswered(t) \/ UploadFails(t)
  \/ CloseTab(t)

BrowserNext ==
  \/ \E t \in Tabs : TabStep(t)
  \/ RoomStep
  \/ OtherUploads \/ OtherStep
  \/ ChangeRom \/ RestartService

BrowserSpec == BrowserInit /\ [][BrowserNext]_browserVars

-----------------------------------------------------------------------------
(* Properties *)

BrowserTypeOK ==
  /\ TypeOK
  /\ rom \in [row : Roms, file : Roms]
  /\ \A r \in Rooms : rooms[r].state \in {"absent", "waiting", "ready", "closed"}
  /\ \A t \in Tabs :
       /\ tabs[t].phase \in {"closed", "asks alone", "asks for a room",
                           "holds", "loads", "plays"}
       /\ tabs[t].base \in {NoRevision} \cup DOMAIN revisions
       /\ tabs[t].queue \in Seq([hash : Hashes, informed : BOOLEAN])

\* The tabs that play in one room play the same content, whatever happened
\* to the ROM between the room's creation, the invitation, the page and the
\* download: emulators in lock-step would drift apart on two contents.
OneGamePerRoom ==
  \A t, u \in Tabs :
    /\ tabs[t].phase = "plays" /\ tabs[t].page = "play-netplay"
    /\ tabs[u].phase = "plays" /\ tabs[u].page = "play-netplay"
    /\ tabs[t].pass.room = tabs[u].pass.room
    => tabs[t].content = tabs[u].content

\* A save emitted after the player's restore supersedes nothing the player
\* has not loaded or uploaded itself: what another device or tab published
\* meanwhile turns it into a conflict.  Only a restore that arrives while the
\* save waits in the queue, and a transaction in between, take this away.
UnseenWorkSurvives ==
  [][\A t \in Tabs :
       /\ push[t].pc = "add" /\ push'[t].pc = "done"
       /\ tabs[t].queue # <<>> /\ Head(tabs[t].queue).informed
       /\ push[t].latest = CurrentStreamRevision(Stream)
       /\ revisions'[Len(revisions')].status = "current"
       => push[t].latest \in {NoRevision} \cup tabs[t].memory]_browserVars

\* "The player always carries its most recent successful revision as the base
\* of the next upload" (docs/WEB_EMULATION.md): its base is never an older one.
PlayerCarriesItsLastUpload ==
  \A t \in Tabs : tabs[t].base >= tabs[t].last
=============================================================================
