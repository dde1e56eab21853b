----------------------------- MODULE SaveBindings -----------------------------
(* Save streams, their bindings to drivers, the compatibility group of a build, *)
(* runtime attestations, and which streams a device may sync                   *)
(* (catalog/save_compatibility_store.go, the bindings of catalog/sync_store.go, *)
(* server/sync_api.go).  It composes with DevicePairing: a heartbeat is both    *)
(* modules' step, and sessions are asked for by paired devices.                 *)
EXTENDS DevicePairing

CONSTANTS SaveStreams, Bindings,
          Web, Native, Core,  \* the server's driver, the device's driver and core
          NoCore,
          Builds,             \* releases of the program, numbered
          Contract,           \* [Builds -> [{Native, Core} -> contract version]]
          Digest,             \* [Builds -> [{Native, Core} -> SHA-256 and size]]
          DeviceReports,      \* reports a device may send: sets of [id, contract, digest]
          MemberShape,        \* os_family and architecture of the device member
          BindingInputs       \* what an administrator may ask of a binding, see BindingRow

ASSUME BindingAssumption ==
  BindingInputs \subseteq [stream : SaveStreams, profile : Profiles \cup {NoProfile},
                           driver : {Web, Native}, core : {Core, NoCore}, enabled : BOOLEAN]

VARIABLES build,        \* the release whose runtime catalog the store holds; 0 before the first
          saveStreams,  \* save_streams
          bindings,     \* save_bindings
          attestations, \* runtime_attestations, by device
          reported      \* history: the reports of the device's last accepted heartbeat
bindingVars == <<build, saveStreams, bindings, attestations, reported>>

Drivers == {Web, Native}
SaveStream == [state : {"row"}, driver : Drivers, grouped : BOOLEAN]
Binding == [state : {"row"}, stream : SaveStreams, profile : Profiles \cup {NoProfile},
            driver : Drivers, core : {Core, NoCore}, enabled : BOOLEAN]
BindingTypeOK ==
  /\ build \in Builds \cup {0}
  /\ saveStreams \in [SaveStreams -> SaveStream \cup {Unborn}]
  /\ bindings \in [Bindings -> Binding \cup {Unborn, Gone}]
  /\ attestations \in [Devices -> DeviceReports \cup {{}}]

-----------------------------------------------------------------------------
(* The group of the installed release                                         *)

RuntimeOSMatches(required, actual) ==
  \/ required = actual
  \/ {required, actual} = {"linux", "handheld-linux"}

MemberForDevice(machine) ==
  /\ RuntimeOSMatches(MemberShape.os, machine.os)
  /\ NormalizePairingArchitecture(MemberShape.arch) = NormalizePairingArchitecture(machine.arch)

Requirements(machine) ==
  IF build # 0 /\ MemberForDevice(machine)
  THEN {[id |-> r, contract |-> Contract[build][r]] : r \in {Native, Core}} ELSE {}

ValidateRuntimeAttestation(machine, report) ==
  [id |-> report.id, contract |-> report.contract] \in Requirements(machine)

RuntimeMemberMatchesDevice(machine, rows) ==
  /\ build # 0
  /\ MemberForDevice(machine)
  /\ \A r \in {Native, Core} :
       [id |-> r, contract |-> Contract[build][r], digest |-> Digest[build][r]] \in rows

(* A cross-driver binding needs the stream's group to hold its driver and core.*)
ExactMember(s, in) ==
  \/ saveStreams[s].driver = in.driver
  \/ saveStreams[s].grouped /\ in.driver = Native /\ in.core = Core

-----------------------------------------------------------------------------
(* Streams and bindings                                                       *)

BindingRow(in) == [state |-> "row", stream |-> in.stream, profile |-> in.profile,
                   driver |-> in.driver, core |-> in.core, enabled |-> in.enabled]

(* CreateSaveStream, whose trigger admits a group only for the server member.  *)
CreateSaveStream(s, driver, grouped) ==
  /\ build # 0
  /\ saveStreams[s] = Unborn
  /\ grouped => driver = Web
  /\ saveStreams' = [saveStreams EXCEPT ![s] = [state |-> "row", driver |-> driver,
                                                grouped |-> grouped]]
  /\ UNCHANGED <<build, bindings, attestations, reported, pairingVars>>

EnabledProfile(p) == p # NoProfile => Lives(profiles[p]) /\ profiles[p].enabled

(* CreateSaveSetup: the stream and its first binding in one transaction.       *)
CreateSaveSetup(b, driver, grouped, in) ==
  /\ build # 0
  /\ saveStreams[in.stream] = Unborn
  /\ bindings[b] = Unborn
  /\ grouped => driver = Web
  /\ in.driver # driver => grouped /\ in.driver = Native /\ in.core = Core
  /\ EnabledProfile(in.profile)
  /\ saveStreams' = [saveStreams EXCEPT ![in.stream] =
                       [state |-> "row", driver |-> driver, grouped |-> grouped]]
  /\ bindings' = [bindings EXCEPT ![b] = BindingRow(in)]
  /\ UNCHANGED <<build, attestations, reported, pairingVars>>

(* validateSaveBindingRelations: the stream, its group and the core, which only *)
(* a restart changes, and then the profile in a statement of its own.          *)
ValidateRelations(c, op, b, in) ==
  /\ build # 0
  /\ Lives(saveStreams[in.stream])
  /\ ExactMember(in.stream, in)
  /\ Starts(c, [op |-> op, step |-> "profile", binding |-> b, in |-> in])
  /\ UNCHANGED <<profiles, codes, devices, tokens, time, revocations, bindingVars>>

CreateSaveBinding(c, b, in) == bindings[b] = Unborn /\ ValidateRelations(c, "bind", b, in)
UpdateSaveBinding(c, b, in) == Lives(bindings[b]) /\ ValidateRelations(c, "rebind", b, in)

CheckBindingProfile(c) ==
  /\ calls[c].op \in {"bind", "rebind"}
  /\ calls[c].step = "profile"
  /\ IF EnabledProfile(calls[c].in.profile) THEN Steps(c, "write") ELSE Ends(c)
  /\ UNCHANGED <<profiles, codes, devices, tokens, time, revocations, bindingVars>>

(* The statement's trigger looks at the group membership once more.            *)
WriteSaveBinding(c) ==
  LET call == calls[c]
      present == IF call.op = "bind" THEN bindings[call.binding] = Unborn
                 ELSE Lives(bindings[call.binding]) IN
  /\ call.op \in {"bind", "rebind"}
  /\ call.step = "write"
  /\ bindings' = IF present /\ ExactMember(call.in.stream, call.in)
                 THEN [bindings EXCEPT ![call.binding] = BindingRow(call.in)]
                 ELSE bindings
  /\ Ends(c)
  /\ UNCHANGED <<profiles, codes, devices, tokens, time, revocations,
                 build, saveStreams, attestations, reported>>

DeleteSaveBinding(b) ==
  /\ Lives(bindings[b])
  /\ bindings' = [bindings EXCEPT ![b] = Gone]
  /\ UNCHANGED <<build, saveStreams, attestations, reported, pairingVars>>

-----------------------------------------------------------------------------
(* Heartbeats                                                                 *)

KeepOmitted(d, reports) ==
  [attestations EXCEPT ![d] = {a \in @ : \A r \in reports : r.id # a.id} \cup reports]

(* The whole snapshot is replaced: what a heartbeat omits is gone.             *)
ReplaceAttestations(d, reports) == [attestations EXCEPT ![d] = reports]

AttestedHeartbeat(c, reports) ==
  LET d == calls[c].device IN
  /\ RecordDeviceHeartbeat(c)
  /\ \A r \in reports : ValidateRuntimeAttestation(devices[d].machine, r)
  /\ attestations' = ReplaceAttestations(d, reports)
  /\ reported' = [reported EXCEPT ![d] = reports]
  /\ UNCHANGED <<build, saveStreams, bindings>>

(* One report that was not asked for, and nothing of the heartbeat is recorded.*)
RefuseAttestations(c, reports) ==
  /\ At(c, "heartbeat", "record")
  /\ Heard(calls[c].device)
  /\ \E r \in reports : ~ValidateRuntimeAttestation(devices[calls[c].device].machine, r)
  /\ Ends(c)
  /\ UNCHANGED <<profiles, codes, devices, tokens, time, revocations, bindingVars>>

-----------------------------------------------------------------------------
(* The streams of a session (createSyncSession, DeviceAuthorizedSaveStreams)   *)

RequestSession(c, t) ==
  /\ Authenticates(t)
  /\ Starts(c, [op |-> "session", step |-> "device", token |-> t])
  /\ UNCHANGED <<profiles, codes, devices, tokens, time, revocations, bindingVars>>

ReadSessionDevice(c) ==
  LET d == calls[c].token.device IN
  /\ At(c, "session", "device")
  /\ IF Heard(d)
     THEN calls' = [calls EXCEPT ![c] = [op |-> "session", step |-> "bindings",
                                         token |-> calls[c].token, read |-> devices[d]]]
     ELSE Ends(c)
  /\ UNCHANGED <<profiles, codes, devices, tokens, time, revocations, bindingVars>>

ListSaveBindings(c) ==
  LET call == calls[c] IN
  /\ At(c, "session", "bindings")
  /\ calls' = [calls EXCEPT ![c] =
       [op |-> "session", step |-> "authorize", token |-> call.token, read |-> call.read,
        todo |-> {bindings[b] : b \in {x \in Bindings :
                    /\ Lives(bindings[x])
                    /\ bindings[x].profile \in {NoProfile, call.read.profile}}},
        allowed |-> {}]]
  /\ UNCHANGED <<profiles, codes, devices, tokens, time, revocations, bindingVars>>

SaveBindingRuntimeAuthorized(call, row, rows) ==
  /\ row.enabled
  /\ Lives(saveStreams[row.stream])
  /\ \/ row.driver = saveStreams[row.stream].driver
     \/ /\ saveStreams[row.stream].grouped
        /\ row.driver = Native /\ row.core = Core
        /\ RuntimeMemberMatchesDevice(call.read.machine, rows)

(* The rows listed before are taken one by one, whatever became of them since. *)
AuthorizeBinding(c) ==
  LET call == calls[c]
      rows == attestations[call.token.device] IN
  /\ At(c, "session", "authorize")
  /\ \E row \in call.todo :
       calls' = [calls EXCEPT ![c].todo = @ \ {row},
                              ![c].allowed = IF SaveBindingRuntimeAuthorized(call, row, rows)
                                             THEN @ \cup {row.stream} ELSE @]
  /\ UNCHANGED <<profiles, codes, devices, tokens, time, revocations, bindingVars>>

(* What follows is SyncServer's CreateSession: its plan holds the streams      *)
(* allowed.                                                                    *)
OpenSession(c) ==
  /\ At(c, "session", "authorize")
  /\ calls[c].todo = {}
  /\ Ends(c)
  /\ UNCHANGED <<profiles, codes, devices, tokens, time, revocations, bindingVars>>

-----------------------------------------------------------------------------
(* A restart ends the requests and brings the group up to the release's; an    *)
(* older release than the stored group's refuses to start.  Streams of the     *)
(* server's driver without a group join it (AttachSaveCompatibilityGroup).     *)
Restart(v) ==
  /\ v >= build
  /\ build' = v
  /\ saveStreams' = [s \in SaveStreams |->
       IF Lives(saveStreams[s]) /\ saveStreams[s].driver = Web
       THEN [saveStreams[s] EXCEPT !.grouped = TRUE] ELSE saveStreams[s]]
  /\ calls' = [c \in Callers |-> Idle]
  /\ UNCHANGED <<bindings, attestations, reported>>
  /\ UNCHANGED <<profiles, codes, devices, tokens, time, revocations>>

BindingInit ==
  /\ PairingInit
  /\ build = 0
  /\ saveStreams = [s \in SaveStreams |-> Unborn]
  /\ bindings = [b \in Bindings |-> Unborn]
  /\ attestations = [d \in Devices |-> {}]
  /\ reported = [d \in Devices |-> {}]

BindingStep ==
  \/ \E v \in Builds : Restart(v)
  \/ \E s \in SaveStreams, driver \in Drivers, grouped \in BOOLEAN :
       CreateSaveStream(s, driver, grouped)
  \/ \E b \in Bindings : DeleteSaveBinding(b)
  \/ \E b \in Bindings, driver \in Drivers, grouped \in BOOLEAN, in \in BindingInputs :
       CreateSaveSetup(b, driver, grouped, in)
  \/ \E c \in Callers, b \in Bindings, in \in BindingInputs :
       CreateSaveBinding(c, b, in) \/ UpdateSaveBinding(c, b, in)
  \/ \E c \in Callers : CheckBindingProfile(c) \/ WriteSaveBinding(c)

SessionStep ==
  \E c \in Callers :
    \/ \E t \in tokens : RequestSession(c, t)
    \/ ReadSessionDevice(c)
    \/ ListSaveBindings(c)
    \/ AuthorizeBinding(c)
    \/ OpenSession(c)

AttestationStep ==
  \E c \in Callers :
    \/ \E reports \in DeviceReports : AttestedHeartbeat(c, reports) \/ RefuseAttestations(c, reports)
    \/ (ReadHeartbeatDevice(c) \/ RefuseHeartbeat(c)) /\ UNCHANGED bindingVars
    \/ \E t \in tokens : HeartbeatDevice(c, t) /\ UNCHANGED bindingVars

BindingNext == \/ BindingStep
               \/ SessionStep
               \/ AttestationStep
               \/ (ProfileStep \/ DeviceStep \/ Tick) /\ UNCHANGED bindingVars
BindingSpec == BindingInit /\ [][BindingNext]_<<pairingVars, bindingVars>>

-----------------------------------------------------------------------------
(* "Streams whose compatibility depends on exact runtime binaries stay locked  *)
(* until the required driver/core attestations match"                          *)
(* (docs/DEVICE_SYNC_PROTOCOL.md:76-79): while the token that asked for the     *)
(* session still stands, a stream of another driver enters it only on the       *)
(* strength of the last heartbeat the device sent, as the machine it is now,    *)
(* with the driver and the core of the installed release.                       *)
LockedUntilAttested ==
  [][\A c \in Callers, s \in SaveStreams :
       LET call == calls[c] IN
       /\ At(c, "session", "authorize")
       /\ At(c, "session", "authorize")'
       /\ s \in calls'[c].allowed \ call.allowed
       /\ call.token \in tokens /\ Authenticates(call.token)
       => \/ \E row \in call.todo : row.stream = s /\ row.driver = saveStreams[s].driver
          \/ RuntimeMemberMatchesDevice(devices[call.token.device].machine,
                                        reported[call.token.device])]_<<pairingVars, bindingVars>>
=============================================================================
