---------------------------- MODULE DevicePairing ----------------------------
(* Device profiles, pairing codes, devices and client tokens                  *)
(* (catalog/sync_store.go, catalog/device_store.go, the device profiles of    *)
(* catalog/runtime_store.go and server/pairing_api.go).  The store has one     *)
(* database connection: a transaction is one step, and a handler that runs     *)
(* several statements outside a transaction is one step per statement.         *)
EXTENDS Naturals, FiniteSets

CONSTANTS Profiles,    \* ids of user-created device profiles
          NoProfile,   \* the empty device_profile_id
          Devices,     \* device ids, each minted once
          Codes,       \* pairing codes
          Callers,     \* requests under way at a time
          Machines,    \* what a client says it runs on: records [os, arch]
          Shapes,      \* what a profile asks for: records [os, arch]
          Inputs,      \* what an administrator may write into a device
          CodeLife, TokenLife, \* lifetimes, in ticks
          MaxTime      \* bound on the clock

ASSUME PairingAssumption ==
  /\ NoProfile \notin Profiles
  /\ Inputs \subseteq [profile : Profiles \cup {NoProfile}, machine : Machines,
                       status : {"active", "offline"}]
  /\ {CodeLife, TokenLife, MaxTime} \subseteq Nat

VARIABLES profiles,  \* device_profiles
          codes,     \* pairing_codes
          devices,   \* devices
          tokens,    \* client_tokens; "code" records which code issued one
          calls,     \* the requests under way, one per caller
          time,      \* the clock
          revocations \* history: the devices a RevokeDevice committed for
pairingVars == <<profiles, codes, devices, tokens, calls, time, revocations>>

Unborn == [state |-> "unborn"]
Gone   == [state |-> "gone"]
Lives(row) == row.state = "row"
Idle == [op |-> "idle"]

Profile == [state : {"row"}, shape : Shapes, enabled : BOOLEAN]
Code    == [state : {"row"}, profile : Profiles, expires : Nat, redeemed : BOOLEAN]
Device  == [state : {"row"}, profile : Profiles \cup {NoProfile}, machine : Machines,
            status : {"active", "offline", "revoked"}, revokedAt : BOOLEAN]
Token   == [code : Codes, device : Devices, expires : Nat, revoked : BOOLEAN]

(* The profile, code and device rows are well formed, and so is every token.   *)
(* It is the shape of the four tables of migrations.go.                        *)
PairingTypeOK ==
  /\ profiles \in [Profiles -> Profile \cup {Unborn, Gone}]
  /\ codes \in [Codes -> Code \cup {Unborn}]
  /\ devices \in [Devices -> Device \cup {Unborn, Gone}]
  /\ tokens \subseteq Token
  /\ DOMAIN calls = Callers
  /\ time \in 0..MaxTime
  /\ revocations \subseteq Devices

-----------------------------------------------------------------------------
(* Compatibility of a profile with a machine                                  *)

NormalizePairingArchitecture(arch) ==
  CASE arch \in {"x86_64", "amd64"} -> "amd64"
    [] arch \in {"aarch64", "arm64", "arm64-v8a"} -> "arm64"
    [] OTHER -> arch

PairingProfileCompatible(shape, machine) ==
  /\ \/ shape.os = machine.os
     \/ (shape.os = "handheld-linux" /\ machine.os = "linux")
  /\ \/ "" \in {shape.arch, machine.arch}
     \/ NormalizePairingArchitecture(shape.arch) = NormalizePairingArchitecture(machine.arch)

Accepts(p, machine) ==
  p # NoProfile => /\ Lives(profiles[p]) /\ profiles[p].enabled
                   /\ PairingProfileCompatible(profiles[p].shape, machine)

Usable(t) == ~t.revoked /\ t.expires > time

Authenticates(t) == Usable(t) /\ Lives(devices[t.device])
                              /\ devices[t.device].status # "revoked"

Starts(c, call) == calls[c] = Idle /\ calls' = [calls EXCEPT ![c] = call]
Steps(c, step)  == calls' = [calls EXCEPT ![c].step = step]
Ends(c)         == calls' = [calls EXCEPT ![c] = Idle]
At(c, op, step) == calls[c].op = op /\ calls[c].step = step

-----------------------------------------------------------------------------
(* Pairing                                                                    *)

CreatePairingCode(c, p) ==
  /\ Lives(profiles[p]) /\ profiles[p].enabled
  /\ Starts(c, [op |-> "code", step |-> "insert", profile |-> p])
  /\ UNCHANGED <<profiles, codes, devices, tokens, time, revocations>>

InsertPairingCode(c, k) ==
  /\ At(c, "code", "insert")
  /\ codes[k] = Unborn
  /\ codes' = [codes EXCEPT ![k] = [state |-> "row", profile |-> calls[c].profile,
                                    expires |-> time + CodeLife, redeemed |-> FALSE]]
  /\ Ends(c)
  /\ UNCHANGED <<profiles, devices, tokens, time, revocations>>

RedeemableTwice(k) == Lives(codes[k]) /\ codes[k].expires > time
Redeemable(k) == Lives(codes[k]) /\ ~codes[k].redeemed /\ codes[k].expires > time

(* The transaction of RedeemPairingCode: device, token and mark, or nothing.   *)
RedeemPairingCode(k, d, machine, asserted) ==
  LET p == codes[k].profile IN
  /\ Redeemable(k)
  /\ asserted \in {NoProfile, p}
  /\ devices[d] = Unborn
  /\ Accepts(p, machine)
  /\ devices' = [devices EXCEPT ![d] = [state |-> "row", profile |-> p, machine |-> machine,
                                        status |-> "active", revokedAt |-> FALSE]]
  /\ tokens' = tokens \cup {[code |-> k, device |-> d, expires |-> time + TokenLife,
                             revoked |-> FALSE]}
  /\ codes' = [codes EXCEPT ![k].redeemed = TRUE]
  /\ UNCHANGED <<profiles, calls, time, revocations>>

-----------------------------------------------------------------------------
(* Devices                                                                    *)

CreateDevice(c, d, in) ==
  /\ devices[d] = Unborn
  /\ Accepts(in.profile, in.machine)
  /\ Starts(c, [op |-> "create", step |-> "insert", device |-> d, in |-> in])
  /\ UNCHANGED <<profiles, codes, devices, tokens, time, revocations>>

InsertDevice(c) ==
  LET call == calls[c] IN
  /\ At(c, "create", "insert")
  /\ devices' = IF devices[call.device] = Unborn
                THEN [devices EXCEPT ![call.device] =
                        [state |-> "row", profile |-> call.in.profile,
                         machine |-> call.in.machine, status |-> call.in.status,
                         revokedAt |-> FALSE]]
                ELSE devices
  /\ Ends(c)
  /\ UNCHANGED <<profiles, codes, tokens, time, revocations>>

IdentityChanged(call) == \/ call.in.profile # call.read.profile
                         \/ call.in.machine # call.read.machine

UpdateDevice(c, d, in) ==
  LET call == [op |-> "update", step |-> "profile", device |-> d, in |-> in,
               read |-> devices[d]] IN
  /\ Lives(devices[d])
  /\ devices[d].status # "revoked"
  /\ Starts(c, IF IdentityChanged(call) THEN [call EXCEPT !.step = "tokens"] ELSE call)
  /\ UNCHANGED <<profiles, codes, devices, tokens, time, revocations>>

CountActiveTokens(c) ==
  /\ At(c, "update", "tokens")
  /\ IF \E t \in tokens : t.device = calls[c].device /\ Usable(t)
     THEN Ends(c) ELSE Steps(c, "profile")
  /\ UNCHANGED <<profiles, codes, devices, tokens, time, revocations>>

CheckDeviceProfile(c) ==
  LET in == calls[c].in
      kept == in.profile = calls[c].read.profile IN
  /\ At(c, "update", "profile")
  /\ IF in.profile # NoProfile =>
          /\ Lives(profiles[in.profile])
          /\ kept \/ profiles[in.profile].enabled
          /\ PairingProfileCompatible(profiles[in.profile].shape, in.machine)
     THEN Steps(c, "write") ELSE Ends(c)
  /\ UNCHANGED <<profiles, codes, devices, tokens, time, revocations>>

(* The UPDATE writes the status asked for and the revoked_at read before.      *)
WriteDevice(c) ==
  LET call == calls[c] IN
  /\ At(c, "update", "write")
  /\ devices' = IF Lives(devices[call.device])
                THEN [devices EXCEPT ![call.device] =
                        [@ EXCEPT !.profile = call.in.profile, !.machine = call.in.machine,
                                  !.status = call.in.status, !.revokedAt = call.read.revokedAt]]
                ELSE devices
  /\ Ends(c)
  /\ UNCHANGED <<profiles, codes, tokens, time, revocations>>

RevokeStatusOnly(d) ==
  /\ Lives(devices[d])
  /\ devices' = [devices EXCEPT ![d].status = "revoked", ![d].revokedAt = TRUE]
  /\ revocations' = revocations \cup {d}
  /\ UNCHANGED <<profiles, codes, tokens, calls, time>>

(* One transaction revokes the device and every token it has.                  *)
RevokeDevice(d) ==
  /\ Lives(devices[d])
  /\ devices' = [devices EXCEPT ![d].status = "revoked", ![d].revokedAt = TRUE]
  /\ tokens' = {[t EXCEPT !.revoked = @ \/ t.device = d] : t \in tokens}
  /\ revocations' = revocations \cup {d}
  /\ UNCHANGED <<profiles, codes, calls, time>>

(* DeleteDevice counts the device's save revisions, which SaveStore models, and *)
(* deletes the row; its tokens go with it.                                     *)
DeleteDevice(d) ==
  /\ Lives(devices[d])
  /\ devices' = [devices EXCEPT ![d] = Gone]
  /\ tokens' = {t \in tokens : t.device # d}
  /\ UNCHANGED <<profiles, codes, calls, time, revocations>>

(* A heartbeat is authenticated, reads the device, and records in a transaction *)
(* that looks at the status once more.                                         *)
HeartbeatDevice(c, t) ==
  /\ Authenticates(t)
  /\ Starts(c, [op |-> "heartbeat", step |-> "read", device |-> t.device])
  /\ UNCHANGED <<profiles, codes, devices, tokens, time, revocations>>

Heard(d) == Lives(devices[d]) /\ devices[d].status # "revoked"

ReadHeartbeatDevice(c) ==
  /\ At(c, "heartbeat", "read")
  /\ IF Heard(calls[c].device) THEN Steps(c, "record") ELSE Ends(c)
  /\ UNCHANGED <<profiles, codes, devices, tokens, time, revocations>>

RecordWithoutLook(c) ==
  /\ At(c, "heartbeat", "record")
  /\ Lives(devices[calls[c].device])
  /\ devices' = [devices EXCEPT ![calls[c].device].status = "active"]
  /\ Ends(c)
  /\ UNCHANGED <<profiles, codes, tokens, time, revocations>>

RecordDeviceHeartbeat(c) ==
  /\ At(c, "heartbeat", "record")
  /\ Heard(calls[c].device)
  /\ devices' = [devices EXCEPT ![calls[c].device].status = "active"]
  /\ Ends(c)
  /\ UNCHANGED <<profiles, codes, tokens, time, revocations>>

RefuseHeartbeat(c) ==
  /\ At(c, "heartbeat", "record")
  /\ ~Heard(calls[c].device)
  /\ Ends(c)
  /\ UNCHANGED <<profiles, codes, devices, tokens, time, revocations>>

-----------------------------------------------------------------------------
(* Device profiles                                                            *)

CreateDeviceProfile(p, shape) ==
  /\ profiles[p] = Unborn
  /\ profiles' = [profiles EXCEPT ![p] = [state |-> "row", shape |-> shape, enabled |-> TRUE]]
  /\ UNCHANGED <<codes, devices, tokens, calls, time, revocations>>

(* An update that leaves target, os_family and architecture alone is not        *)
(* checked against references; one that changes them and a deletion are.       *)
UpdateDeviceProfile(c, p, shape, enabled) ==
  /\ Lives(profiles[p])
  /\ Starts(c, [op |-> "profile", profile |-> p, shape |-> shape, enabled |-> enabled,
                step |-> IF shape = profiles[p].shape THEN "write" ELSE "devices",
                references |-> 0])
  /\ UNCHANGED <<profiles, codes, devices, tokens, time, revocations>>

DeleteDeviceProfile(c, p) ==
  /\ Lives(profiles[p])
  /\ Starts(c, [op |-> "unprofile", profile |-> p, step |-> "devices", references |-> 0])
  /\ UNCHANGED <<profiles, codes, devices, tokens, time, revocations>>

CountsReferences(c, step, next, references) ==
  /\ calls[c].op \in {"profile", "unprofile"}
  /\ calls[c].step = step
  /\ calls' = [calls EXCEPT ![c].step = next, ![c].references = @ + references]
  /\ UNCHANGED <<profiles, codes, devices, tokens, time, revocations>>

(* deviceProfileReferenceCount: one statement for each table.                  *)
CountProfileDevices(c) ==
  CountsReferences(c, "devices", "codes",
    Cardinality({d \in Devices : Lives(devices[d]) /\ devices[d].profile = calls[c].profile}))

CountProfileCodes(c) ==
  CountsReferences(c, "codes", "write",
    Cardinality({k \in Codes : Redeemable(k) /\ codes[k].profile = calls[c].profile}))

WriteDeviceProfile(c) ==
  LET call == calls[c] IN
  /\ At(c, "profile", "write")
  /\ profiles' = IF call.references = 0 /\ Lives(profiles[call.profile])
                 THEN [profiles EXCEPT ![call.profile] =
                         [@ EXCEPT !.shape = call.shape, !.enabled = call.enabled]]
                 ELSE profiles
  /\ Ends(c)
  /\ UNCHANGED <<codes, devices, tokens, time, revocations>>

RemoveDeviceProfile(c) ==
  LET call == calls[c] IN
  /\ At(c, "unprofile", "write")
  /\ profiles' = IF call.references = 0
                 THEN [profiles EXCEPT ![call.profile] = Gone] ELSE profiles
  /\ Ends(c)
  /\ UNCHANGED <<codes, devices, tokens, time, revocations>>

-----------------------------------------------------------------------------
Tick == /\ time < MaxTime
        /\ time' = time + 1
        /\ UNCHANGED <<profiles, codes, devices, tokens, calls, revocations>>

PairingInit ==
  /\ profiles = [p \in Profiles |-> Unborn]
  /\ codes = [k \in Codes |-> Unborn]
  /\ devices = [d \in Devices |-> Unborn]
  /\ tokens = {}
  /\ calls = [c \in Callers |-> Idle]
  /\ time = 0
  /\ revocations = {}

ProfileStep ==
  \/ \E p \in Profiles, shape \in Shapes : CreateDeviceProfile(p, shape)
  \/ \E c \in Callers : \/ \E p \in Profiles, shape \in Shapes, enabled \in BOOLEAN :
                             UpdateDeviceProfile(c, p, shape, enabled)
                        \/ \E p \in Profiles : DeleteDeviceProfile(c, p)
                        \/ CountProfileDevices(c)
                        \/ CountProfileCodes(c)
                        \/ WriteDeviceProfile(c)
                        \/ RemoveDeviceProfile(c)

DeviceStep ==
  \/ \E d \in Devices : RevokeDevice(d) \/ DeleteDevice(d)
  \/ \E k \in Codes, d \in Devices, m \in Machines, p \in Profiles \cup {NoProfile} :
       RedeemPairingCode(k, d, m, p)
  \/ \E c \in Callers : \/ \E p \in Profiles : CreatePairingCode(c, p)
                        \/ \E k \in Codes : InsertPairingCode(c, k)
                        \/ \E d \in Devices, in \in Inputs : CreateDevice(c, d, in)
                        \/ \E d \in Devices, in \in Inputs : UpdateDevice(c, d, in)
                        \/ InsertDevice(c)
                        \/ CountActiveTokens(c)
                        \/ CheckDeviceProfile(c)
                        \/ WriteDevice(c)

HeartbeatStep ==
  \E c \in Callers : \/ \E t \in tokens : HeartbeatDevice(c, t)
                     \/ ReadHeartbeatDevice(c)
                     \/ RecordDeviceHeartbeat(c)
                     \/ RefuseHeartbeat(c)

PairingNext == ProfileStep \/ DeviceStep \/ HeartbeatStep \/ Tick
PairingSpec == PairingInit /\ [][PairingNext]_pairingVars

-----------------------------------------------------------------------------
(* A pairing code issues one token, however many clients present it and        *)
(* however late: "redeemed once; device token issued once"                     *)
(* (docs/DEVICE_SYNC_PROTOCOL.md:20).                                          *)
OneTokenPerCode ==
  \A t1, t2 \in tokens : t1.code = t2.code => t1 = t2

(* The store's tables, seen as codes spent, devices known and credentials held. *)
SpentCodes == {k \in Codes : Lives(codes[k]) /\ codes[k].redeemed}
KnownDevices == {d \in Devices : devices[d] # Unborn}
HeldTokens == {<<t.code, t.device>> : t \in {u \in tokens : ~u.revoked}}

Ledger == INSTANCE Credentials
            WITH spent <- SpentCodes, known <- KnownDevices,
                 held <- HeldTokens, barred <- revocations

(* "Redeemed once; device token issued once" (docs/DEVICE_SYNC_PROTOCOL.md:20): *)
(* whatever requests overlap, each step of the tables gives a credential for a *)
(* code not yet spent to a device not yet known, adds a device, takes every    *)
(* credential from a device that is revoked or deleted, or leaves all that     *)
(* alone.                                                                      *)
ImplementsCredentials == Ledger!Spec

(* Once a revocation has committed no token of the device ever authenticates   *)
(* again, not even when an update or a heartbeat that was already under way    *)
(* makes the device active once more (RevokeDevice, UpdateDevice).             *)
RevokedStaysOut ==
  \A t \in tokens : t.device \in revocations => ~Authenticates(t)

(* A revoked device becomes another status only by an UpdateDevice that read   *)
(* it before the revocation committed: every other handler looks again when    *)
(* it writes.                                                                  *)
RevivedByStaleUpdateOnly ==
  [][\A d \in Devices :
       Lives(devices[d]) /\ devices[d].status = "revoked" =>
         \/ ~Lives(devices'[d])
         \/ devices'[d].status = "revoked"
         \/ \E c \in Callers : (At(c, "update", "write") /\ calls[c].device = d)]_pairingVars

Fits(d) ==
  devices[d].profile # NoProfile =>
    /\ Lives(profiles[devices[d].profile])
    /\ PairingProfileCompatible(profiles[devices[d].profile].shape, devices[d].machine)

(* Every device fits the profile it refers to: "device profile target,         *)
(* os_family, and architecture are immutable while referenced"                 *)
(* (UpdateDeviceProfile, runtime_store.go:786).  The code breaks it: it counts *)
(* the devices before the pairing codes, and a code redeemed in between is     *)
(* counted as neither.                                                         *)
DevicesFitTheirProfile == \A d \in Devices : Lives(devices[d]) => Fits(d)
=============================================================================
