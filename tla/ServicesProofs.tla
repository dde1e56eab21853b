--------------------------- MODULE ServicesProofs ---------------------------
(***************************************************************************)
(* Theorems about the services of the server that share its one database   *)
(* and no table but the pairing ones: DevicePairing and, on top of it,      *)
(* SaveBindings, for any profiles, devices, codes, callers, machines,       *)
(* releases, lifetimes and clock; RuntimeCatalog, for any edits, reports,   *)
(* releases, seeds and callers; RuntimeBindings, for any hints, libraries,  *)
(* imports and reviewers.  The order is pairing, the runtime catalogue,     *)
(* launch bindings, save bindings.                                          *)
(***************************************************************************)
EXTENDS SaveBindings, RuntimeCatalog, RuntimeBindings, TLAPS


-----------------------------------------------------------------------------
(* Pairing: the inductive invariant                                           *)

\* What a request under way carries from one of its steps to the next.
CodeCall(call) ==
  /\ DOMAIN call = {"op", "step", "profile"}
  /\ call.op = "code" /\ call.profile \in Profiles

CreateCall(call) ==
  /\ DOMAIN call = {"op", "step", "device", "in"}
  /\ call.op = "create" /\ call.device \in Devices /\ call.in \in Inputs

UpdateCall(call) ==
  /\ DOMAIN call = {"op", "step", "device", "in", "read"}
  /\ call.op = "update" /\ call.device \in Devices /\ call.in \in Inputs
  /\ call.read \in Device

HeartbeatCall(call) ==
  /\ DOMAIN call = {"op", "step", "device"}
  /\ call.op = "heartbeat" /\ call.device \in Devices

ProfileCall(call) ==
  /\ DOMAIN call = {"op", "step", "profile", "shape", "enabled", "references"}
  /\ call.op = "profile" /\ call.profile \in Profiles
  /\ call.shape \in Shapes /\ call.enabled \in BOOLEAN

UnprofileCall(call) ==
  /\ DOMAIN call = {"op", "step", "profile", "references"}
  /\ call.op = "unprofile" /\ call.profile \in Profiles

\* What a request for a save binding or for a session carries (SaveBindings).
BindingCall(call) ==
  /\ {"op", "step"} \subseteq DOMAIN call
  /\ call.op \in {"bind", "rebind", "session"}
  /\ call.op = "session" => "token" \in DOMAIN call /\ call.token \in Token

CallOK(call) ==
  \/ call = Idle
  \/ CodeCall(call) \/ CreateCall(call) \/ UpdateCall(call)
  \/ HeartbeatCall(call) \/ ProfileCall(call) \/ UnprofileCall(call)
  \/ BindingCall(call)

CallsOK == calls = [c \in Callers |-> calls[c]] /\ \A c \in Callers : CallOK(calls[c])

\* A token was issued by a code that is marked as redeemed.
TokensAreRedeemed ==
  \A t \in tokens : Lives(codes[t.code]) /\ codes[t.code].redeemed

\* A revocation reached every token of its device, and no device is minted
\* again: a device to pair is none that was revoked.
RevocationsReachTokens ==
  /\ \A d \in revocations : devices[d] # Unborn
  /\ \A t \in tokens : t.device \in revocations => t.revoked

PairingInv == /\ PairingTypeOK /\ CallsOK
              /\ TokensAreRedeemed /\ OneTokenPerCode
              /\ RevocationsReachTokens

-----------------------------------------------------------------------------
(* Requests under way stay well formed                                        *)

LEMMA NextStepOK ==
  ASSUME NEW call, CallOK(call), call.op # "idle", NEW s
  PROVE  CallOK([call EXCEPT !.step = s])
BY DEF CallOK, Idle, CodeCall, CreateCall, UpdateCall, HeartbeatCall, ProfileCall,
       UnprofileCall, BindingCall

LEMMA CallsStayOK ==
  ASSUME CallsOK, NEW c \in Callers, NEW call, CallOK(call),
         calls' = [calls EXCEPT ![c] = call]
  PROVE  CallsOK' /\ DOMAIN calls' = Callers
BY DEF CallsOK

LEMMA StartsOK ==
  ASSUME CallsOK, NEW c \in Callers, NEW call, CallOK(call), Starts(c, call)
  PROVE  CallsOK' /\ DOMAIN calls' = Callers
BY CallsStayOK DEF Starts

LEMMA StepsOK ==
  ASSUME CallsOK, NEW c \in Callers, NEW s, calls[c].op # "idle", Steps(c, s)
  PROVE  CallsOK' /\ DOMAIN calls' = Callers
<1>1. CallOK([calls[c] EXCEPT !.step = s])
  BY NextStepOK DEF CallsOK
<1>2. calls' = [calls EXCEPT ![c] = [calls[c] EXCEPT !.step = s]]
  BY DEF Steps, CallsOK
<1> QED BY <1>1, <1>2, CallsStayOK

LEMMA EndsOK ==
  ASSUME CallsOK, NEW c \in Callers, Ends(c)
  PROVE  CallsOK' /\ DOMAIN calls' = Callers
<1>1. CallOK(Idle)
  BY DEF CallOK
<1> QED BY <1>1, CallsStayOK DEF Ends

LEMMA UnchangedCallsOK ==
  ASSUME CallsOK, UNCHANGED calls
  PROVE  CallsOK' /\ DOMAIN calls' = Callers
BY DEF CallsOK

-----------------------------------------------------------------------------
(* Every step keeps the tables and the requests well formed                   *)

LEMMA ProfileStepKeepsTypes ==
  ASSUME PairingTypeOK, CallsOK, ProfileStep
  PROVE  PairingTypeOK' /\ CallsOK'
<1> USE DEF PairingTypeOK, Profile, Lives, Unborn, Gone
<1>1. ASSUME NEW p \in Profiles, NEW shape \in Shapes, CreateDeviceProfile(p, shape)
      PROVE  PairingTypeOK' /\ CallsOK'
  BY <1>1, UnchangedCallsOK DEF CreateDeviceProfile
<1>2. ASSUME NEW c \in Callers, NEW p \in Profiles, NEW shape \in Shapes,
             NEW enabled \in BOOLEAN, UpdateDeviceProfile(c, p, shape, enabled)
      PROVE  PairingTypeOK' /\ CallsOK'
  <2> DEFINE call == [op |-> "profile", profile |-> p, shape |-> shape, enabled |-> enabled,
                      step |-> IF shape = profiles[p].shape THEN "write" ELSE "devices",
                      references |-> 0]
  <2>1. CallOK(call)
    BY DEF CallOK, ProfileCall
  <2> QED BY <1>2, <2>1, StartsOK DEF UpdateDeviceProfile
<1>3. ASSUME NEW c \in Callers, NEW p \in Profiles, DeleteDeviceProfile(c, p)
      PROVE  PairingTypeOK' /\ CallsOK'
  <2> DEFINE call == [op |-> "unprofile", profile |-> p, step |-> "devices",
                      references |-> 0]
  <2>1. CallOK(call)
    BY DEF CallOK, UnprofileCall
  <2> QED BY <1>3, <2>1, StartsOK DEF DeleteDeviceProfile
<1>4. ASSUME NEW c \in Callers, NEW step, NEW next, NEW n, CountsReferences(c, step, next, n)
      PROVE  PairingTypeOK' /\ CallsOK'
  <2> DEFINE call == [calls[c] EXCEPT !.step = next, !.references = @ + n]
  <2>1. ProfileCall(calls[c]) \/ UnprofileCall(calls[c])
    BY <1>4 DEF CountsReferences, CallsOK, CallOK, Idle, CodeCall, CreateCall, UpdateCall,
                HeartbeatCall, BindingCall
  <2>2. CallOK(call)
    BY <2>1 DEF CallOK, ProfileCall, UnprofileCall
  <2>3. calls' = [calls EXCEPT ![c] = call]
    BY <1>4 DEF CountsReferences, CallsOK
  <2> HIDE DEF call
  <2> QED BY <1>4, <2>2, <2>3, CallsStayOK DEF CountsReferences
<1>5. ASSUME NEW c \in Callers, WriteDeviceProfile(c)
      PROVE  PairingTypeOK' /\ CallsOK'
  <2>1. ProfileCall(calls[c])
    BY <1>5 DEF WriteDeviceProfile, At, CallsOK, CallOK, Idle, CodeCall, CreateCall,
                UpdateCall, HeartbeatCall, UnprofileCall, BindingCall
  <2>2. ASSUME Lives(profiles[calls[c].profile])
        PROVE  [profiles[calls[c].profile] EXCEPT !.shape = calls[c].shape,
                                                  !.enabled = calls[c].enabled] \in Profile
    <3>1. profiles[calls[c].profile] \in Profile
      BY <2>1, <2>2 DEF ProfileCall
    <3> QED BY <2>1, <3>1 DEF ProfileCall
  <2>3. profiles' \in [Profiles -> Profile \cup {Unborn, Gone}]
    BY <1>5, <2>1, <2>2 DEF WriteDeviceProfile, ProfileCall
  <2> QED BY <1>5, <2>3, EndsOK DEF WriteDeviceProfile
<1>6. ASSUME NEW c \in Callers, RemoveDeviceProfile(c)
      PROVE  PairingTypeOK' /\ CallsOK'
  BY <1>6, EndsOK DEF RemoveDeviceProfile
<1> QED
  BY <1>1, <1>2, <1>3, <1>4, <1>5, <1>6
     DEF ProfileStep, CountProfileDevices, CountProfileCodes

LEMMA DeviceStepKeepsTypes ==
  ASSUME PairingTypeOK, CallsOK, DeviceStep
  PROVE  PairingTypeOK' /\ CallsOK'
<1> USE DEF PairingTypeOK, Lives, Unborn, Gone
<1>1. ASSUME NEW d \in Devices, RevokeDevice(d)
      PROVE  PairingTypeOK' /\ CallsOK'
  <2>1. devices' \in [Devices -> Device \cup {Unborn, Gone}]
    BY ZenonT(40), <1>1 DEF RevokeDevice, Device
  <2>2. ASSUME NEW t \in Token
        PROVE  [t EXCEPT !.revoked = @ \/ t.device = d] \in Token
    BY DEF Token
  <2>3. tokens' \subseteq Token
    BY <1>1, <2>2 DEF RevokeDevice
  <2> QED BY <1>1, <2>1, <2>3, UnchangedCallsOK DEF RevokeDevice
<1>2. ASSUME NEW d \in Devices, DeleteDevice(d)
      PROVE  PairingTypeOK' /\ CallsOK'
  BY <1>2, UnchangedCallsOK DEF DeleteDevice
<1>3. ASSUME NEW k \in Codes, NEW d \in Devices, NEW m \in Machines,
             NEW p \in Profiles \cup {NoProfile}, RedeemPairingCode(k, d, m, p)
      PROVE  PairingTypeOK' /\ CallsOK'
  <2>1. codes[k] \in Code
    BY <1>3 DEF RedeemPairingCode, Redeemable
  <2>2. codes' \in [Codes -> Code \cup {Unborn}]
    BY <1>3, <2>1 DEF RedeemPairingCode, Code
  <2>3. devices' \in [Devices -> Device \cup {Unborn, Gone}]
    BY <1>3, <2>1 DEF RedeemPairingCode, Code, Device
  <2>4. [code |-> k, device |-> d, expires |-> time + TokenLife, revoked |-> FALSE] \in Token
    BY PairingAssumption DEF Token
  <2>5. tokens' \subseteq Token
    BY <1>3, <2>4 DEF RedeemPairingCode
  <2> QED BY <1>3, <2>2, <2>3, <2>5, UnchangedCallsOK DEF RedeemPairingCode
<1>4. ASSUME NEW c \in Callers, NEW p \in Profiles, CreatePairingCode(c, p)
      PROVE  PairingTypeOK' /\ CallsOK'
  <2>1. CallOK([op |-> "code", step |-> "insert", profile |-> p])
    BY DEF CallOK, CodeCall
  <2> QED BY <1>4, <2>1, StartsOK DEF CreatePairingCode
<1>5. ASSUME NEW c \in Callers, NEW k \in Codes, InsertPairingCode(c, k)
      PROVE  PairingTypeOK' /\ CallsOK'
  <2>1. CodeCall(calls[c])
    BY <1>5 DEF InsertPairingCode, At, CallsOK, CallOK, Idle, CreateCall, UpdateCall,
                HeartbeatCall, ProfileCall, UnprofileCall, BindingCall
  <2>2. codes' \in [Codes -> Code \cup {Unborn}]
    BY <1>5, <2>1, PairingAssumption DEF InsertPairingCode, Code, CodeCall
  <2> QED BY <1>5, <2>2, EndsOK DEF InsertPairingCode
<1>6. ASSUME NEW c \in Callers, NEW d \in Devices, NEW in \in Inputs, CreateDevice(c, d, in)
      PROVE  PairingTypeOK' /\ CallsOK'
  <2>1. CallOK([op |-> "create", step |-> "insert", device |-> d, in |-> in])
    BY DEF CallOK, CreateCall
  <2> QED BY <1>6, <2>1, StartsOK DEF CreateDevice
<1>7. ASSUME NEW c \in Callers, NEW d \in Devices, NEW in \in Inputs, UpdateDevice(c, d, in)
      PROVE  PairingTypeOK' /\ CallsOK'
  <2> DEFINE call == [op |-> "update", step |-> "profile", device |-> d, in |-> in,
                      read |-> devices[d]]
  <2>1. devices[d] \in Device
    BY <1>7 DEF UpdateDevice
  <2>2. CallOK(call) /\ CallOK([call EXCEPT !.step = "tokens"])
    BY <2>1 DEF CallOK, UpdateCall
  <2> HIDE DEF call
  <2>3. CallOK(IF IdentityChanged(call) THEN [call EXCEPT !.step = "tokens"] ELSE call)
    BY <2>2
  <2>4. Starts(c, IF IdentityChanged(call) THEN [call EXCEPT !.step = "tokens"] ELSE call)
    BY <1>7 DEF UpdateDevice, call
  <2> QED BY <1>7, <2>3, <2>4, StartsOK DEF UpdateDevice
<1>8. ASSUME NEW c \in Callers, InsertDevice(c)
      PROVE  PairingTypeOK' /\ CallsOK'
  <2>1. CreateCall(calls[c])
    BY <1>8 DEF InsertDevice, At, CallsOK, CallOK, Idle, CodeCall, UpdateCall,
                HeartbeatCall, ProfileCall, UnprofileCall, BindingCall
  <2>2. devices' \in [Devices -> Device \cup {Unborn, Gone}]
    BY <1>8, <2>1, PairingAssumption DEF InsertDevice, CreateCall, Device
  <2> QED BY <1>8, <2>2, EndsOK DEF InsertDevice
<1>9. ASSUME NEW c \in Callers, CountActiveTokens(c)
      PROVE  PairingTypeOK' /\ CallsOK'
  BY <1>9, EndsOK, StepsOK DEF CountActiveTokens, At
<1>10. ASSUME NEW c \in Callers, CheckDeviceProfile(c)
       PROVE  PairingTypeOK' /\ CallsOK'
  BY <1>10, EndsOK, StepsOK DEF CheckDeviceProfile, At
<1>11. ASSUME NEW c \in Callers, WriteDevice(c)
       PROVE  PairingTypeOK' /\ CallsOK'
  <2>1. UpdateCall(calls[c])
    BY <1>11 DEF WriteDevice, At, CallsOK, CallOK, Idle, CodeCall, CreateCall,
                 HeartbeatCall, ProfileCall, UnprofileCall, BindingCall
  <2>2. devices' \in [Devices -> Device \cup {Unborn, Gone}]
    BY <1>11, <2>1, PairingAssumption DEF WriteDevice, UpdateCall, Device
  <2> QED BY <1>11, <2>2, EndsOK DEF WriteDevice
<1> QED
  BY <1>1, <1>2, <1>3, <1>4, <1>5, <1>6, <1>7, <1>8, <1>9, <1>10, <1>11 DEF DeviceStep

LEMMA HeartbeatStepKeepsTypes ==
  ASSUME PairingTypeOK, CallsOK, HeartbeatStep
  PROVE  PairingTypeOK' /\ CallsOK'
<1> USE DEF PairingTypeOK
<1>1. ASSUME NEW c \in Callers, NEW t \in tokens, HeartbeatDevice(c, t)
      PROVE  PairingTypeOK' /\ CallsOK'
  <2>1. CallOK([op |-> "heartbeat", step |-> "read", device |-> t.device])
    BY DEF CallOK, HeartbeatCall, Token
  <2> QED BY <1>1, <2>1, StartsOK DEF HeartbeatDevice
<1>2. ASSUME NEW c \in Callers, ReadHeartbeatDevice(c)
      PROVE  PairingTypeOK' /\ CallsOK'
  BY <1>2, EndsOK, StepsOK DEF ReadHeartbeatDevice, At
<1>3. ASSUME NEW c \in Callers, RecordDeviceHeartbeat(c)
      PROVE  PairingTypeOK' /\ CallsOK'
  <2>1. devices' \in [Devices -> Device \cup {Unborn, Gone}]
    BY <1>3 DEF RecordDeviceHeartbeat, Heard, Lives, Unborn, Gone, Device
  <2> QED BY <1>3, <2>1, EndsOK DEF RecordDeviceHeartbeat
<1>4. ASSUME NEW c \in Callers, RefuseHeartbeat(c)
      PROVE  PairingTypeOK' /\ CallsOK'
  BY <1>4, EndsOK DEF RefuseHeartbeat
<1> QED BY <1>1, <1>2, <1>3, <1>4 DEF HeartbeatStep

LEMMA PairingStepKeepsTypes ==
  ASSUME PairingTypeOK, CallsOK, [PairingNext]_pairingVars
  PROVE  PairingTypeOK' /\ CallsOK'
<1>1. CASE Tick
  BY <1>1, PairingAssumption, UnchangedCallsOK DEF Tick, PairingTypeOK
<1>2. CASE UNCHANGED pairingVars
  BY <1>2, UnchangedCallsOK DEF pairingVars, PairingTypeOK
<1> QED
  BY <1>1, <1>2, ProfileStepKeepsTypes, DeviceStepKeepsTypes, HeartbeatStepKeepsTypes
     DEF PairingNext

-----------------------------------------------------------------------------
(* What most steps do: they leave tokens, codes and revocations alone, and    *)
(* make no device unborn again.                                               *)

Quietly == /\ UNCHANGED <<codes, tokens, revocations>>
           /\ \A d \in Devices : devices[d] # Unborn => devices'[d] # Unborn

\* What tokens, codes and revocations have to do with one another.
CodesAndTokens == TokensAreRedeemed /\ OneTokenPerCode /\ RevocationsReachTokens

LEMMA QuietlyKeepsTokens ==
  ASSUME PairingTypeOK, CodesAndTokens, Quietly
  PROVE  CodesAndTokens'
BY DEF Quietly, CodesAndTokens, TokensAreRedeemed, OneTokenPerCode, RevocationsReachTokens,
       PairingTypeOK

LEMMA ProfileStepIsQuiet ==
  ASSUME ProfileStep
  PROVE  UNCHANGED <<codes, devices, tokens, revocations>>
BY DEF ProfileStep, CreateDeviceProfile, UpdateDeviceProfile, DeleteDeviceProfile,
       CountProfileDevices, CountProfileCodes, CountsReferences, WriteDeviceProfile,
       RemoveDeviceProfile

LEMMA HeartbeatStepIsQuiet ==
  ASSUME PairingTypeOK, HeartbeatStep
  PROVE  Quietly
<1>1. ASSUME NEW c \in Callers, RecordDeviceHeartbeat(c)
      PROVE  Quietly
  <2> DEFINE e == calls[c].device
  <2>1. Lives(devices[e]) /\ devices' = [devices EXCEPT ![e] = [@ EXCEPT !.status = "active"]]
    BY <1>1 DEF RecordDeviceHeartbeat, Heard, PairingTypeOK
  <2>2. ASSUME NEW d \in Devices, devices[d] # Unborn
        PROVE  devices'[d] # Unborn
    <3>1. CASE d # e
      BY <2>1, <2>2, <3>1 DEF PairingTypeOK
    <3>2. CASE d = e
      BY <2>1, <3>2 DEF PairingTypeOK, Lives, Unborn, Gone, Device
    <3> QED BY <3>1, <3>2
  <2> QED BY <1>1, <2>2 DEF Quietly, RecordDeviceHeartbeat
<1>2. ASSUME NEW c \in Callers, \E t \in tokens : HeartbeatDevice(c, t)
      PROVE  Quietly
  BY <1>2 DEF HeartbeatDevice, Quietly
<1>3. ASSUME NEW c \in Callers, ReadHeartbeatDevice(c) \/ RefuseHeartbeat(c)
      PROVE  Quietly
  BY <1>3 DEF ReadHeartbeatDevice, RefuseHeartbeat, Quietly
<1> QED BY <1>1, <1>2, <1>3 DEF HeartbeatStep

LEMMA DeviceStepKeepsTokens ==
  ASSUME PairingTypeOK, CallsOK, CodesAndTokens, DeviceStep
  PROVE  CodesAndTokens'
<1> USE DEF CodesAndTokens
<1>1. ASSUME NEW d \in Devices, RevokeDevice(d)
      PROVE  CodesAndTokens'
  <2>1. ASSUME NEW t \in tokens'
        PROVE  \E u \in tokens : /\ t.code = u.code /\ t.device = u.device
                                 /\ t = [u EXCEPT !.revoked = @ \/ u.device = d]
                                 /\ t.revoked <=> u.revoked \/ u.device = d
    <3>1. PICK u \in tokens : t = [u EXCEPT !.revoked = @ \/ u.device = d]
      BY <1>1 DEF RevokeDevice
    <3>2. u \in Token
      BY DEF PairingTypeOK
    <3>3. t.code = u.code /\ t.device = u.device /\ (t.revoked <=> u.revoked \/ u.device = d)
      BY <3>1, <3>2 DEF Token
    <3> QED BY <3>1, <3>3
  <2>2. TokensAreRedeemed'
    BY <1>1, <2>1 DEF TokensAreRedeemed, RevokeDevice
  <2>3. OneTokenPerCode'
    BY <2>1 DEF OneTokenPerCode
  <2>4. \A e \in revocations' : devices'[e] # Unborn
    <3>1. ASSUME NEW e \in Devices, devices[e] # Unborn
          PROVE  devices'[e] # Unborn
      BY <1>1, <3>1 DEF RevokeDevice, PairingTypeOK, Lives, Unborn, Gone, Device
    <3>2. devices[d] # Unborn
      BY <1>1 DEF RevokeDevice, Lives, Unborn
    <3> QED BY <1>1, <3>1, <3>2 DEF RevokeDevice, RevocationsReachTokens, PairingTypeOK
  <2>5. \A t \in tokens' : t.device \in revocations' => t.revoked
    BY <1>1, <2>1 DEF RevokeDevice, RevocationsReachTokens
  <2> QED BY <2>2, <2>3, <2>4, <2>5 DEF RevocationsReachTokens
<1>2. ASSUME NEW d \in Devices, DeleteDevice(d)
      PROVE  CodesAndTokens'
  <2>1. \A e \in Devices : devices[e] # Unborn => devices'[e] # Unborn
    BY <1>2 DEF DeleteDevice, PairingTypeOK, Unborn, Gone
  <2>2. tokens' \subseteq tokens /\ UNCHANGED <<codes, revocations>>
    BY <1>2 DEF DeleteDevice
  <2> QED BY <2>1, <2>2
          DEF TokensAreRedeemed, OneTokenPerCode, RevocationsReachTokens, PairingTypeOK
<1>3. ASSUME NEW k \in Codes, NEW d \in Devices, NEW m \in Machines,
             NEW p \in Profiles \cup {NoProfile}, RedeemPairingCode(k, d, m, p)
      PROVE  CodesAndTokens'
  <2> DEFINE new == [code |-> k, device |-> d, expires |-> time + TokenLife, revoked |-> FALSE]
  <2>1. /\ tokens' = tokens \cup {new} /\ UNCHANGED revocations
        /\ Lives(codes[k]) /\ ~codes[k].redeemed /\ devices[d] = Unborn
    BY <1>3 DEF RedeemPairingCode, Redeemable
  <2>2. codes' = [codes EXCEPT ![k].redeemed = TRUE] /\ codes[k] \in Code
    BY <1>3 DEF RedeemPairingCode, Redeemable, PairingTypeOK, Lives, Unborn
  <2>3. Lives(codes'[k]) /\ codes'[k].redeemed
    BY <2>1, <2>2 DEF PairingTypeOK, Code, Lives
  <2>4. \A t \in tokens : t.code # k /\ t.code \in Codes /\ t \in Token
    BY <2>1 DEF TokensAreRedeemed, PairingTypeOK, Token
  <2>5. TokensAreRedeemed'
    <3>1. \A t \in tokens : codes'[t.code] = codes[t.code]
      BY <2>2, <2>4 DEF PairingTypeOK
    <3> QED BY <2>1, <2>3, <3>1 DEF TokensAreRedeemed
  <2>6. OneTokenPerCode'
    <3>1. new.code = k
      OBVIOUS
    <3> HIDE DEF new
    <3> QED BY <2>1, <2>4, <3>1 DEF OneTokenPerCode
  <2>7. d \notin revocations
    BY <2>1 DEF RevocationsReachTokens
  <2>8. \A e \in Devices : devices[e] # Unborn => devices'[e] # Unborn
    BY <1>3 DEF RedeemPairingCode, PairingTypeOK, Unborn
  <2>9. RevocationsReachTokens'
    BY <2>1, <2>7, <2>8 DEF RevocationsReachTokens, PairingTypeOK
  <2> QED BY <2>5, <2>6, <2>9
<1>4. ASSUME NEW c \in Callers, NEW k \in Codes, InsertPairingCode(c, k)
      PROVE  CodesAndTokens'
  <2>1. UNCHANGED <<devices, tokens, revocations>> /\ codes[k] = Unborn
    BY <1>4 DEF InsertPairingCode
  <2>2. \A t \in tokens : t.code \in Codes /\ t.code # k
    BY <2>1 DEF TokensAreRedeemed, PairingTypeOK, Token, Lives, Unborn
  <2>3. \A t \in tokens : codes'[t.code] = codes[t.code]
    BY <1>4, <2>2 DEF InsertPairingCode, PairingTypeOK
  <2> QED BY <2>1, <2>3 DEF TokensAreRedeemed, OneTokenPerCode, RevocationsReachTokens
<1>5. ASSUME NEW c \in Callers, InsertDevice(c)
      PROVE  Quietly
  BY <1>5 DEF InsertDevice, Quietly, PairingTypeOK, Unborn
<1>6. ASSUME NEW c \in Callers, WriteDevice(c)
      PROVE  Quietly
  <2> DEFINE e == calls[c].device
  <2>1. ASSUME NEW d \in Devices, devices[d] # Unborn
        PROVE  devices'[d] # Unborn
    <3>1. CASE d # e \/ ~Lives(devices[e])
      BY <1>6, <2>1, <3>1 DEF WriteDevice, PairingTypeOK
    <3>2. CASE d = e /\ Lives(devices[e])
      <4>1. devices[e] \in Device
        BY <3>2 DEF PairingTypeOK, Lives, Unborn, Gone
      <4>2. devices'[e].state = "row"
        BY <1>6, <3>2, <4>1 DEF WriteDevice, PairingTypeOK, Device
      <4> QED BY <3>2, <4>2 DEF Unborn
    <3> QED BY <3>1, <3>2
  <2> QED BY <1>6, <2>1 DEF WriteDevice, Quietly
<1>7. ASSUME NEW c \in Callers, CountActiveTokens(c) \/ CheckDeviceProfile(c)
      PROVE  Quietly
  BY <1>7 DEF CountActiveTokens, CheckDeviceProfile, Quietly
<1>8. ASSUME NEW c \in Callers, \E p \in Profiles : CreatePairingCode(c, p)
      PROVE  Quietly
  BY <1>8 DEF CreatePairingCode, Quietly
<1>9. ASSUME NEW c \in Callers, NEW d \in Devices, NEW in \in Inputs,
             CreateDevice(c, d, in) \/ UpdateDevice(c, d, in)
      PROVE  Quietly
  BY <1>9 DEF CreateDevice, UpdateDevice, Quietly
<1> HIDE DEF CodesAndTokens
<1> QED
  BY <1>1, <1>2, <1>3, <1>4, <1>5, <1>6, <1>7, <1>8, <1>9, QuietlyKeepsTokens DEF DeviceStep

LEMMA PairingStepKeepsInv ==
  ASSUME PairingInv, [PairingNext]_pairingVars
  PROVE  PairingInv'
<1>1. PairingTypeOK /\ CallsOK /\ CodesAndTokens
  BY DEF PairingInv, CodesAndTokens
<1>2. PairingTypeOK' /\ CallsOK'
  BY <1>1, PairingStepKeepsTypes
<1>3. CASE ProfileStep \/ HeartbeatStep \/ Tick \/ UNCHANGED pairingVars
  <2>1. Quietly
    BY <1>1, <1>3, ProfileStepIsQuiet, HeartbeatStepIsQuiet DEF Quietly, Tick, pairingVars
  <2> QED BY <1>1, <1>2, <2>1, QuietlyKeepsTokens DEF PairingInv, CodesAndTokens
<1>4. CASE DeviceStep
  BY <1>1, <1>2, <1>4, DeviceStepKeepsTokens DEF PairingInv, CodesAndTokens
<1> QED BY <1>3, <1>4 DEF PairingNext

LEMMA PairingStarts == PairingInit => PairingInv
BY PairingAssumption
   DEF PairingInit, PairingInv, PairingTypeOK, CallsOK, CallOK, TokensAreRedeemed,
       OneTokenPerCode, RevocationsReachTokens, Unborn

LEMMA PairingInvariance == PairingSpec => []PairingInv
<1>1. PairingInv /\ [PairingNext]_pairingVars => PairingInv'
  BY PairingStepKeepsInv
<1> QED BY <1>1, PairingStarts, PTL DEF PairingSpec

-----------------------------------------------------------------------------
(* The theorems on pairing                                                    *)

(* The rows of the four tables stay well formed, whatever requests overlap.    *)
THEOREM PairingIsWellTyped == PairingSpec => []PairingTypeOK
<1>1. PairingInv => PairingTypeOK
  BY DEF PairingInv
<1> QED BY <1>1, PairingInvariance, PTL

(* A pairing code issues at most one token, for any number of clients that     *)
(* present it and however the redemptions interleave with everything else      *)
(* (RedeemPairingCode: "already redeemed").                                    *)
THEOREM ACodeIssuesOneToken == PairingSpec => []OneTokenPerCode
<1>1. PairingInv => OneTokenPerCode
  BY DEF PairingInv
<1> QED BY <1>1, PairingInvariance, PTL

(* No token of a device whose revocation committed ever authenticates again,   *)
(* though updates and heartbeats under way may make the device active: the     *)
(* revocation reached each of its tokens, and no code can give it another      *)
(* (RevokeDevice, AuthenticateClientToken).                                    *)
THEOREM RevocationIsFinal == PairingSpec => []RevokedStaysOut
<1>1. PairingInv => RevokedStaysOut
  BY DEF PairingInv, RevocationsReachTokens, RevokedStaysOut, Authenticates, Usable
<1> QED BY <1>1, PairingInvariance, PTL

(* A revoked device gets another status only from the write of an update that  *)
(* was under way: an insertion, a redemption and a heartbeat look at the row   *)
(* again in the statement that writes (UpdateDevice, InsertDevice,             *)
(* RecordDeviceHeartbeat).                                                     *)
THEOREM OnlyAStaleUpdateRevives == PairingSpec => RevivedByStaleUpdateOnly
<1>1. ASSUME PairingTypeOK, [PairingNext]_pairingVars
      PROVE  [\A d \in Devices :
               Lives(devices[d]) /\ devices[d].status = "revoked" =>
                 \/ ~Lives(devices'[d])
                 \/ devices'[d].status = "revoked"
                 \/ \E c \in Callers : (At(c, "update", "write")
                                         /\ calls[c].device = d)]_pairingVars
  <2> SUFFICES ASSUME NEW d \in Devices, Lives(devices[d]), devices[d].status = "revoked",
                      Lives(devices'[d]), devices'[d].status # "revoked"
               PROVE  \E c \in Callers : At(c, "update", "write") /\ calls[c].device = d
    OBVIOUS
  <2> USE <1>1 DEF PairingTypeOK
  <2>1. devices'[d] # devices[d]
    OBVIOUS
  <2>2. ASSUME NEW e \in Devices, RevokeDevice(e) \/ DeleteDevice(e)
        PROVE  FALSE
    <3>1. e = d
      BY <2>1, <2>2 DEF RevokeDevice, DeleteDevice
    <3>2. devices[d] \in Device
      BY DEF Lives, Gone, Unborn
    <3>3. CASE RevokeDevice(d)
      BY <3>2, <3>3 DEF RevokeDevice, Device
    <3>4. CASE DeleteDevice(d)
      BY <3>4 DEF DeleteDevice, Lives, Gone
    <3> QED BY <2>2, <3>1, <3>3, <3>4
  <2>3. ASSUME NEW k \in Codes, NEW e \in Devices, NEW m \in Machines,
               NEW p \in Profiles \cup {NoProfile}, RedeemPairingCode(k, e, m, p)
        PROVE  FALSE
    BY <2>1, <2>3 DEF RedeemPairingCode, Lives, Unborn
  <2>4. ASSUME NEW c \in Callers, InsertDevice(c)
        PROVE  FALSE
    BY <2>1, <2>4 DEF InsertDevice, Lives, Unborn
  <2>5. ASSUME NEW c \in Callers, RecordDeviceHeartbeat(c)
        PROVE  FALSE
    BY <2>1, <2>5 DEF RecordDeviceHeartbeat, Heard
  <2>6. ASSUME NEW c \in Callers, WriteDevice(c)
        PROVE  At(c, "update", "write") /\ calls[c].device = d
    BY <2>1, <2>6 DEF WriteDevice
  <2>7. UNCHANGED devices \/ DeviceStep \/ HeartbeatStep
    BY <1>1, ProfileStepIsQuiet DEF PairingNext, Tick, pairingVars
  <2>8. HeartbeatStep => UNCHANGED devices \/ \E c \in Callers : RecordDeviceHeartbeat(c)
    BY DEF HeartbeatStep, HeartbeatDevice, ReadHeartbeatDevice, RefuseHeartbeat
  <2>9. DeviceStep =>
          \/ UNCHANGED devices
          \/ \E e \in Devices : RevokeDevice(e) \/ DeleteDevice(e)
          \/ \E k \in Codes, e \in Devices, m \in Machines, p \in Profiles \cup {NoProfile} :
               RedeemPairingCode(k, e, m, p)
          \/ \E c \in Callers : InsertDevice(c) \/ WriteDevice(c)
    BY DEF DeviceStep, CreatePairingCode, InsertPairingCode, CreateDevice, UpdateDevice,
           CountActiveTokens, CheckDeviceProfile
  <2> QED BY <2>1, <2>2, <2>3, <2>4, <2>5, <2>6, <2>7, <2>8, <2>9
<1>2. PairingSpec => [][PairingNext]_pairingVars
  BY DEF PairingSpec
<1> QED BY <1>1, <1>2, PairingIsWellTyped, PTL DEF RevivedByStaleUpdateOnly

-----------------------------------------------------------------------------
(* Pairing: codes, devices and tokens are a ledger of credentials             *)

\* What leaves these alone leaves the ledger alone.
LEMMA LedgerRests ==
  ASSUME UNCHANGED <<codes, tokens, revocations>>, UNCHANGED KnownDevices
  PROVE  UNCHANGED Ledger!vars
BY DEF Ledger!vars, SpentCodes, HeldTokens

\* What a revocation or a deletion takes from one device is its tokens.
LEMMA LedgerWithdraws ==
  ASSUME NEW d \in KnownDevices, UNCHANGED codes, UNCHANGED KnownDevices,
         \A t \in tokens' : ~t.revoked =>
           \E u \in tokens : ~u.revoked /\ u.code = t.code /\ u.device = t.device /\ t.device # d,
         \A u \in tokens : ~u.revoked /\ u.device # d =>
           \E t \in tokens' : ~t.revoked /\ u.code = t.code /\ u.device = t.device,
         revocations' \in {revocations, revocations \cup {d}}
  PROVE  Ledger!Next
<1>1. ASSUME NEW h \in HeldTokens'
      PROVE  h \in HeldTokens /\ h[2] # d
  <2>1. PICK t \in tokens' : ~t.revoked /\ h = <<t.code, t.device>>
    BY <1>1 DEF HeldTokens
  <2>2. PICK u \in tokens : ~u.revoked /\ u.code = t.code /\ u.device = t.device /\ t.device # d
    BY <2>1
  <2> QED BY <2>1, <2>2 DEF HeldTokens
<1>2. ASSUME NEW h \in HeldTokens, h[2] # d
      PROVE  h \in HeldTokens'
  <2>1. PICK u \in tokens : ~u.revoked /\ h = <<u.code, u.device>>
    BY <1>2 DEF HeldTokens
  <2>2. PICK t \in tokens' : ~t.revoked /\ u.code = t.code /\ u.device = t.device
    BY <1>2, <2>1
  <2> QED BY <2>1, <2>2 DEF HeldTokens
<1>3. HeldTokens' = {h \in HeldTokens : h[2] # d}
  BY <1>1, <1>2
<1>4. UNCHANGED SpentCodes /\ d \in Devices
  BY DEF SpentCodes, KnownDevices
<1> QED BY <1>3, <1>4 DEF Ledger!Next, Ledger!Withdraw

LEMMA RevocationIsOfLedger ==
  ASSUME PairingInv, NEW d \in Devices, RevokeDevice(d)
  PROVE  Ledger!Next
<1>1. PairingTypeOK /\ Lives(devices[d])
  BY DEF PairingInv, RevokeDevice
<1>2. ASSUME NEW u \in tokens
      PROVE  LET t == [u EXCEPT !.revoked = @ \/ u.device = d]
             IN  t.code = u.code /\ t.device = u.device /\ (t.revoked <=> u.revoked \/ u.device = d)
  BY <1>1 DEF PairingTypeOK, Token
<1>3. \A t \in tokens' : ~t.revoked =>
        \E u \in tokens : ~u.revoked /\ u.code = t.code /\ u.device = t.device /\ t.device # d
  BY <1>2 DEF RevokeDevice
<1>4. \A u \in tokens : ~u.revoked /\ u.device # d =>
        \E t \in tokens' : ~t.revoked /\ u.code = t.code /\ u.device = t.device
  <2> SUFFICES ASSUME NEW u \in tokens, ~u.revoked, u.device # d
               PROVE  \E t \in tokens' : ~t.revoked /\ u.code = t.code /\ u.device = t.device
    OBVIOUS
  <2>1. [u EXCEPT !.revoked = @ \/ u.device = d] \in tokens'
    BY DEF RevokeDevice
  <2> QED BY <1>2, <2>1
<1>5. d \in KnownDevices /\ UNCHANGED KnownDevices
  <2>1. devices[d] \in Device
    BY <1>1 DEF PairingTypeOK, Lives, Unborn, Gone
  <2>2. devices'[d].state = "row"
    BY <1>1, <2>1 DEF RevokeDevice, PairingTypeOK, Device
  <2>3. \A e \in Devices : e # d => devices'[e] = devices[e]
    BY <1>1 DEF RevokeDevice, PairingTypeOK
  <2>4. devices[d] # Unborn /\ devices'[d] # Unborn
    BY <1>1, <2>2 DEF Lives, Unborn
  <2> QED BY <2>3, <2>4 DEF KnownDevices
<1> QED BY <1>3, <1>4, <1>5, LedgerWithdraws DEF RevokeDevice

LEMMA DeletionIsOfLedger ==
  ASSUME PairingInv, NEW d \in Devices, DeleteDevice(d)
  PROVE  Ledger!Next
<1>1. PairingTypeOK /\ devices[d] # Unborn
  BY DEF PairingInv, DeleteDevice, Lives, Unborn
<1>2. d \in KnownDevices /\ UNCHANGED KnownDevices
  BY <1>1 DEF KnownDevices, DeleteDevice, PairingTypeOK, Unborn, Gone
<1>3. tokens' = {t \in tokens : t.device # d}
  BY DEF DeleteDevice
<1> QED BY <1>2, <1>3, LedgerWithdraws DEF DeleteDevice

LEMMA RedemptionIsOfLedger ==
  ASSUME PairingInv, NEW k \in Codes, NEW d \in Devices, NEW m, NEW p,
         RedeemPairingCode(k, d, m, p)
  PROVE  Ledger!Next
<1> DEFINE new == [code |-> k, device |-> d, expires |-> time + TokenLife, revoked |-> FALSE]
<1>1. PairingTypeOK /\ Lives(codes[k]) /\ ~codes[k].redeemed /\ devices[d] = Unborn
  BY DEF PairingInv, RedeemPairingCode, Redeemable
<1>2. k \notin SpentCodes /\ d \notin KnownDevices
  BY <1>1 DEF SpentCodes, KnownDevices
<1>3. SpentCodes' = SpentCodes \cup {k}
  <2>1. codes[k] \in Code
    BY <1>1 DEF PairingTypeOK, Lives, Unborn
  <2>2. Lives(codes'[k]) /\ codes'[k].redeemed
    BY <1>1, <2>1 DEF RedeemPairingCode, PairingTypeOK, Code, Lives
  <2>3. \A j \in Codes : j # k => codes'[j] = codes[j]
    BY <1>1 DEF RedeemPairingCode, PairingTypeOK
  <2> QED BY <2>2, <2>3 DEF SpentCodes
<1>4. KnownDevices' = KnownDevices \cup {d}
  <2>1. devices'[d].state = "row"
    BY <1>1 DEF RedeemPairingCode, PairingTypeOK
  <2>2. \A e \in Devices : e # d => devices'[e] = devices[e]
    BY <1>1 DEF RedeemPairingCode, PairingTypeOK
  <2>3. devices'[d] # Unborn
    BY <2>1 DEF Unborn
  <2> QED BY <2>2, <2>3 DEF KnownDevices
<1>5. HeldTokens' = HeldTokens \cup {<<k, d>>}
  <2>1. tokens' = tokens \cup {new} /\ new.code = k /\ new.device = d /\ ~new.revoked
    BY DEF RedeemPairingCode
  <2> HIDE DEF new
  <2> QED BY <2>1 DEF HeldTokens
<1>6. UNCHANGED revocations
  BY DEF RedeemPairingCode
<1>7. Ledger!Pair(k, d)
  BY <1>2, <1>3, <1>4, <1>5, <1>6 DEF Ledger!Pair
<1> QED BY <1>7 DEF Ledger!Next

LEMMA InsertionIsOfLedger ==
  ASSUME PairingInv, NEW c \in Callers, InsertDevice(c)
  PROVE  [Ledger!Next]_(Ledger!vars)
<1> DEFINE d == calls[c].device
<1>1. PairingTypeOK /\ UNCHANGED <<codes, tokens, revocations>>
  BY DEF PairingInv, InsertDevice
<1>2. CASE devices[d] # Unborn
  BY <1>1, <1>2, LedgerRests DEF InsertDevice, KnownDevices
<1>3. CASE devices[d] = Unborn
  <2>1. d \in Devices
    BY DEF InsertDevice, At, PairingInv, CallsOK, CallOK, Idle, CodeCall, CreateCall, UpdateCall,
           HeartbeatCall, ProfileCall, UnprofileCall, BindingCall
  <2>2. devices'[d].state = "row" /\ \A e \in Devices : e # d => devices'[e] = devices[e]
    BY <1>1, <1>3, <2>1 DEF InsertDevice, PairingTypeOK
  <2>3. devices'[d] # Unborn
    BY <2>2 DEF Unborn
  <2>4. KnownDevices' = KnownDevices \cup {d} /\ d \notin KnownDevices
    BY <1>3, <2>1, <2>2, <2>3 DEF KnownDevices
  <2>5. UNCHANGED <<SpentCodes, HeldTokens>>
    BY <1>1 DEF SpentCodes, HeldTokens
  <2> HIDE DEF d
  <2> QED BY <1>1, <2>1, <2>4, <2>5 DEF Ledger!Next, Ledger!Add
<1> QED BY <1>2, <1>3

\* A write changes a device that is there, and no other.
LEMMA WritesAreOfKnown ==
  ASSUME PairingTypeOK, NEW c \in Callers,
         WriteDevice(c) \/ RecordDeviceHeartbeat(c)
  PROVE  UNCHANGED <<codes, tokens, revocations>> /\ UNCHANGED KnownDevices
<1> DEFINE e == calls[c].device
<1>1. ASSUME NEW d \in Devices, devices'[d] # devices[d]
      PROVE  devices[d] # Unborn /\ devices'[d] # Unborn
  <2>1. d = e /\ Lives(devices[e])
    BY <1>1 DEF WriteDevice, RecordDeviceHeartbeat, Heard, PairingTypeOK
  <2>2. devices[e] \in Device
    BY <2>1 DEF PairingTypeOK, Lives, Unborn, Gone
  <2>3. devices'[e].state = "row"
    <3>1. CASE WriteDevice(c)
      BY <2>1, <2>2, <3>1 DEF WriteDevice, PairingTypeOK, Device
    <3>2. CASE RecordDeviceHeartbeat(c)
      BY <2>1, <2>2, <3>2 DEF RecordDeviceHeartbeat, PairingTypeOK, Device
    <3> QED BY <3>1, <3>2
  <2> QED BY <2>1, <2>3 DEF Lives, Unborn
<1>2. UNCHANGED KnownDevices
  BY <1>1 DEF KnownDevices
<1> QED BY <1>2 DEF WriteDevice, RecordDeviceHeartbeat

LEMMA NewCodesAreUnspent ==
  ASSUME PairingTypeOK, NEW c \in Callers, NEW k \in Codes, InsertPairingCode(c, k)
  PROVE  UNCHANGED Ledger!vars
<1>1. ~codes'[k].redeemed /\ ~Lives(codes[k])
  BY DEF InsertPairingCode, PairingTypeOK, Lives, Unborn
<1>2. \A j \in Codes : j # k => codes'[j] = codes[j]
  BY DEF InsertPairingCode, PairingTypeOK
<1>3. UNCHANGED SpentCodes
  BY <1>1, <1>2 DEF SpentCodes
<1> QED BY <1>3 DEF InsertPairingCode, Ledger!vars, KnownDevices, HeldTokens

LEMMA PairingIsOfLedger ==
  ASSUME PairingInv, [PairingNext]_pairingVars
  PROVE  [Ledger!Next]_(Ledger!vars)
<1>1. PairingTypeOK
  BY DEF PairingInv
<1>2. ASSUME UNCHANGED <<codes, devices, tokens, revocations>>
      PROVE  UNCHANGED Ledger!vars
  BY <1>2, LedgerRests DEF KnownDevices
<1>3. CASE ProfileStep \/ Tick \/ UNCHANGED pairingVars
  BY <1>2, <1>3, ProfileStepIsQuiet DEF Tick, pairingVars
<1>4. CASE HeartbeatStep
  <2>1. PICK c \in Callers : \/ \E t \in tokens : HeartbeatDevice(c, t)
                             \/ ReadHeartbeatDevice(c)
                             \/ RecordDeviceHeartbeat(c)
                             \/ RefuseHeartbeat(c)
    BY <1>4 DEF HeartbeatStep
  <2>2. CASE RecordDeviceHeartbeat(c)
    BY <1>1, <2>2, WritesAreOfKnown, LedgerRests
  <2>3. CASE (\E t \in tokens : HeartbeatDevice(c, t)) \/ ReadHeartbeatDevice(c)
             \/ RefuseHeartbeat(c)
    BY <1>2, <2>3 DEF HeartbeatDevice, ReadHeartbeatDevice, RefuseHeartbeat
  <2> QED BY <2>1, <2>2, <2>3
<1>5. CASE DeviceStep
  <2>1. ASSUME NEW c \in Callers, InsertDevice(c) PROVE [Ledger!Next]_(Ledger!vars)
    BY <2>1, InsertionIsOfLedger
  <2>2. ASSUME NEW c \in Callers, WriteDevice(c) PROVE UNCHANGED Ledger!vars
    BY <1>1, <2>2, WritesAreOfKnown, LedgerRests
  <2>3. ASSUME NEW c \in Callers,
               \/ \E p \in Profiles : CreatePairingCode(c, p)
               \/ \E d \in Devices, in \in Inputs : CreateDevice(c, d, in) \/ UpdateDevice(c, d, in)
               \/ CountActiveTokens(c) \/ CheckDeviceProfile(c)
        PROVE  UNCHANGED Ledger!vars
    BY <1>2, <2>3 DEF CreatePairingCode, CreateDevice, UpdateDevice, CountActiveTokens,
                      CheckDeviceProfile
  <2> QED BY <1>1, <1>5, <2>1, <2>2, <2>3, RevocationIsOfLedger, DeletionIsOfLedger,
             RedemptionIsOfLedger, NewCodesAreUnspent
          DEF DeviceStep
<1> QED BY <1>3, <1>4, <1>5 DEF PairingNext

LEMMA LedgerStarts == PairingInit => Ledger!Init
BY DEF PairingInit, Ledger!Init, SpentCodes, KnownDevices, HeldTokens, Lives, Unborn

(* The store's codes, devices and tokens implement the ledger of credentials,  *)
(* for any number of overlapping requests: a credential is given for a code    *)
(* not yet spent to a device not yet known, and a revocation or a deletion     *)
(* takes every one a device has (RedeemPairingCode, RevokeDevice,              *)
(* DeleteDevice).                                                              *)
THEOREM PairingImplementsCredentials == PairingSpec => ImplementsCredentials
BY LedgerStarts, PairingIsOfLedger, PairingInvariance, PTL
   DEF PairingSpec, ImplementsCredentials, Ledger!Spec

\* What the ledger is worth to its owner: each code gave one credential at most
\* and no barred device holds one.
LEMMA LedgerKeepsItsPromise == Ledger!Spec => [](Ledger!OncePerCode /\ Ledger!BarredHoldNone)
<1> DEFINE Inv == /\ Ledger!OncePerCode /\ Ledger!BarredHoldNone
                  /\ revocations \subseteq KnownDevices
                  /\ \A h \in HeldTokens : h[1] \in SpentCodes /\ h[2] \in KnownDevices
<1>1. Ledger!Init => Inv
  BY DEF Ledger!Init, Ledger!OncePerCode, Ledger!BarredHoldNone
<1>2. ASSUME Inv, [Ledger!Next]_(Ledger!vars)
      PROVE  Inv'
  <2>1. CASE UNCHANGED Ledger!vars
    BY <1>2, <2>1 DEF Ledger!vars, Ledger!OncePerCode, Ledger!BarredHoldNone
  <2>2. ASSUME NEW d \in Devices, Ledger!Add(d) \/ Ledger!Withdraw(d)
        PROVE  Inv'
    BY <1>2, <2>2 DEF Ledger!Add, Ledger!Withdraw, Ledger!OncePerCode, Ledger!BarredHoldNone
  <2>3. ASSUME NEW d \in Devices, NEW k \in Codes, Ledger!Pair(k, d)
        PROVE  Inv'
    <3> DEFINE new == <<k, d>>
    <3>1. new[1] = k /\ new[2] = d
      OBVIOUS
    <3>2. HeldTokens' = HeldTokens \cup {new}
      BY <2>3 DEF Ledger!Pair
    <3> HIDE DEF new
    <3> QED BY <1>2, <2>3, <3>1, <3>2 DEF Ledger!Pair, Ledger!OncePerCode, Ledger!BarredHoldNone
  <2> QED BY <1>2, <2>1, <2>2, <2>3 DEF Ledger!Next
<1>3. Inv => Ledger!OncePerCode /\ Ledger!BarredHoldNone
  OBVIOUS
<1> HIDE DEF Inv
<1> QED BY <1>1, <1>2, <1>3, PTL DEF Ledger!Spec


-----------------------------------------------------------------------------
(* The runtime catalogue: a claim on an object is one a review was committed   *)
(* for, and is removed with the object, so no later object of the same name    *)
(* inherits it.                                                                *)

ClaimsAreReviewed ==
  /\ claims = [k \in Kinds |-> claims[k]]
  /\ \A k \in Kinds :
       Stored(claims[k]) =>
         [kind |-> k, version |-> claims[k].version, level |-> claims[k].level] \in reviews

\* The components of a review are reviewed one by one.
LEMMA ReviewedKinds ==
  ASSUME NEW k \in Reviewed
  PROVE  \E i \in DOMAIN ReviewOrder : ReviewOrder[i] = k
BY DEF Reviewed

LEMMA ClaimsStay ==
  ASSUME ClaimsAreReviewed, UNCHANGED claims, reviews \subseteq reviews'
  PROVE  ClaimsAreReviewed'
BY DEF ClaimsAreReviewed

LEMMA ReviewApplied ==
  ASSUME ClaimsAreReviewed, NEW c \in RuntimeCallers, ApplyReviewedHardwareEvidence(c)
  PROVE  ClaimsAreReviewed'
<1> DEFINE call == requests[c]
           Made == {[kind |-> ReviewOrder[i], version |-> call.versions[i],
                     level |-> call.level] : i \in DOMAIN ReviewOrder}
           Claim(k) == IF k \in Reviewed
                       THEN [state |-> "row", version |-> objects[k].version,
                             level |-> call.level]
                       ELSE claims[k]
<1>1. CASE UNCHANGED <<claims, reviews>>
  BY <1>1, ClaimsStay
<1>2. CASE /\ \A i \in DOMAIN ReviewOrder :
                CurrentContract(ReviewOrder[i], call.versions[i])
           /\ claims' = [k \in Kinds |-> Claim(k)]
           /\ reviews' = reviews \cup Made
  <2>1. ASSUME NEW k \in Kinds, Stored(claims'[k])
        PROVE  [kind |-> k, version |-> claims'[k].version, level |-> claims'[k].level]
                 \in reviews'
    <3>1. CASE k \in Reviewed
      <4>1. PICK i \in DOMAIN ReviewOrder : ReviewOrder[i] = k
        BY <3>1, ReviewedKinds
      <4>2. call.versions[i] = objects[k].version
        BY <1>2, <4>1 DEF CurrentContract
      <4>3. claims'[k].version = objects[k].version /\ claims'[k].level = call.level
        BY <1>2, <3>1
      <4>4. [kind |-> ReviewOrder[i], version |-> call.versions[i], level |-> call.level]
              \in Made
        BY <4>1
      <4> HIDE DEF Made
      <4> QED BY <1>2, <4>1, <4>2, <4>3, <4>4
    <3>2. CASE k \notin Reviewed
      BY <1>2, <2>1, <3>2 DEF ClaimsAreReviewed
    <3> QED BY <3>1, <3>2
  <2> QED BY <1>2, <2>1 DEF ClaimsAreReviewed
<1> QED BY <1>1, <1>2 DEF ApplyReviewedHardwareEvidence

LEMMA ClaimsAreReviewedNext ==
  ClaimsAreReviewed /\ [RuntimeNext]_runtimeVars => ClaimsAreReviewed'
<1> SUFFICES ASSUME ClaimsAreReviewed, [RuntimeNext]_runtimeVars
             PROVE  ClaimsAreReviewed'
  OBVIOUS
<1>1. CASE AdapterRequest \/ DefinitionRequests
  <2>1. UNCHANGED <<claims, reviews>>
    BY <1>1 DEF AdapterRequest, DefinitionRequests, CreateSourceAdapter,
           CreateFrontendAdapter, CreateDeviceProfileDefinition, CreateEmulatorDriver,
           CreateRetroArchCore, Create, UpdateSourceAdapter, UpdateFrontendAdapter,
           UpdateDeviceProfileDefinition, UpdateEmulatorDriver, UpdateRetroArchCore,
           ReadForUpdate, DeleteSourceAdapter, DeleteFrontendAdapter,
           DeleteDeviceProfileDefinition, DeleteEmulatorDriver, DeleteRetroArchCore,
           ReadForDelete
  <2> QED BY <2>1, ClaimsStay
<1>2. CASE EnsureRuntimeCatalog \/ \E v \in Releases : RestartCatalog(v)
  BY <1>2, ClaimsStay DEF EnsureRuntimeCatalog, RestartCatalog
<1>3. ASSUME NEW c \in RuntimeCallers, WriteUpdate(c)
      PROVE  ClaimsAreReviewed'
  BY <1>3, ClaimsStay DEF WriteUpdate
<1>4. ASSUME NEW c \in RuntimeCallers, DeleteRuntimeObjectWithEvidence(c)
      PROVE  ClaimsAreReviewed'
  <2>1. /\ UNCHANGED reviews
        /\ \E kind : claims' = [claims EXCEPT ![kind] = Absent]
    BY <1>4 DEF DeleteRuntimeObjectWithEvidence
  <2>2. ~Stored(Absent)
    BY DEF Stored, Absent
  <2> QED BY <2>1, <2>2 DEF ClaimsAreReviewed
<1>5. CASE ReviewStep
  <2>1. PICK c \in RuntimeCallers :
          UNCHANGED <<claims, reviews>> \/ ApplyReviewedHardwareEvidence(c)
    BY <1>5 DEF ReviewStep, PreviewHardwareAcceptance, CommitHardwareAcceptance,
           BuildHardwareAcceptancePreview, SignPreviewValue
  <2> QED BY <2>1, ClaimsStay, ReviewApplied
<1>6. CASE UNCHANGED runtimeVars
  BY <1>6, ClaimsStay DEF runtimeVars
<1> QED BY <1>1, <1>2, <1>3, <1>4, <1>5, <1>6 DEF RuntimeNext, StoreStep

\* The readiness report counts a component at a level only when a review of the
\* contract it has now was committed at that level or above, whatever releases,
\* edits, deletions and other reviews came between the preview, the commit and
\* the report.
THEOREM ReadinessNeedsAReview == RuntimeSpec => []ReadinessIsReviewed
<1>1. RuntimeInit => ClaimsAreReviewed
  BY DEF RuntimeInit, ClaimsAreReviewed, Stored, Absent
<1>2. ASSUME ClaimsAreReviewed, NEW kind \in Kinds, NEW level \in HardwareLevels,
             HardwareReadiness(kind, level)
      PROVE  \E r \in reviews : /\ r.kind = kind
                                /\ r.version = objects[kind].version
                                /\ SupportLevelRank(r.level) >= SupportLevelRank(level)
  <2>1. /\ Stored(claims[kind]) /\ claims[kind].version = objects[kind].version
        /\ SupportLevelRank(claims[kind].level) >= SupportLevelRank(level)
    BY <1>2 DEF HardwareReadiness, ComponentMeets, RuntimeClaim, ClaimMeets
  <2> DEFINE r == [kind |-> kind, version |-> claims[kind].version,
                   level |-> claims[kind].level]
  <2>2. r \in reviews
    BY <1>2, <2>1 DEF ClaimsAreReviewed
  <2> QED BY <2>1, <2>2
<1>3. ClaimsAreReviewed => ReadinessIsReviewed
  BY <1>2 DEF ReadinessIsReviewed
<1> QED BY <1>1, <1>3, ClaimsAreReviewedNext, PTL DEF RuntimeSpec

-----------------------------------------------------------------------------
(* Support levels: where a claim on hardware comes from.  The contract of a row *)
(* that claims hardware has a ground: a review, or an update that respelled its *)
(* level.  An update under way that keeps a claim keeps one of a contract that  *)
(* had a ground when it read the row, and no ground is ever taken back.        *)

EvidenceScopes == {in.evidence.scope : in \in Edits} \cup Levels \cup {"none"}
Rows == [state : {"row"}, version : Nat \ {0}, level : Levels, builtin : BOOLEAN,
         enabled : BOOLEAN, evidence : [scope : EvidenceScopes, version : Nat]]

Grounded(kind, version) ==
  \/ \E r \in reviews : r.kind = kind /\ r.version = version
  \/ [kind |-> kind, version |-> version] \in respelled

ObjectOK(kind) ==
  Stored(objects[kind]) =>
    /\ objects[kind].builtin <=> kind \in seeds
    /\ ClaimsHardware(objects[kind]) => Grounded(kind, objects[kind].version)

UpdateOK(call) ==
  /\ call.kind \in Kinds \ seeds
  /\ call.in \in Edits
  /\ NormalizedIsValid(call.in)
  /\ ~Respells(call.kind, call.in) /\ Normalized(call.in).level \in HardwareLevels =>
       /\ call.in.evidence.version = call.in.version
       /\ Grounded(call.kind, call.in.version)

RequestOK(call) ==
  /\ call.op = "update" => UpdateOK(call)
  /\ call.op \in {"preview", "commit"} => DOMAIN call = {"op", "token", "level", "versions"}
  /\ call.op = "preview" => call.level \in HardwareLevels
  /\ call.op = "commit" => call.token.level \in HardwareLevels

ClaimsInv ==
  /\ objects \in [Kinds -> Rows \cup {Absent}]
  /\ \A kind \in Kinds : ObjectOK(kind)
  /\ requests = [c \in RuntimeCallers |-> requests[c]]
  /\ \A c \in RuntimeCallers : RequestOK(requests[c])
  /\ \A token \in previews : token.level \in HardwareLevels
  /\ release \in Nat \ {0}
  /\ boot \in 0..Len(SeedOrder)

\* The identity of the five kinds.
LEMMA ScansReads ==
  ASSUME NEW kind \in Kinds
  PROVE  Scans(kind) = Readable(kind)
BY DEF Scans, Kinds, ScanSourceAdapter, ScanFrontendAdapter, ScanDeviceProfile,
       ScanEmulatorDriver, ScanRetroArchCore

\* Of the levels stored, the two of hardware rank as hardware.
LEMMA HardwareRanks ==
  ASSUME NEW row, row.level \in Levels
  PROVE  ClaimsHardware(row) <=> row.level \in HardwareLevels
BY DEF ClaimsHardware, SupportLevelRank, Levels, HardwareLevels

\* A level stored is spelled as the program spells it.
LEMMA StoredSpelling ==
  ASSUME NEW in, in.level \in Levels
  PROVE  NormalizeSupportLevel(in.level) = in.level
BY DEF NormalizeSupportLevel, Levels, HardwareLevels

\* The input of an update, its level normalized: only the level differs.
LEMMA NormalizedInput ==
  ASSUME NEW in \in Edits
  PROVE  /\ Normalized(in).level = NormalizeSupportLevel(in.level)
         /\ Normalized(in).version = in.version
         /\ Normalized(in).evidence = in.evidence
BY RuntimeAssumption DEF Normalized, RuntimeAssumption

\* No ground is taken back.
LEMMA GroundsStay ==
  ASSUME reviews \subseteq reviews', respelled \subseteq respelled',
         NEW kind, NEW version, Grounded(kind, version)
  PROVE  Grounded(kind, version)'
BY DEF Grounded

\* What reads, and what the claims on rows do to them, leaves alone.
LEMMA ObjectsStay ==
  ASSUME ClaimsInv, UNCHANGED <<objects, seeds>>,
         reviews \subseteq reviews', respelled \subseteq respelled'
  PROVE  /\ objects' \in [Kinds -> Rows \cup {Absent}]
         /\ \A kind \in Kinds : ObjectOK(kind)'
<1>1. ASSUME NEW kind \in Kinds
      PROVE  ObjectOK(kind)'
  <2>1. ObjectOK(kind)
    BY DEF ClaimsInv
  <2> QED BY <2>1, GroundsStay DEF ObjectOK
<1> QED BY <1>1 DEF ClaimsInv

\* A request stays what it was while grounds are only added.
LEMMA RequestStays ==
  ASSUME NEW call, RequestOK(call), UNCHANGED seeds,
         reviews \subseteq reviews', respelled \subseteq respelled',
         NEW c, requests'[c] = call
  PROVE  RequestOK(requests[c])'
BY GroundsStay DEF RequestOK, UpdateOK

\* One caller at a time moves its request.
LEMMA RequestsStay ==
  ASSUME ClaimsInv, NEW c \in RuntimeCallers, UNCHANGED seeds,
         reviews \subseteq reviews', respelled \subseteq respelled',
         NEW next, requests' = [requests EXCEPT ![c] = next],
         requests'[c] = next => RequestOK(requests[c])'
  PROVE  /\ requests' = [d \in RuntimeCallers |-> requests'[d]]
         /\ \A d \in RuntimeCallers : RequestOK(requests[d])'
<1>1. requests = [d \in RuntimeCallers |-> requests[d]]
  BY DEF ClaimsInv
<1>2. requests' = [d \in RuntimeCallers |-> requests'[d]]
  BY <1>1
<1>3. ASSUME NEW d \in RuntimeCallers
      PROVE  RequestOK(requests[d])'
  <2>1. CASE d = c
    BY <1>1, <2>1
  <2>2. CASE d # c
    <3>1. requests'[d] = requests[d] /\ RequestOK(requests[d])
      BY <1>1, <2>2 DEF ClaimsInv
    <3> QED BY <3>1, RequestStays
  <2> QED BY <2>1, <2>2
<1> QED BY <1>2, <1>3

\* A request that has ended, or that deletes, promises nothing.
LEMMA PlainRequest ==
  ASSUME NEW call, call.op \notin {"update", "preview", "commit"}
  PROVE  RequestOK(call)
BY DEF RequestOK

\* A read that accepts an update accepts a claim only on a contract with a ground.
LEMMA UpdateAccepted ==
  ASSUME ClaimsInv, NEW c \in RuntimeCallers, NEW kind \in Kinds, NEW in \in Edits,
         NEW accepted, ReadForUpdate(c, kind, in, accepted), NormalizedIsValid(in),
         ~Respells(kind, in) => KeepsClaim(objects[kind], Normalized(in))
  PROVE  ClaimsInv'
<1> DEFINE call == [op |-> "update", kind |-> kind, in |-> in]
<1>1. /\ UNCHANGED <<seeds, release, boot, objects, claims, previews, reviews, respelled>>
      /\ requests' = [requests EXCEPT ![c] = call]
  BY DEF ReadForUpdate
<1>2. Stored(objects[kind]) /\ ~objects[kind].builtin
  BY ScansReads DEF ReadForUpdate, Readable
<1>3. ObjectOK(kind)
  BY DEF ClaimsInv
<1>4. ASSUME ~Respells(kind, in), Normalized(in).level \in HardwareLevels
      PROVE  in.evidence.version = in.version /\ Grounded(kind, in.version)
  <2>1. ClaimsHardware(Normalized(in))
    BY <1>4, HardwareRanks DEF NormalizedIsValid
  <2>2. /\ ClaimsHardware(objects[kind])
        /\ Normalized(in).version = objects[kind].version
        /\ ValidateSupportEvidenceBinding(Normalized(in).level, Normalized(in).evidence,
                                          Normalized(in).version)
    BY <1>4, <2>1 DEF KeepsClaim
  <2> QED BY <1>2, <1>3, <1>4, <2>2, NormalizedInput DEF ValidateSupportEvidenceBinding, ObjectOK
<1>5. UpdateOK(call)
  BY <1>2, <1>3, <1>4 DEF UpdateOK, ObjectOK
<1>6. RequestOK(call)
  BY <1>5 DEF RequestOK
<1>7. requests'[c] = call => RequestOK(requests[c])'
  BY <1>1, <1>6, RequestStays
<1> HIDE DEF call
<1> QED BY <1>1, <1>7, ObjectsStay, RequestsStay DEF ClaimsInv

\* A level of another spelling is the one way past the look at the claim.
LEMMA SpelledClaim ==
  ASSUME NEW kind \in Kinds \ {"source_adapter"}, NEW in \in Edits,
         KeepsClaim(objects[kind], in), ~Respells(kind, in)
  PROVE  KeepsClaim(objects[kind], Normalized(in))
BY NormalizedInput, StoredSpelling DEF Respells, KeepsClaim, ClaimsHardware,
   ValidateSupportEvidenceBinding

\* The five updates, up to their write.
LEMMA UpdateReads ==
  ASSUME ClaimsInv, NEW c \in RuntimeCallers, NEW in \in Edits,
         \/ UpdateSourceAdapter(c, in) \/ UpdateFrontendAdapter(c, in)
         \/ UpdateDeviceProfileDefinition(c, in) \/ UpdateEmulatorDriver(c, in)
         \/ UpdateRetroArchCore(c, in)
  PROVE  ClaimsInv'
<1>1. CASE UpdateSourceAdapter(c, in)
  <2> DEFINE kind == "source_adapter"
  <2>1. kind \in Kinds
    BY DEF Kinds
  <2>2. PICK accepted : /\ ReadForUpdate(c, kind, in, accepted)
                        /\ NormalizedIsValid(in) /\ KeepsClaim(objects[kind], Normalized(in))
    BY <1>1 DEF UpdateSourceAdapter, NormalizeSourceAdapter, ReadForUpdate
  <2> QED BY <2>1, <2>2, UpdateAccepted
<1>2. ASSUME NEW kind \in Kinds \ {"source_adapter"},
             ReadForUpdate(c, kind, in, KeepsClaim(objects[kind], in) /\ NormalizedIsValid(in))
      PROVE  ClaimsInv'
  <2> DEFINE accepted == KeepsClaim(objects[kind], in) /\ NormalizedIsValid(in)
  <2>1. accepted
    BY <1>2 DEF ReadForUpdate
  <2> QED BY <1>2, <2>1, SpelledClaim, UpdateAccepted
<1>3. CASE UpdateFrontendAdapter(c, in)
  BY <1>2, <1>3 DEF UpdateFrontendAdapter, NormalizeFrontendAdapter, Kinds
<1>4. CASE UpdateDeviceProfileDefinition(c, in)
  BY <1>2, <1>4 DEF UpdateDeviceProfileDefinition, NormalizeDeviceProfile, Kinds
<1>5. CASE UpdateEmulatorDriver(c, in)
  BY <1>2, <1>5 DEF UpdateEmulatorDriver, NormalizeEmulatorDriver, Kinds
<1>6. CASE UpdateRetroArchCore(c, in)
  BY <1>2, <1>6 DEF UpdateRetroArchCore, NormalizeRetroArchCore, Kinds
<1> QED BY <1>1, <1>3, <1>4, <1>5, <1>6

\* The row an administrator's input becomes.
LEMMA RowFits ==
  ASSUME NEW in \in Edits, NormalizedIsValid(in), NEW row, row = Row(in, FALSE)
  PROVE  /\ row \in Rows /\ Stored(row)
         /\ row.version = in.version /\ ~row.builtin
         /\ row.evidence = in.evidence /\ row.level = Normalized(in).level
         /\ ClaimsHardware(row) <=> Normalized(in).level \in HardwareLevels
<1>1. /\ row \in Rows /\ Stored(row)
      /\ row.version = in.version /\ row.evidence = in.evidence
      /\ row.level = Normalized(in).level
  BY RuntimeAssumption, NormalizedInput
     DEF RuntimeAssumption, Row, Rows, EvidenceScopes, NormalizedIsValid, Stored
<1>2. ~row.builtin
  BY DEF Row
<1>3. row.level \in Levels
  BY <1>1 DEF NormalizedIsValid
<1> QED BY <1>1, <1>2, <1>3, HardwareRanks

\* One object takes another row, or goes.
LEMMA ObjectReplaced ==
  ASSUME ClaimsInv, NEW kind \in Kinds, UNCHANGED seeds,
         reviews \subseteq reviews', respelled \subseteq respelled',
         NEW row \in Rows \cup {Absent}, objects' = [objects EXCEPT ![kind] = row],
         objects'[kind] = row => ObjectOK(kind)'
  PROVE  /\ objects' \in [Kinds -> Rows \cup {Absent}]
         /\ \A k \in Kinds : ObjectOK(k)'
<1>1. ASSUME NEW k \in Kinds
      PROVE  ObjectOK(k)'
  <2>1. CASE k = kind
    BY <2>1 DEF ClaimsInv
  <2>2. CASE k # kind
    <3>1. ObjectOK(k) /\ objects'[k] = objects[k]
      BY <2>2 DEF ClaimsInv
    <3> QED BY <3>1, GroundsStay DEF ObjectOK
  <2> QED BY <2>1, <2>2
<1> QED BY <1>1 DEF ClaimsInv

\* The requests outlast a step that moves none of them.
LEMMA RequestsRest ==
  ASSUME ClaimsInv, UNCHANGED <<requests, seeds>>,
         reviews \subseteq reviews', respelled \subseteq respelled'
  PROVE  /\ requests' = [d \in RuntimeCallers |-> requests'[d]]
         /\ \A d \in RuntimeCallers : RequestOK(requests[d])'
<1>1. ASSUME NEW d \in RuntimeCallers
      PROVE  RequestOK(requests[d])'
  <2>1. RequestOK(requests[d])
    BY DEF ClaimsInv
  <2> QED BY <2>1, RequestStays
<1> QED BY <1>1 DEF ClaimsInv

LEMMA CreateKeeps ==
  ASSUME ClaimsInv, NEW kind \in Kinds, NEW in \in Edits,
         Create(kind, in, NormalizedIsValid(in))
  PROVE  ClaimsInv'
<1>1. PICK row : row = Row(in, FALSE)
  OBVIOUS
<1>2. /\ objects' = [objects EXCEPT ![kind] = row]
      /\ UNCHANGED <<seeds, release, boot, claims, previews, requests, reviews, respelled>>
      /\ kind \notin seeds /\ NormalizedIsValid(in)
      /\ Normalized(in).level \notin HardwareLevels
  BY <1>1 DEF Create
<1>3. row \in Rows /\ ~row.builtin /\ ~ClaimsHardware(row)
  BY <1>1, <1>2, RowFits
<1>4. objects'[kind] = row => ObjectOK(kind)'
  BY <1>2, <1>3 DEF ObjectOK
<1> QED BY <1>2, <1>3, <1>4, ObjectReplaced, RequestsRest DEF ClaimsInv

\* What a valid update writes claims a contract that has a ground once it is written.
LEMMA WriteIsGrounded ==
  ASSUME NEW call, UpdateOK(call), Normalized(call.in).level \in HardwareLevels,
         reviews \subseteq reviews', respelled \subseteq respelled',
         Respells(call.kind, call.in) =>
           [kind |-> call.kind, version |-> call.in.version] \in respelled'
  PROVE  Grounded(call.kind, call.in.version)'
<1>1. CASE Respells(call.kind, call.in)
  BY <1>1 DEF Grounded
<1>2. CASE ~Respells(call.kind, call.in)
  <2>1. Grounded(call.kind, call.in.version)
    BY <1>2 DEF UpdateOK
  <2> QED BY <2>1, GroundsStay
<1> QED BY <1>1, <1>2

LEMMA WriteUpdateKeeps ==
  ASSUME ClaimsInv, NEW c \in RuntimeCallers, WriteUpdate(c)
  PROVE  ClaimsInv'
<1>1. PICK call : call = requests[c]
  OBVIOUS
<1>2. /\ UNCHANGED <<seeds, release, boot, claims, previews, reviews>>
      /\ requests' = [requests EXCEPT ![c] = Quiet]
      /\ respelled \subseteq respelled'
  BY DEF WriteUpdate
<1>3. UpdateOK(call)
  BY <1>1 DEF WriteUpdate, ClaimsInv, RequestOK
<1>4. RequestOK(Quiet)
  BY PlainRequest DEF Quiet
<1>5. requests'[c] = Quiet => RequestOK(requests[c])'
  BY <1>2, <1>4, RequestStays
<1>6. /\ objects' \in [Kinds -> Rows \cup {Absent}]
      /\ \A k \in Kinds : ObjectOK(k)'
  <2>1. CASE ~Stored(objects[call.kind])
    BY <1>1, <1>2, <2>1, ObjectsStay DEF WriteUpdate
  <2>2. CASE Stored(objects[call.kind])
    <3>1. PICK row : row = Row(call.in, FALSE)
      OBVIOUS
    <3>2. /\ objects' = [objects EXCEPT ![call.kind] = row]
          /\ Respells(call.kind, call.in) =>
               [kind |-> call.kind, version |-> call.in.version] \in respelled'
      BY <1>1, <2>2, <3>1 DEF WriteUpdate
    <3>3. /\ row \in Rows /\ row.version = call.in.version /\ ~row.builtin
          /\ ClaimsHardware(row) <=> Normalized(call.in).level \in HardwareLevels
      BY <1>3, <3>1, RowFits DEF UpdateOK
    <3>4. ClaimsHardware(row) => Grounded(call.kind, call.in.version)'
      BY <1>2, <1>3, <3>2, <3>3, WriteIsGrounded
    <3>5. call.kind \in Kinds /\ call.kind \notin seeds'
      BY <1>2, <1>3 DEF UpdateOK
    <3>6. objects'[call.kind] = row => ObjectOK(call.kind)'
      BY <3>3, <3>4, <3>5 DEF ObjectOK
    <3> QED BY <1>2, <3>2, <3>3, <3>5, <3>6, ObjectReplaced
  <2> QED BY <2>1, <2>2
<1> QED BY <1>2, <1>5, <1>6, RequestsStay DEF ClaimsInv

LEMMA DeleteKeeps ==
  ASSUME ClaimsInv, NEW c \in RuntimeCallers, DeleteRuntimeObjectWithEvidence(c)
  PROVE  ClaimsInv'
<1> DEFINE kind == requests[c].kind
<1>1. /\ UNCHANGED <<seeds, release, boot, previews, reviews, respelled>>
      /\ requests' = [requests EXCEPT ![c] = Quiet]
      /\ objects' = [objects EXCEPT ![kind] = Absent]
  BY DEF DeleteRuntimeObjectWithEvidence
<1>2. RequestOK(Quiet) /\ ~Stored(Absent)
  BY PlainRequest DEF Quiet, Stored, Absent
<1>3. requests'[c] = Quiet => RequestOK(requests[c])'
  BY <1>1, <1>2, RequestStays
<1>4. /\ objects' \in [Kinds -> Rows \cup {Absent}]
      /\ \A k \in Kinds : ObjectOK(k)'
  <2>1. CASE kind \in Kinds
    BY <1>1, <1>2, <2>1, ObjectReplaced DEF ObjectOK
  <2>2. CASE kind \notin Kinds
    <3>1. objects' = objects
      BY <1>1, <2>2 DEF ClaimsInv
    <3> QED BY <1>1, <3>1, ObjectsStay
  <2> QED BY <2>1, <2>2
<1> HIDE DEF kind
<1> QED BY <1>1, <1>3, <1>4, RequestsStay DEF ClaimsInv

LEMMA SeedFits ==
  ASSUME release \in Nat \ {0}
  PROVE  /\ Seed \in Rows /\ Stored(Seed) /\ Seed.builtin
         /\ ~ClaimsHardware(Seed) /\ ValidateStoredSupportEvidence(Seed)
<1>1. Stored(Seed) /\ Seed.level = "package-tested"
  BY DEF Seed, Stored
<1>4. Seed \in Rows
  <2>1. "package-tested" \in Levels /\ 0 \in Nat
    BY DEF Levels
  <2>3. "none" \in EvidenceScopes
    BY DEF EvidenceScopes
  <2>2. [scope |-> "none", version |-> 0] \in [scope : EvidenceScopes, version : Nat]
    BY <2>1, <2>3
  <2> QED BY <2>1, <2>2 DEF Seed, Rows
<1>2. Seed.builtin
  BY DEF Seed
<1>3. Seed.level \in Levels /\ Seed.level \notin HardwareLevels
  BY <1>1 DEF Levels, HardwareLevels
<1> QED BY <1>1, <1>2, <1>3, <1>4, HardwareRanks DEF ValidateStoredSupportEvidence,
           ValidateSupportEvidence, ValidateSupportEvidenceBinding

\* A boot leaves the objects of administrators, and the seeds no older than its own.
LEMMA BootReconciles ==
  ASSUME ClaimsInv, EnsureRuntimeCatalog
  PROVE  \/ UNCHANGED objects
         \/ \E kind \in Kinds \cap seeds : objects' = [objects EXCEPT ![kind] = Seed]
<1> DEFINE kind == SeedOrder[boot + 1]
<1>1. kind \in Kinds
  BY DEF ClaimsInv, EnsureRuntimeCatalog, SeedOrder, Kinds
<1>2. \/ UNCHANGED objects
      \/ kind \in seeds /\ objects' = [objects EXCEPT ![kind] = Reconciled(objects[kind])]
  BY <1>1 DEF EnsureRuntimeCatalog, Kinds, ReconcileBuiltinSourceAdapter,
     ReconcileBuiltinFrontendAdapter, ReconcileBuiltinDeviceProfile,
     ReconcileBuiltinEmulatorDriver, ReconcileBuiltinRetroArchCore
<1> HIDE DEF kind
<1>3. objects = [k \in Kinds |-> objects[k]]
  BY DEF ClaimsInv
<1>4. Reconciled(objects[kind]) = objects[kind] \/ Reconciled(objects[kind]) = Seed
  BY DEF Reconciled
<1>5. objects = [objects EXCEPT ![kind] = objects[kind]]
  BY <1>1, <1>3
<1> QED BY <1>1, <1>2, <1>4, <1>5

LEMMA BootKeeps ==
  ASSUME ClaimsInv, EnsureRuntimeCatalog
  PROVE  ClaimsInv'
<1>1. /\ UNCHANGED <<seeds, release, claims, previews, requests, reviews, respelled>>
      /\ boot' \in 0..Len(SeedOrder)
  BY DEF EnsureRuntimeCatalog, ClaimsInv, SeedOrder
<1>2. /\ objects' \in [Kinds -> Rows \cup {Absent}]
      /\ \A k \in Kinds : ObjectOK(k)'
  <2>1. CASE UNCHANGED objects
    BY <1>1, <2>1, ObjectsStay
  <2>2. ASSUME NEW kind \in Kinds \cap seeds, objects' = [objects EXCEPT ![kind] = Seed]
        PROVE  /\ objects' \in [Kinds -> Rows \cup {Absent}]
               /\ \A k \in Kinds : ObjectOK(k)'
    <3>1. objects'[kind] = Seed => ObjectOK(kind)'
      BY <1>1, SeedFits DEF ObjectOK, ClaimsInv
    <3>2. Seed \in Rows \cup {Absent}
      BY SeedFits DEF ClaimsInv
    <3> QED BY <1>1, <2>2, <3>1, <3>2, ObjectReplaced
  <2> QED BY <2>1, <2>2, BootReconciles
<1> QED BY <1>1, <1>2, RequestsRest DEF ClaimsInv

LEMMA RestartKeeps ==
  ASSUME ClaimsInv, NEW v \in Releases, RestartCatalog(v)
  PROVE  ClaimsInv'
<1>1. /\ UNCHANGED <<seeds, objects, claims, previews, reviews, respelled>>
      /\ boot' = 0 /\ release' = v /\ requests' = [c \in RuntimeCallers |-> Quiet]
  BY DEF RestartCatalog
<1>2. release' \in Nat \ {0} /\ boot' \in 0..Len(SeedOrder)
  BY <1>1, RuntimeAssumption DEF RuntimeAssumption, SeedOrder
<1>3. ASSUME NEW d \in RuntimeCallers
      PROVE  RequestOK(requests[d])'
  <2>1. RequestOK(Quiet) /\ requests'[d] = Quiet
    BY <1>1, PlainRequest DEF Quiet
  <2> QED BY <1>1, <2>1, RequestStays
<1> QED BY <1>1, <1>2, <1>3, ObjectsStay DEF ClaimsInv

\* A request that only moves itself.
LEMMA RequestMoves ==
  ASSUME ClaimsInv, NEW c \in RuntimeCallers, NEW next, RequestOK(next),
         requests' = [requests EXCEPT ![c] = next],
         UNCHANGED <<seeds, release, boot, objects, reviews, respelled, previews>>
  PROVE  ClaimsInv'
<1>1. requests'[c] = next => RequestOK(requests[c])'
  BY RequestStays
<1> QED BY <1>1, ObjectsStay, RequestsStay DEF ClaimsInv

LEMMA DeleteReads ==
  ASSUME ClaimsInv, NEW c \in RuntimeCallers, NEW kind \in Kinds, ReadForDelete(c, kind)
  PROVE  ClaimsInv'
<1> DEFINE next == [op |-> "delete", kind |-> kind]
<1>1. RequestOK(next)
  BY PlainRequest
<1> QED BY <1>1, RequestMoves DEF ReadForDelete

LEMMA ReviewBuilds ==
  ASSUME ClaimsInv, NEW c \in RuntimeCallers, BuildHardwareAcceptancePreview(c)
  PROVE  ClaimsInv'
<1>1. PICK call : call = requests[c]
  OBVIOUS
<1>2. /\ RequestOK(call) /\ call.op \in {"preview", "commit"}
      /\ DOMAIN call = {"op", "token", "level", "versions"}
  BY <1>1 DEF BuildHardwareAcceptancePreview, ClaimsInv, RequestOK
<1>3. PICK versions : versions =
        Append(call.versions, objects[ReviewOrder[Len(call.versions) + 1]].version)
  OBVIOUS
<1>4. RequestOK([call EXCEPT !.versions = versions])
  BY <1>2 DEF RequestOK
<1>5. RequestOK(Quiet)
  BY PlainRequest DEF Quiet
<1>6. \/ requests' = [requests EXCEPT ![c] = Quiet]
      \/ requests' = [requests EXCEPT ![c] = [call EXCEPT !.versions = versions]]
  BY <1>1, <1>3 DEF BuildHardwareAcceptancePreview
<1>7. UNCHANGED <<seeds, release, boot, objects, reviews, respelled, previews>>
  BY DEF BuildHardwareAcceptancePreview
<1> QED BY <1>4, <1>5, <1>6, <1>7, RequestMoves

LEMMA ReviewStarts ==
  ASSUME ClaimsInv, NEW c \in RuntimeCallers, NEW report \in Reports,
         \/ PreviewHardwareAcceptance(c, report)
         \/ \E token \in previews : CommitHardwareAcceptance(c, token, report)
  PROVE  ClaimsInv'
<1>1. CASE PreviewHardwareAcceptance(c, report)
  <2> DEFINE next == [op |-> "preview", token |-> NoReviewToken,
                      level |-> ValidateAcceptanceReport(report), versions |-> <<>>]
  <2>1. ValidateAcceptanceReport(report) \in HardwareLevels
    BY <1>1 DEF PreviewHardwareAcceptance, ValidateAcceptanceReport, HardwareLevels
  <2>2. RequestOK(next)
    BY <2>1 DEF RequestOK
  <2> QED BY <1>1, <2>2, RequestMoves DEF PreviewHardwareAcceptance
<1>2. ASSUME NEW token \in previews, CommitHardwareAcceptance(c, token, report)
      PROVE  ClaimsInv'
  <2> DEFINE next == [op |-> "commit", token |-> token,
                      level |-> ValidateAcceptanceReport(report), versions |-> <<>>]
  <2>1. RequestOK(next)
    BY DEF RequestOK, ClaimsInv
  <2> QED BY <1>2, <2>1, RequestMoves DEF CommitHardwareAcceptance
<1> QED BY <1>1, <1>2

LEMMA ReviewIsSigned ==
  ASSUME ClaimsInv, NEW c \in RuntimeCallers, SignPreviewValue(c)
  PROVE  ClaimsInv'
<1>1. /\ UNCHANGED <<seeds, release, boot, objects, reviews, respelled>>
      /\ requests' = [requests EXCEPT ![c] = Quiet]
      /\ previews' = previews \cup {Snapshot(requests[c])}
  BY DEF SignPreviewValue
<1>2. Snapshot(requests[c]).level \in HardwareLevels
  BY DEF SignPreviewValue, Built, Snapshot, ClaimsInv, RequestOK
<1>3. \A token \in previews' : token.level \in HardwareLevels
  BY <1>1, <1>2 DEF ClaimsInv
<1>4. RequestOK(Quiet)
  BY PlainRequest DEF Quiet
<1>5. requests'[c] = Quiet => RequestOK(requests[c])'
  BY <1>1, <1>4, RequestStays
<1> QED BY <1>1, <1>3, <1>5, ObjectsStay, RequestsStay DEF ClaimsInv

\* What a review makes of a valid row.
LEMMA PromotedFits ==
  ASSUME NEW row \in Rows, NEW level \in HardwareLevels, ValidateStoredSupportEvidence(row)
  PROVE  /\ Promoted(row, level) \in Rows /\ Stored(Promoted(row, level))
         /\ Promoted(row, level).version = row.version
         /\ Promoted(row, level).builtin = row.builtin
         /\ ValidateStoredSupportEvidence(Promoted(row, level))
<1>1. level \in Levels /\ level \in EvidenceScopes
  BY DEF Levels, EvidenceScopes
<1>2. CASE SupportLevelRank(row.level) > SupportLevelRank(level)
  <2>1. Promoted(row, level) = [row EXCEPT !.evidence.version = row.version]
    BY <1>2 DEF Promoted, BindSupportEvidence, Rows
  <2> QED BY <2>1 DEF Rows, Stored, ValidateStoredSupportEvidence, ValidateSupportEvidence,
                      ValidateSupportEvidenceBinding
<1>3. CASE ~(SupportLevelRank(row.level) > SupportLevelRank(level))
  <2>1. Promoted(row, level) =
          [row EXCEPT !.level = level, !.evidence = [scope |-> level, version |-> row.version]]
    BY <1>3 DEF Promoted
  <2>2. [scope |-> level, version |-> row.version] \in [scope : EvidenceScopes, version : Nat]
    BY <1>1 DEF Rows
  <2>3. PICK new : new = Promoted(row, level)
    OBVIOUS
  <2>4. /\ new \in Rows /\ Stored(new) /\ new.version = row.version
        /\ new.builtin = row.builtin
        /\ new.level = level
        /\ new.evidence = [scope |-> level, version |-> row.version]
    BY <1>1, <2>1, <2>2, <2>3 DEF Rows, Stored
  <2>5. ValidateStoredSupportEvidence(new)
    BY <1>1, <2>4 DEF ValidateStoredSupportEvidence, ValidateSupportEvidence,
       ValidateSupportEvidenceBinding
  <2> QED BY <2>3, <2>4, <2>5
<1> QED BY <1>2, <1>3

\* A commit that is accepted promotes the rows the review read, each of them valid.
LEMMA ReviewPromotes ==
  ASSUME ClaimsInv, NEW c \in RuntimeCallers, ApplyReviewedHardwareEvidence(c)
  PROVE  \/ UNCHANGED <<objects, reviews>>
         \/ \E level \in HardwareLevels :
              /\ objects' = [k \in Kinds |-> IF k \in Reviewed THEN Promoted(objects[k], level)
                                             ELSE objects[k]]
              /\ reviews \subseteq reviews'
              /\ \A k \in Reviewed :
                   /\ Readable(k)
                   /\ [kind |-> k, version |-> objects[k].version, level |-> level] \in reviews'
<1> DEFINE call == requests[c]
           Made == {[kind |-> ReviewOrder[i], version |-> call.versions[i],
                     level |-> call.level] : i \in DOMAIN ReviewOrder}
<1>1. CASE UNCHANGED <<objects, reviews>>
  BY <1>1
<1>2. CASE /\ Snapshot(call) = call.token
           /\ \A i \in DOMAIN ReviewOrder : CurrentContract(ReviewOrder[i], call.versions[i])
           /\ objects' = [k \in Kinds |-> IF k \in Reviewed
                                          THEN Promoted(objects[k], call.level) ELSE objects[k]]
           /\ reviews' = reviews \cup Made
  <2>1. call.level \in HardwareLevels
    <3>1. call.token.level \in HardwareLevels
      BY DEF ApplyReviewedHardwareEvidence, Built, ClaimsInv, RequestOK
    <3> QED BY <1>2, <3>1 DEF Snapshot
  <2>2. ASSUME NEW k \in Reviewed
        PROVE  /\ Readable(k)
               /\ [kind |-> k, version |-> objects[k].version, level |-> call.level] \in reviews'
    <3>1. PICK i \in DOMAIN ReviewOrder : ReviewOrder[i] = k
      BY ReviewedKinds
    <3>2. k \in Kinds
      BY DEF Reviewed, ReviewOrder, Kinds
    <3>3. Readable(k) /\ call.versions[i] = objects[k].version
      BY <1>2, <3>1, <3>2, ScansReads DEF CurrentContract
    <3>4. [kind |-> ReviewOrder[i], version |-> call.versions[i], level |-> call.level] \in Made
      OBVIOUS
    <3> HIDE DEF Made
    <3> QED BY <1>2, <3>1, <3>3, <3>4
  <2> HIDE DEF call, Made
  <2> QED BY <1>2, <2>1, <2>2
<1> QED BY <1>1, <1>2 DEF ApplyReviewedHardwareEvidence

LEMMA ReviewKeeps ==
  ASSUME ClaimsInv, NEW c \in RuntimeCallers, ApplyReviewedHardwareEvidence(c)
  PROVE  ClaimsInv'
<1>1. /\ UNCHANGED <<seeds, release, boot, previews, respelled>>
      /\ requests' = [requests EXCEPT ![c] = Quiet]
      /\ reviews \subseteq reviews'
  BY DEF ApplyReviewedHardwareEvidence
<1>2. RequestOK(Quiet)
  BY PlainRequest DEF Quiet
<1>3. requests'[c] = Quiet => RequestOK(requests[c])'
  BY <1>1, <1>2, RequestStays
<1>4. ASSUME NEW level \in HardwareLevels,
             objects' = [k \in Kinds |-> IF k \in Reviewed THEN Promoted(objects[k], level)
                                         ELSE objects[k]],
             \A k \in Reviewed :
               /\ Readable(k)
               /\ [kind |-> k, version |-> objects[k].version, level |-> level] \in reviews'
      PROVE  /\ objects' \in [Kinds -> Rows \cup {Absent}]
             /\ \A k \in Kinds : ObjectOK(k)'
  <2>1. ASSUME NEW k \in Kinds
        PROVE  objects'[k] \in Rows \cup {Absent} /\ ObjectOK(k)'
    <3>1. objects[k] \in Rows \cup {Absent} /\ ObjectOK(k)
      BY DEF ClaimsInv
    <3>2. CASE k \notin Reviewed
      BY <1>1, <1>4, <3>1, <3>2, GroundsStay DEF ObjectOK
    <3>3. CASE k \in Reviewed
      <4>1. /\ objects'[k] = Promoted(objects[k], level)
            /\ Stored(objects[k]) /\ ValidateStoredSupportEvidence(objects[k])
            /\ [kind |-> k, version |-> objects[k].version, level |-> level] \in reviews'
        BY <1>4, <3>3 DEF Readable
      <4>2. objects[k] \in Rows
        BY <3>1, <4>1 DEF Stored, Absent
      <4>3. PICK row : row = Promoted(objects[k], level)
        OBVIOUS
      <4>4. /\ row \in Rows /\ row.version = objects[k].version
            /\ row.builtin = objects[k].builtin
        BY <4>1, <4>2, <4>3, PromotedFits
      <4>5. Grounded(k, row.version)'
        BY <4>1, <4>4 DEF Grounded
      <4>6. row.builtin <=> k \in seeds'
        BY <1>1, <3>1, <4>1, <4>4 DEF ObjectOK
      <4> QED BY <4>1, <4>3, <4>4, <4>5, <4>6 DEF ObjectOK
    <3> QED BY <3>2, <3>3
  <2> QED BY <1>4, <2>1
<1>5. /\ objects' \in [Kinds -> Rows \cup {Absent}]
      /\ \A k \in Kinds : ObjectOK(k)'
  BY <1>1, <1>4, ObjectsStay, ReviewPromotes
<1> QED BY <1>1, <1>3, <1>5, RequestsStay DEF ClaimsInv

\* The five creations, and the five deletions up to their transaction.
LEMMA Creations ==
  ASSUME NEW in \in Edits,
         \/ CreateSourceAdapter(in) \/ CreateFrontendAdapter(in)
         \/ CreateDeviceProfileDefinition(in) \/ CreateEmulatorDriver(in)
         \/ CreateRetroArchCore(in)
  PROVE  \E kind \in Kinds : Create(kind, in, NormalizedIsValid(in))
BY DEF CreateSourceAdapter, CreateFrontendAdapter, CreateDeviceProfileDefinition,
       CreateEmulatorDriver, CreateRetroArchCore, NormalizeSourceAdapter,
       NormalizeFrontendAdapter, NormalizeDeviceProfile, NormalizeEmulatorDriver,
       NormalizeRetroArchCore, Kinds

LEMMA Deletions ==
  ASSUME NEW c \in RuntimeCallers,
         \/ DeleteSourceAdapter(c) \/ DeleteFrontendAdapter(c)
         \/ DeleteDeviceProfileDefinition(c) \/ DeleteEmulatorDriver(c)
         \/ DeleteRetroArchCore(c)
  PROVE  \E kind \in Kinds : ReadForDelete(c, kind)
BY DEF DeleteSourceAdapter, DeleteFrontendAdapter, DeleteDeviceProfileDefinition,
       DeleteEmulatorDriver, DeleteRetroArchCore, Kinds

LEMMA ClaimsInvNext ==
  ClaimsInv /\ [RuntimeNext]_runtimeVars => ClaimsInv'
<1> SUFFICES ASSUME ClaimsInv, [RuntimeNext]_runtimeVars
             PROVE  ClaimsInv'
  OBVIOUS
<1>1. CASE AdapterRequest
  BY <1>1, Creations, Deletions, CreateKeeps, UpdateReads, DeleteReads DEF AdapterRequest
<1>2. CASE DefinitionRequests
  BY <1>2, Creations, Deletions, CreateKeeps, UpdateReads, DeleteReads DEF DefinitionRequests
<1>3. CASE StoreStep
  BY <1>3, WriteUpdateKeeps, DeleteKeeps DEF StoreStep
<1>4. CASE ReviewStep
  BY <1>4, ReviewStarts, ReviewBuilds, ReviewIsSigned, ReviewKeeps DEF ReviewStep
<1>5. CASE EnsureRuntimeCatalog
  BY <1>5, BootKeeps
<1>6. CASE \E v \in Releases : RestartCatalog(v)
  BY <1>6, RestartKeeps
<1>7. CASE UNCHANGED runtimeVars
  <2>1. UNCHANGED <<seeds, release, boot, objects, previews, requests, reviews, respelled>>
    BY <1>7 DEF runtimeVars
  <2> QED BY <2>1, ObjectsStay, RequestsRest DEF ClaimsInv
<1> QED BY <1>1, <1>2, <1>3, <1>4, <1>5, <1>6, <1>7 DEF RuntimeNext

LEMMA ClaimsInvariance == RuntimeSpec => []ClaimsInv
<1>1. RuntimeInit => ClaimsInv
  <2> SUFFICES ASSUME RuntimeInit PROVE ClaimsInv
    OBVIOUS
  <2>1. RequestOK(Quiet)
    BY PlainRequest DEF Quiet
  <2>2. \A kind \in Kinds : ObjectOK(kind)
    BY DEF RuntimeInit, ObjectOK, Stored, Absent
  <2> QED BY <2>1, <2>2 DEF RuntimeInit, ClaimsInv, SeedOrder
<1> QED BY <1>1, ClaimsInvNext, PTL DEF RuntimeSpec

\* Every row keeps its kind's shape, and is the release's exactly where the
\* release owns the kind, through boots, upgrades, edits and reviews.
THEOREM RuntimeIsWellTyped == RuntimeSpec => []RuntimeTypeOK
<1>1. ASSUME ClaimsInv
      PROVE  RuntimeTypeOK
  <2>1. ASSUME NEW k \in Kinds, Stored(objects[k])
        PROVE  /\ objects[k].level \in Levels
               /\ objects[k].version \in Nat \ {0}
               /\ objects[k].builtin = (k \in seeds)
    <3>1. objects[k] \in Rows /\ ObjectOK(k)
      BY <1>1, <2>1 DEF ClaimsInv, Stored, Absent
    <3>2. /\ objects[k].level \in Levels
          /\ objects[k].version \in Nat \ {0}
          /\ objects[k].builtin \in BOOLEAN
      BY <3>1 DEF Rows
    <3>3. objects[k].builtin <=> k \in seeds
      BY <2>1, <3>1 DEF ObjectOK
    <3>4. CASE k \in seeds
      <4>1. objects[k].builtin = TRUE /\ (k \in seeds) = TRUE
        BY <3>2, <3>3, <3>4
      <4> QED BY <3>2, <4>1
    <3>5. CASE k \notin seeds
      <4>1. objects[k].builtin = FALSE /\ (k \in seeds) = FALSE
        BY <3>2, <3>3, <3>5
      <4> QED BY <3>2, <4>1
    <3> QED BY <3>4, <3>5
  <2> QED BY <1>1, <2>1 DEF RuntimeTypeOK, ClaimsInv
<1>2. ClaimsInv => RuntimeTypeOK
  BY <1>1
<1> QED BY <1>2, ClaimsInvariance, PTL

-----------------------------------------------------------------------------
(* What a step may do to an object                                             *)

\* A row that a step may leave: valid, and its claim one that has a ground.
GroundedRow(kind) ==
  /\ ValidateStoredSupportEvidence(objects[kind]')
  /\ ClaimsHardware(objects[kind]') =>
       WasReviewed(kind, objects[kind])' \/ WasRespelled(kind, objects[kind]')

\* An update under way that respells the level of an object.
RespelledNow(kind) ==
  \E c \in RuntimeCallers : /\ requests[c].op = "update" /\ requests[c].kind = kind
                            /\ Respells(kind, requests[c].in)

ObjectStepOK(kind) ==
  Stored(objects[kind])' /\ objects'[kind] # objects[kind] =>
    GroundedRow(kind) \/ RespelledNow(kind)

LEMMA CreationStep ==
  ASSUME ClaimsInv, NEW in \in Edits, NEW made \in Kinds,
         Create(made, in, NormalizedIsValid(in)), NEW kind \in Kinds
  PROVE  ObjectStepOK(kind)
<1>1. PICK row : row = Row(in, FALSE)
  OBVIOUS
<1>2. /\ objects' = [objects EXCEPT ![made] = row]
      /\ NormalizedIsValid(in) /\ Normalized(in).level \notin HardwareLevels
  BY <1>1 DEF Create
<1>3. row.level \notin HardwareLevels /\ row.level \in Levels /\ ~ClaimsHardware(row)
  BY <1>1, <1>2, RowFits DEF NormalizedIsValid
<1>4. ValidateStoredSupportEvidence(row)
  BY <1>3 DEF ValidateStoredSupportEvidence, ValidateSupportEvidence,
     ValidateSupportEvidenceBinding
<1>5. objects'[kind] = row \/ objects'[kind] = objects[kind]
  BY <1>2 DEF ClaimsInv
<1> QED BY <1>3, <1>4, <1>5 DEF ObjectStepOK, GroundedRow

LEMMA UpdateStep ==
  ASSUME ClaimsInv, NEW c \in RuntimeCallers, WriteUpdate(c), NEW kind \in Kinds
  PROVE  ObjectStepOK(kind)
<1>1. PICK call : call = requests[c]
  OBVIOUS
<1>2. PICK row : row = Row(call.in, FALSE)
  OBVIOUS
<1>3. call.op = "update" /\ UpdateOK(call)
  BY <1>1 DEF WriteUpdate, ClaimsInv, RequestOK
<1>4. CASE Respells(call.kind, call.in)
  <2>1. kind # call.kind => objects'[kind] = objects[kind]
    BY <1>1 DEF WriteUpdate, ClaimsInv
  <2> QED BY <1>1, <1>3, <1>4, <2>1 DEF ObjectStepOK, RespelledNow
<1>5. CASE ~Respells(call.kind, call.in)
  <2>1. /\ row.version = call.in.version /\ row.evidence = call.in.evidence
        /\ row.level = Normalized(call.in).level
        /\ ClaimsHardware(row) <=> Normalized(call.in).level \in HardwareLevels
    BY <1>2, <1>3, RowFits DEF UpdateOK
  <2>2. row.level \in Levels /\ ValidateSupportEvidence(row.level, row.evidence)
    BY <1>3, <2>1 DEF UpdateOK, NormalizedIsValid
  <2>3. row.level \in HardwareLevels =>
          row.evidence.version = row.version /\ Grounded(call.kind, row.version)
    BY <1>3, <1>5, <2>1 DEF UpdateOK
  <2>4. ValidateStoredSupportEvidence(row)
    BY <2>2, <2>3 DEF ValidateStoredSupportEvidence, ValidateSupportEvidenceBinding
  <2>5. \/ objects'[kind] = objects[kind]
        \/ kind = call.kind /\ objects'[kind] = row
    <3>1. objects' = objects \/ objects' = [objects EXCEPT ![call.kind] = row]
      BY <1>1, <1>2 DEF WriteUpdate
    <3>2. objects \in [Kinds -> Rows \cup {Absent}]
      BY DEF ClaimsInv
    <3>3. CASE kind # call.kind
      BY <3>1, <3>2, <3>3
    <3>4. CASE kind = call.kind
      BY <3>1, <3>2, <3>4
    <3> QED BY <3>3, <3>4
  <2>6. UNCHANGED reviews
    BY DEF WriteUpdate
  <2>7. kind = call.kind /\ objects'[kind] = row => GroundedRow(kind)
    BY <2>1, <2>3, <2>4, <2>6 DEF GroundedRow, Grounded, WasReviewed, WasRespelled
  <2> QED BY <2>5, <2>7 DEF ObjectStepOK
<1> QED BY <1>4, <1>5

LEMMA DeletionStep ==
  ASSUME ClaimsInv, NEW c \in RuntimeCallers, DeleteRuntimeObjectWithEvidence(c),
         NEW kind \in Kinds
  PROVE  ObjectStepOK(kind)
<1>1. objects' = [objects EXCEPT ![requests[c].kind] = Absent] /\ ~Stored(Absent)
  BY DEF DeleteRuntimeObjectWithEvidence, Stored, Absent
<1>2. objects'[kind] = objects[kind] \/ objects'[kind] = Absent
  BY <1>1 DEF ClaimsInv
<1> QED BY <1>1, <1>2 DEF ObjectStepOK

LEMMA BootStep ==
  ASSUME ClaimsInv, EnsureRuntimeCatalog, NEW kind \in Kinds
  PROVE  ObjectStepOK(kind)
<1>1. objects'[kind] = objects[kind] \/ objects'[kind] = Seed
  BY BootReconciles DEF ClaimsInv
<1>2. ~ClaimsHardware(Seed) /\ ValidateStoredSupportEvidence(Seed)
  BY SeedFits DEF ClaimsInv
<1> QED BY <1>1, <1>2 DEF ObjectStepOK, GroundedRow

LEMMA CommitStep ==
  ASSUME ClaimsInv, NEW c \in RuntimeCallers, ApplyReviewedHardwareEvidence(c),
         NEW kind \in Kinds
  PROVE  ObjectStepOK(kind)
<1>1. CASE UNCHANGED objects
  BY <1>1 DEF ObjectStepOK
<1>2. ASSUME NEW level \in HardwareLevels,
             objects' = [k \in Kinds |-> IF k \in Reviewed THEN Promoted(objects[k], level)
                                         ELSE objects[k]],
             \A k \in Reviewed :
               /\ Readable(k)
               /\ [kind |-> k, version |-> objects[k].version, level |-> level] \in reviews'
      PROVE  ObjectStepOK(kind)
  <2>1. CASE kind \notin Reviewed
    BY <1>2, <2>1 DEF ObjectStepOK
  <2>2. CASE kind \in Reviewed
    <3>1. PICK row : row = Promoted(objects[kind], level)
      OBVIOUS
    <3>2. objects[kind] \in Rows /\ ValidateStoredSupportEvidence(objects[kind])
      <4>1. Stored(objects[kind]) /\ ValidateStoredSupportEvidence(objects[kind])
        BY <1>2, <2>2 DEF Readable
      <4>2. objects[kind] \in Rows \cup {Absent}
        BY DEF ClaimsInv
      <4> QED BY <4>1, <4>2 DEF Stored, Absent
    <3>3. row.version = objects[kind].version /\ ValidateStoredSupportEvidence(row)
      BY <3>1, <3>2, PromotedFits
    <3>4. objects'[kind] = row
      BY <1>2, <2>2, <3>1
    <3>5. [kind |-> kind, version |-> row.version, level |-> level] \in reviews'
      BY <1>2, <2>2, <3>3
    <3>6. WasReviewed(kind, objects[kind])'
      BY <3>4, <3>5 DEF WasReviewed
    <3> QED BY <3>3, <3>4, <3>6 DEF ObjectStepOK, GroundedRow
  <2> QED BY <2>1, <2>2
<1> QED BY <1>1, <1>2, ReviewPromotes

\* An object comes to claim hardware, or to be unreadable, by a review, or by an
\* update that spelled its level so that the check of the claim did not see it,
\* or keeps what one of these two once claimed of the same contract: no
\* interleaving of edits, deletions, reviews, boots and upgrades adds a way.
THEOREM ClaimsHaveGrounds == RuntimeSpec => ClaimsComeFromReviews
<1>1. ASSUME ClaimsInv, [RuntimeNext]_runtimeVars, NEW kind \in Kinds
      PROVE  ObjectStepOK(kind)
  <2>1. CASE UNCHANGED objects
    BY <2>1 DEF ObjectStepOK
  <2>2. CASE \E c \in RuntimeCallers : \/ WriteUpdate(c)
                                       \/ DeleteRuntimeObjectWithEvidence(c)
                                       \/ ApplyReviewedHardwareEvidence(c)
    BY <1>1, <2>2, UpdateStep, DeletionStep, CommitStep
  <2>3. CASE \E made \in Kinds, in \in Edits : Create(made, in, NormalizedIsValid(in))
    BY <1>1, <2>3, CreationStep
  <2>4. CASE EnsureRuntimeCatalog
    BY <1>1, <2>4, BootStep
  <2>5. CASE AdapterRequest \/ DefinitionRequests
    <3>1. \/ \E made \in Kinds, in \in Edits : Create(made, in, NormalizedIsValid(in))
          \/ UNCHANGED objects
      BY <2>5, Creations DEF AdapterRequest, DefinitionRequests, UpdateSourceAdapter,
         UpdateFrontendAdapter, UpdateDeviceProfileDefinition, UpdateEmulatorDriver,
         UpdateRetroArchCore, ReadForUpdate, DeleteSourceAdapter, DeleteFrontendAdapter,
         DeleteDeviceProfileDefinition, DeleteEmulatorDriver, DeleteRetroArchCore,
         ReadForDelete
    <3> QED BY <2>1, <2>3, <3>1
  <2>6. CASE ReviewStep \/ (\E v \in Releases : RestartCatalog(v)) \/ UNCHANGED runtimeVars
    BY <2>1, <2>2, <2>6 DEF ReviewStep, PreviewHardwareAcceptance, CommitHardwareAcceptance,
       BuildHardwareAcceptancePreview, SignPreviewValue, RestartCatalog, runtimeVars
  <2> QED BY <1>1, <2>2, <2>4, <2>5, <2>6 DEF RuntimeNext, StoreStep
<1>2. ClaimsInv /\ [RuntimeNext]_runtimeVars =>
        [\A kind \in Kinds :
           Stored(objects[kind])' /\ objects'[kind] # objects[kind] =>
             \/ /\ ValidateStoredSupportEvidence(objects[kind]')
                /\ ClaimsHardware(objects[kind]') =>
                     WasReviewed(kind, objects[kind])' \/ WasRespelled(kind, objects[kind]')
             \/ \E c \in RuntimeCallers :
                  /\ requests[c].op = "update" /\ requests[c].kind = kind
                  /\ Respells(kind, requests[c].in)]_runtimeVars
  BY <1>1 DEF ObjectStepOK, GroundedRow, RespelledNow
<1> QED BY <1>2, ClaimsInvariance, PTL DEF RuntimeSpec, ClaimsComeFromReviews

-----------------------------------------------------------------------------
(* Launch bindings: the inductive invariant                                    *)

HintFields == {"state", "edition", "trust", "driver", "core", "status", "stamp"}
HintOK(row) == row = [f \in HintFields |-> row[f]]
HintsOK == /\ hints = [h \in Hints |-> hints[h]]
           /\ \A h \in Hints : Kept(hints[h]) => HintOK(hints[h])

\* A batch that is about to be applied is one a preview was signed for.
TasksOK == /\ tasks = [r \in Reviewers |-> tasks[r]]
           /\ \A r \in Reviewers : tasks[r].op = "batch" => tasks[r].token \in signed
SignedOK == \A token \in signed : token.batch \in Batch

\* While there are no hints, what an import saw of the definitions it carries is
\* still so, but for those that were written since.
Unhinted == \A h \in Hints : ~Kept(hints[h])
ImportFits(r) ==
  tasks[r].op = "import" /\ Unhinted /\ Hints # {} =>
    \A d \in DOMAIN Carried \ touched[r] :
      Compatible(d) /\ (d \in tasks[r].existing <=> Kept(definitions[d]))
ImportsOK == /\ touched = [r \in Reviewers |-> touched[r]]
             /\ definitions = [d \in Definitions |-> definitions[d]]
             /\ \A r \in Reviewers : ImportFits(r)

LaunchInv == HintsOK /\ TasksOK /\ SignedOK /\ ImportsOK

-----------------------------------------------------------------------------
(* Hints keep their shape, whatever is suggested for them.                     *)

SuggestionsAreHints ==
  \A row, mentions : HintOK(row) =>
    LET next == SuggestUntrustedRuntimeHint(row, mentions) IN
    HintOK(next) /\ next.state = row.state

LEMMA SuggestedIsHint == SuggestionsAreHints
<1> SUFFICES ASSUME NEW row, NEW mentions, HintOK(row)
             PROVE  /\ HintOK(SuggestUntrustedRuntimeHint(row, mentions))
                    /\ SuggestUntrustedRuntimeHint(row, mentions).state = row.state
  BY DEF SuggestionsAreHints
<1>1. PICK cores : cores = {k \in mentions : Enabled(k)}
  OBVIOUS
<1>2. PICK core : core = IF row.core = Nothing /\ Cardinality(cores) = 1
                         THEN CHOOSE k \in cores : TRUE ELSE row.core
  OBVIOUS
<1>3. PICK drivers : drivers = {d \in LaunchDrivers : Enabled(d)}
  OBVIOUS
<1>4. PICK driver : driver = IF row.driver = Nothing /\ core # Nothing /\ Cardinality(drivers) = 1
                             THEN CHOOSE d \in drivers : TRUE ELSE row.driver
  OBVIOUS
<1>5. PICK next : next = IF row.trust # "untrusted" THEN row
                         ELSE [row EXCEPT !.core = core, !.driver = driver]
  OBVIOUS
<1>6. SuggestUntrustedRuntimeHint(row, mentions) = next
  BY <1>1, <1>2, <1>3, <1>4, <1>5 DEF SuggestUntrustedRuntimeHint, HintOK, HintFields
<1>7. HintOK(next) /\ next.state = row.state
  BY <1>5 DEF HintOK, HintFields
<1> QED BY <1>6, <1>7

LEMMA InsertedIsHint ==
  \A h \in Hints : LET row == InsertRuntimeImportHint(h)' IN HintOK(row) /\ Kept(row)
<1>1. SuggestionsAreHints'
  BY SuggestedIsHint, PTL
<1>2. ASSUME NEW h \in Hints PROVE LET row == InsertRuntimeImportHint(h)' IN HintOK(row) /\ Kept(row)
  <2>1. PICK row : row = [state |-> "row", edition |-> HintOf[h].edition, trust |-> HintOf[h].trust,
     driver |-> HintOf[h].driver, core |-> HintOf[h].core, status |-> "pending",
     stamp |-> edits']
    OBVIOUS
  <2>2. HintOK(row) /\ row.state = "row"
    BY <2>1 DEF HintOK, HintFields
  <2>3. PICK next : next = SuggestUntrustedRuntimeHint(row, HintOf[h].mentions)'
    OBVIOUS
  <2>4. HintOK(next) /\ next.state = "row"
    BY <1>1, <2>2, <2>3 DEF SuggestionsAreHints, HintOK
  <2>5. next = InsertRuntimeImportHint(h)'
    BY <2>1, <2>3 DEF InsertRuntimeImportHint
  <2> QED BY <2>4, <2>5 DEF Kept
<1> QED BY <1>2


-----------------------------------------------------------------------------
(* The steps                                                                  *)

\* Definitions and what is known of them stay; no hint goes.
LEMMA ImportsStay ==
  ASSUME LaunchInv, UNCHANGED <<definitions, touched>>,
         \A h \in Hints : Kept(hints[h]) => Kept(hints'[h]),
         \A r \in Reviewers : tasks'[r].op = "import" => tasks'[r] = tasks[r]
  PROVE  ImportsOK'
<1>1. Unhinted' => Unhinted
  BY DEF Unhinted
<1>2. ASSUME NEW r \in Reviewers PROVE ImportFits(r)'
  <2>1. ImportFits(r)
    BY DEF LaunchInv, ImportsOK
  <2> QED BY <1>1, <2>1 DEF ImportFits, Compatible
<1> QED BY <1>2 DEF LaunchInv, ImportsOK

LEMMA BindingsKeep ==
  ASSUME LaunchInv, UNCHANGED <<definitions, hints, signed, tasks, touched>>
  PROVE  LaunchInv'
<1>1. ImportsOK'
  BY ImportsStay
<1> QED BY <1>1 DEF LaunchInv, HintsOK, TasksOK, SignedOK

LEMMA DefinitionsKeep ==
  ASSUME LaunchInv, NEW d \in Definitions, NEW row,
         definitions' = [definitions EXCEPT ![d] = row],
         touched' = [r \in Reviewers |-> touched[r] \cup {d}],
         UNCHANGED <<hints, signed, tasks>>
  PROVE  LaunchInv'
<1>1. ASSUME NEW r \in Reviewers PROVE ImportFits(r)'
  <2> SUFFICES ASSUME tasks[r].op = "import", Unhinted, Hints # {},
                      NEW e \in DOMAIN Carried \ touched'[r]
               PROVE  Compatible(e)' /\ (e \in tasks[r].existing <=> Kept(definitions'[e]))
    BY DEF ImportFits, Unhinted
  <2>1. e \in DOMAIN Carried \ touched[r] /\ e # d
    OBVIOUS
  <2>2. Compatible(e) /\ (e \in tasks[r].existing <=> Kept(definitions[e]))
    BY <2>1 DEF LaunchInv, ImportsOK, ImportFits
  <2>3. definitions'[e] = definitions[e]
    BY <2>1 DEF LaunchInv, ImportsOK
  <2> QED BY <2>2, <2>3 DEF Compatible
<1> QED BY <1>1 DEF LaunchInv, HintsOK, TasksOK, SignedOK, ImportsOK

LEMMA RequestsKeep ==
  ASSUME LaunchInv, BindingRequest \/ DefinitionRequest
  PROVE  LaunchInv'
<1>1. CASE BindingRequest
  BY <1>1, BindingsKeep DEF BindingRequest, CreateCoreMapping, UpdateCoreMapping, DeleteCoreMapping,
     SetMapping, CreateLaunchBinding, UpdateLaunchBinding, DeleteLaunchBinding
<1>2. ASSUME NEW d \in Definitions, NEW in \in Rewrites, WriteDefinition(d, in) PROVE LaunchInv'
  <2>1. PICK row : row = [state |-> "row", content |-> in.content, enabled |-> in.enabled,
                          stamp |-> edits]
    OBVIOUS
  <2> QED BY <1>2, <2>1, DefinitionsKeep DEF WriteDefinition
<1>3. ASSUME NEW d \in Definitions, RemoveDefinition(d) PROVE LaunchInv'
  <2>1. PICK row : row = None
    OBVIOUS
  <2> QED BY <1>3, <2>1, DefinitionsKeep DEF RemoveDefinition
<1> QED BY <1>1, <1>2, <1>3 DEF DefinitionRequest

\* A pending hint is decided about.
LEMMA HintMoves ==
  ASSUME LaunchInv, NEW h \in Hints, PendingOnce(h), NEW status, NEW stamp,
         hints' = [hints EXCEPT ![h].status = status, ![h].stamp = stamp],
         UNCHANGED <<definitions, signed, tasks, touched>>
  PROVE  LaunchInv'
<1>1. PICK row : row = [hints[h] EXCEPT !.status = status, !.stamp = stamp]
  OBVIOUS
<1>2. HintOK(hints[h])
  BY DEF LaunchInv, HintsOK, PendingOnce
<1>3. HintOK(row) /\ row.state = hints[h].state
  BY <1>1, <1>2 DEF HintOK, HintFields
<1>4. hints' = [hints EXCEPT ![h] = row]
  BY <1>1, <1>2 DEF LaunchInv, HintsOK
<1>5. \A g \in Hints : Kept(hints[g]) => Kept(hints'[g])
  BY <1>3, <1>4 DEF LaunchInv, HintsOK, Kept
<1>6. HintsOK'
  BY <1>3, <1>4 DEF LaunchInv, HintsOK
<1>7. ImportsOK'
  BY <1>5, ImportsStay
<1> QED BY <1>6, <1>7 DEF LaunchInv, TasksOK, SignedOK

LEMMA HintsAreSuggested ==
  ASSUME LaunchInv, SuggestPendingRuntimeHints
  PROVE  LaunchInv'
<1>1. ASSUME NEW h \in Hints
      PROVE  /\ Kept(hints'[h]) <=> Kept(hints[h])
             /\ Kept(hints'[h]) => HintOK(hints'[h])
  <2>1. PICK suggested : suggested = SuggestUntrustedRuntimeHint(hints[h], HintOf[h].mentions)
    OBVIOUS
  <2>2. hints'[h] = IF /\ Kept(hints[h]) /\ hints[h].status = "pending"
                       /\ suggested # hints[h]
                    THEN [suggested EXCEPT !.stamp = edits] ELSE hints[h]
    BY <2>1 DEF SuggestPendingRuntimeHints
  <2>3. Kept(hints[h]) => HintOK(suggested) /\ suggested.state = hints[h].state
    BY <2>1, SuggestedIsHint DEF SuggestionsAreHints, LaunchInv, HintsOK
  <2>4. PICK next : next = [suggested EXCEPT !.stamp = edits]
    OBVIOUS
  <2>5. Kept(hints[h]) => HintOK(next) /\ next.state = hints[h].state
    BY <2>3, <2>4 DEF HintOK, HintFields
  <2> QED BY <2>2, <2>4, <2>5 DEF Kept, LaunchInv, HintsOK
<1>2. HintsOK'
  BY <1>1 DEF SuggestPendingRuntimeHints, HintsOK
<1>3. Resting.op = "resting"
  BY DEF Resting
<1>4. TasksOK' /\ SignedOK'
  BY <1>3 DEF SuggestPendingRuntimeHints, LaunchInv, TasksOK, SignedOK
<1>5. ImportsOK'
  BY <1>1, <1>3, ImportsStay DEF SuggestPendingRuntimeHints
<1> QED BY <1>2, <1>4, <1>5 DEF LaunchInv

LEMMA BatchesKeep ==
  ASSUME LaunchInv,
         \/ \E batch \in Batch : PreviewRuntimeImportHintBatch(batch)
         \/ \E r \in Reviewers : \/ \E token \in signed : CommitRuntimeImportHintBatch(r, token)
                                 \/ ApplyRuntimeImportHintBatchIfSnapshot(r)
  PROVE  LaunchInv'
<1>1. ASSUME NEW batch \in Batch, PreviewRuntimeImportHintBatch(batch) PROVE LaunchInv'
  <2>1. PICK token : token = ReviewRuntimeImportHintBatch(batch)
    OBVIOUS
  <2>2. signed' = signed \cup {token} /\ token.batch = batch
    BY <1>1, <2>1 DEF PreviewRuntimeImportHintBatch, ReviewRuntimeImportHintBatch
  <2>3. ImportsOK'
    BY <1>1, ImportsStay DEF PreviewRuntimeImportHintBatch
  <2> QED BY <1>1, <2>2, <2>3
      DEF PreviewRuntimeImportHintBatch, LaunchInv, HintsOK, TasksOK, SignedOK
<1>2. ASSUME NEW r \in Reviewers, NEW token \in signed, CommitRuntimeImportHintBatch(r, token)
      PROVE  LaunchInv'
  <2>1. PICK task : task = [op |-> "batch", token |-> token]
    OBVIOUS
  <2>2. task.op = "batch" /\ task.token = token /\ tasks' = [tasks EXCEPT ![r] = task]
        /\ UNCHANGED <<definitions, hints, signed, touched>>
    BY ZenonT(40), <1>2, <2>1 DEF CommitRuntimeImportHintBatch
  <2>3. TasksOK'
    BY <2>2 DEF LaunchInv, TasksOK
  <2>4. \A q \in Reviewers : tasks'[q].op = "import" => tasks'[q] = tasks[q]
    BY <2>2 DEF LaunchInv, TasksOK
  <2>5. ImportsOK'
    BY <2>2, <2>4, ImportsStay
  <2> QED BY <2>2, <2>3, <2>5 DEF LaunchInv, HintsOK, SignedOK
<1>3. ASSUME NEW r \in Reviewers, ApplyRuntimeImportHintBatchIfSnapshot(r) PROVE LaunchInv'
  <2>1. Resting.op = "resting" /\ tasks' = [tasks EXCEPT ![r] = Resting]
        /\ UNCHANGED <<definitions, signed, touched>>
    BY ZenonT(40), <1>3 DEF Resting, ApplyRuntimeImportHintBatchIfSnapshot
  <2>2. TasksOK' /\ SignedOK'
    BY <2>1 DEF LaunchInv, TasksOK, SignedOK
  <2>3. \A q \in Reviewers : tasks'[q].op = "import" => tasks'[q] = tasks[q]
    BY <2>1 DEF LaunchInv, TasksOK
  <2>4. PICK ids : ids = tasks[r].token.batch.ids
    OBVIOUS
  <2>5. \/ hints' = hints
        \/ /\ \A h \in ids : PendingOnce(h)
           /\ hints' = [h \in Hints |-> IF h \in ids
                          THEN [hints[h] EXCEPT !.status = "applied", !.stamp = edits]
                          ELSE hints[h]]
    BY ZenonT(40), <1>3, <2>4 DEF ApplyRuntimeImportHintBatchIfSnapshot, ReviewSucceeds
  <2>6. ASSUME NEW h \in Hints
        PROVE  /\ Kept(hints'[h]) <=> Kept(hints[h])
               /\ Kept(hints'[h]) => HintOK(hints'[h])
    <3>1. Kept(hints[h]) => HintOK(hints[h])
      BY DEF LaunchInv, HintsOK
    <3>2. CASE hints' = hints \/ h \notin ids
      BY <2>5, <3>1, <3>2
    <3>3. CASE h \in ids /\ hints' # hints
      <4>1. Kept(hints[h]) /\ HintOK(hints[h])
        BY <2>5, <3>1, <3>3 DEF PendingOnce
      <4>2. PICK next : next = [hints[h] EXCEPT !.status = "applied", !.stamp = edits]
        OBVIOUS
      <4>3. HintOK(next) /\ next.state = hints[h].state
        BY <4>1, <4>2 DEF HintOK, HintFields
      <4>4. hints'[h] = next
        BY <2>5, <3>3, <4>2
      <4> QED BY <4>1, <4>3, <4>4 DEF Kept
    <3> QED BY <3>2, <3>3
  <2>7. HintsOK'
    BY <2>5, <2>6 DEF LaunchInv, HintsOK
  <2>8. ImportsOK'
    BY <2>1, <2>3, <2>6, ImportsStay
  <2> QED BY <2>2, <2>7, <2>8 DEF LaunchInv
<1> QED BY <1>1, <1>2, <1>3

LEMMA ImportsKeep ==
  ASSUME RuntimeBindingsAssumption, LaunchInv, NEW r \in Reviewers,
         \/ ValidatePortableRuntimeCatalogImports(r)
         \/ ImportGamesAndCustomPlatformsAtomic(r)
  PROVE  LaunchInv'
<1>1. CASE ValidatePortableRuntimeCatalogImports(r)
  <2>1. PICK existing : existing = {d \in DOMAIN Carried : Kept(definitions[d])}
    OBVIOUS
  <2>2. PICK task : task = [op |-> "import", existing |-> existing]
    OBVIOUS
  <2>3. /\ task.op = "import" /\ task.existing = existing
        /\ tasks' = [tasks EXCEPT ![r] = task] /\ touched' = [touched EXCEPT ![r] = {}]
        /\ \A d \in DOMAIN Carried : Compatible(d)
        /\ UNCHANGED <<definitions, hints, signed>>
    BY <1>1, <2>1, <2>2 DEF ValidatePortableRuntimeCatalogImports
  <2>4. TasksOK' /\ HintsOK' /\ SignedOK'
    BY <2>3 DEF LaunchInv, HintsOK, TasksOK, SignedOK
  <2>5. ASSUME NEW q \in Reviewers PROVE ImportFits(q)'
    <3>1. CASE q = r
      <4>1. tasks'[q] = task /\ \A d \in DOMAIN Carried : Compatible(d)'
        BY <2>3, <3>1 DEF LaunchInv, TasksOK, Compatible
      <4> QED BY <2>1, <2>3, <4>1 DEF ImportFits
    <3>2. CASE q # r
      <4>1. tasks'[q] = tasks[q] /\ touched'[q] = touched[q] /\ ImportFits(q)
        BY <2>3, <3>2 DEF LaunchInv, TasksOK, ImportsOK
      <4> QED BY <2>3, <4>1 DEF ImportFits, Unhinted, Compatible
    <3> QED BY <3>1, <3>2
  <2> QED BY <2>3, <2>4, <2>5 DEF LaunchInv, ImportsOK
<1>2. CASE ImportGamesAndCustomPlatformsAtomic(r)
  <2>1. Resting.op = "resting" /\ tasks' = [tasks EXCEPT ![r] = Resting]
        /\ UNCHANGED <<signed, touched>>
    BY <1>2 DEF Resting, ImportGamesAndCustomPlatformsAtomic
  <2>2. TasksOK' /\ SignedOK'
    BY <2>1 DEF LaunchInv, TasksOK, SignedOK
  <2>3. CASE UNCHANGED <<definitions, hints>>
    <3>1. \A q \in Reviewers : tasks'[q].op = "import" => tasks'[q] = tasks[q]
      BY <2>1 DEF LaunchInv, TasksOK
    <3>2. ImportsOK'
      BY <2>1, <2>3, <3>1, ImportsStay
    <3> QED BY <2>2, <2>3, <3>2 DEF LaunchInv, HintsOK
  <2>4. CASE /\ definitions' = InsertPortableRuntimeCatalog(tasks[r].existing)
             /\ hints' = [h \in Hints |-> InsertRuntimeImportHint(h)']
    <3>1. HintsOK' /\ \A h \in Hints : Kept(hints'[h])
      BY <2>4, InsertedIsHint DEF HintsOK
    <3>2. \A q \in Reviewers : ImportFits(q)'
      BY <3>1 DEF ImportFits, Unhinted
    <3>3. definitions' = [d \in Definitions |-> definitions'[d]]
      BY <2>4 DEF InsertPortableRuntimeCatalog
    <3> QED BY <2>1, <2>2, <3>1, <3>2, <3>3 DEF LaunchInv, ImportsOK
  <2> QED BY <1>2, <2>3, <2>4 DEF ImportGamesAndCustomPlatformsAtomic
<1> QED BY <1>1, <1>2

LEMMA LaunchInitInv == LaunchInit => LaunchInv
<1>1. Resting.op = "resting" /\ None.state = "none"
  BY DEF Resting, None
<1> QED BY <1>1 DEF LaunchInit, LaunchInv, HintsOK, TasksOK, SignedOK, ImportsOK, ImportFits, Kept

LEMMA LaunchNextInv ==
  ASSUME LaunchInv, [LaunchNext]_launchVars
  PROVE  LaunchInv'
<1>1. ASSUME NEW h \in Hints, NEW p, NEW in, ApplyRuntimeImportHint(h, p, in) PROVE LaunchInv'
  BY <1>1, HintMoves DEF ApplyRuntimeImportHint
<1>2. ASSUME NEW h \in Hints, DismissRuntimeImportHint(h) PROVE LaunchInv'
  BY <1>2, HintMoves DEF DismissRuntimeImportHint
<1>3. CASE HintRequest
  BY <1>1, <1>2, <1>3, HintsAreSuggested, BatchesKeep, ImportsKeep, RuntimeBindingsAssumption
     DEF HintRequest
<1>4. CASE UNCHANGED launchVars
  BY <1>4, BindingsKeep DEF launchVars
<1> QED BY <1>3, <1>4, RequestsKeep DEF LaunchNext

-----------------------------------------------------------------------------
(* The theorems on launch bindings                                            *)

(* A batch applies all of its hints or none, and only while their rows, stamps *)
(* included, and the definitions they name are what a signed preview showed    *)
(* (ApplyRuntimeImportHintBatchIfSnapshot).                                     *)
THEOREM BatchesApplyWhatWasReviewed == LaunchSpec => BatchAppliesWhatWasReviewed
<1>1. ASSUME LaunchInv, [LaunchNext]_launchVars, NEW r \in Reviewers,
             tasks[r].op = "batch", tasks'[r] = Resting, bound' # bound
      PROVE  \E token \in signed :
               LET batch == token.batch IN
               /\ batch = tasks[r].token.batch
               /\ \A h \in batch.ids : hints'[h].status = "applied" /\ token.rows[h] = hints[h]
               /\ token.defs = {definitions[d] : d \in {batch.profile, batch.driver, batch.core}
                                                         \ {Nothing}}
  <2>0. Resting.op = "resting"
    BY DEF Resting
  <2>1. ApplyRuntimeImportHintBatchIfSnapshot(r)
    <3>1. ASSUME NEW q \in Reviewers, ApplyRuntimeImportHintBatchIfSnapshot(q) PROVE q = r
      BY <1>1, <2>0, <3>1 DEF ApplyRuntimeImportHintBatchIfSnapshot, LaunchInv, TasksOK
    <3>2. ~BindingRequest
      BY <1>1, <2>0 DEF BindingRequest, CreateCoreMapping, UpdateCoreMapping, DeleteCoreMapping,
         SetMapping, CreateLaunchBinding, UpdateLaunchBinding, DeleteLaunchBinding
    <3>3. ~DefinitionRequest
      BY <1>1 DEF DefinitionRequest, WriteDefinition, RemoveDefinition
    <3>4. bound' # bound /\ tasks' # tasks /\ HintRequest
      BY <1>1, <2>0, <3>2, <3>3 DEF LaunchNext, launchVars
    <3> QED BY <3>1, <3>4 DEF HintRequest, SuggestPendingRuntimeHints, ApplyRuntimeImportHint,
          DismissRuntimeImportHint, PreviewRuntimeImportHintBatch, CommitRuntimeImportHintBatch,
          ValidatePortableRuntimeCatalogImports, ImportGamesAndCustomPlatformsAtomic
  <2>2. PICK token : token = tasks[r].token
    OBVIOUS
  <2>3. token \in signed /\ token.batch \in Batch
    BY <1>1, <2>2 DEF LaunchInv, TasksOK, SignedOK
  <2>4. PICK batch : batch = token.batch
    OBVIOUS
  <2>5. /\ ReviewRuntimeImportHintBatch(batch) = token
        /\ \A h \in batch.ids : PendingOnce(h)
        /\ hints' = [h \in Hints |->
             IF h \in batch.ids THEN [hints[h] EXCEPT !.status = "applied", !.stamp = edits]
             ELSE hints[h]]
    BY <1>1, <2>1, <2>2, <2>4 DEF ApplyRuntimeImportHintBatchIfSnapshot, ReviewSucceeds
  <2>6. /\ token.rows = [h \in batch.ids |-> hints[h]]
        /\ token.defs = {definitions[d] : d \in {batch.profile, batch.driver, batch.core}
                                                  \ {Nothing}}
    BY <2>5 DEF ReviewRuntimeImportHintBatch
  <2>7. ASSUME NEW h \in batch.ids
        PROVE  hints'[h].status = "applied" /\ token.rows[h] = hints[h]
    <3>1. h \in Hints
      BY <2>3, <2>4 DEF Batch
    <3>2. HintOK(hints[h])
      BY <1>1, <2>5, <3>1 DEF LaunchInv, HintsOK, PendingOnce
    <3>3. PICK next : next = [hints[h] EXCEPT !.status = "applied", !.stamp = edits]
      OBVIOUS
    <3>4. next.status = "applied"
      BY <3>2, <3>3 DEF HintOK, HintFields
    <3>5. hints'[h] = next
      BY <2>5, <3>1, <3>3
    <3> QED BY <2>6, <3>4, <3>5
  <2> QED BY <2>2, <2>3, <2>4, <2>6, <2>7
<1>2. LaunchInv /\ [LaunchNext]_launchVars =>
        [\A r \in Reviewers :
           tasks[r].op = "batch" /\ tasks'[r] = Resting /\ bound' # bound =>
             \E token \in signed :
               LET batch == token.batch IN
               /\ batch = tasks[r].token.batch
               /\ \A h \in batch.ids : hints'[h].status = "applied" /\ token.rows[h] = hints[h]
               /\ token.defs = {definitions[d] : d \in {batch.profile, batch.driver, batch.core}
                                                         \ {Nothing}}]_launchVars
  BY <1>1
<1>3. LaunchInv /\ [LaunchNext]_launchVars => LaunchInv'
  BY LaunchNextInv
<1> QED BY <1>2, <1>3, LaunchInitInv, PTL DEF LaunchSpec, BatchAppliesWhatWasReviewed

(* A portable import that brings its hints leaves every definition it carried  *)
(* as it carried it, but for those somebody wrote or removed between the look  *)
(* of this import at the store and its transaction                             *)
(* (ValidatePortableRuntimeCatalogImports, ImportGamesAndCustomPlatformsAtomic).*)
THEOREM ImportsDivergeByEditOnly == LaunchSpec => ImportDivergesByEditOnly
<1>1. ASSUME LaunchInv, [LaunchNext]_launchVars, NEW r \in Reviewers, NEW d \in DOMAIN Carried,
             tasks[r].op = "import", tasks'[r] = Resting,
             \E h \in Hints : Kept(hints'[h]) /\ ~Kept(hints[h]),
             d \notin touched[r]
      PROVE  /\ Kept(definitions'[d]) /\ definitions'[d].enabled
             /\ definitions'[d].content = Carried[d]
  <2>0. Resting.op = "resting"
    BY DEF Resting
  <2>1. ImportGamesAndCustomPlatformsAtomic(r)
    <3>1. ASSUME NEW q \in Reviewers, ImportGamesAndCustomPlatformsAtomic(q) PROVE q = r
      BY <1>1, <2>0, <3>1 DEF ImportGamesAndCustomPlatformsAtomic, LaunchInv, TasksOK
    <3>2. tasks' # tasks /\ hints' # hints
      BY <1>1, <2>0
    <3>3. ~BindingRequest
      BY <3>2 DEF BindingRequest, CreateCoreMapping, UpdateCoreMapping, DeleteCoreMapping,
         SetMapping, CreateLaunchBinding, UpdateLaunchBinding, DeleteLaunchBinding
    <3>4. ~DefinitionRequest
      BY <3>2 DEF DefinitionRequest, WriteDefinition, RemoveDefinition
    <3>5. ~SuggestPendingRuntimeHints
      <4> SUFFICES ASSUME SuggestPendingRuntimeHints PROVE ~\E h \in Hints : Kept(hints'[h]) /\ ~Kept(hints[h])
        BY <1>1
      <4> QED BY DEF SuggestPendingRuntimeHints
    <3>6. ASSUME NEW q \in Reviewers, ApplyRuntimeImportHintBatchIfSnapshot(q) PROVE q = r
      BY <1>1, <2>0, <3>6 DEF ApplyRuntimeImportHintBatchIfSnapshot, LaunchInv, TasksOK
    <3>7. HintRequest
      BY <3>2, <3>3, <3>4, <1>1 DEF LaunchNext, launchVars
    <3> QED BY ZenonT(40), <1>1, <3>1, <3>2, <3>5, <3>6, <3>7 DEF HintRequest, ApplyRuntimeImportHint,
          DismissRuntimeImportHint, PreviewRuntimeImportHintBatch, CommitRuntimeImportHintBatch,
          ApplyRuntimeImportHintBatchIfSnapshot, ValidatePortableRuntimeCatalogImports
  <2>2. PICK existing : existing = tasks[r].existing
    OBVIOUS
  <2>3. /\ \A e \in DOMAIN Carried \ (existing \cup {Platform}) : ~Kept(definitions[e])
        /\ Unhinted /\ Hints # {}
        /\ definitions' = InsertPortableRuntimeCatalog(existing)
    BY <1>1, <2>1, <2>2 DEF ImportGamesAndCustomPlatformsAtomic, Unhinted
  <2>4. Compatible(d) /\ (d \in existing <=> Kept(definitions[d]))
    BY <1>1, <2>2, <2>3 DEF LaunchInv, ImportsOK, ImportFits
  <2>5. d \in Definitions
    BY RuntimeBindingsAssumption
  <2>6. CASE d \in existing
    <3>1. definitions'[d] = definitions[d]
      BY <2>3, <2>4, <2>5, <2>6 DEF InsertPortableRuntimeCatalog
    <3> QED BY <2>4, <2>6, <3>1 DEF Compatible
  <2>7. CASE d \notin existing
    <3>1. PICK row : row = [state |-> "row", content |-> Carried[d], enabled |-> TRUE, stamp |-> edits]
      OBVIOUS
    <3>2. definitions'[d] = row
      BY <2>3, <2>4, <2>5, <2>7, <3>1 DEF InsertPortableRuntimeCatalog
    <3> QED BY <3>1, <3>2 DEF Kept
  <2> QED BY <2>6, <2>7
<1>2. LaunchInv /\ [LaunchNext]_launchVars =>
        [\A r \in Reviewers, d \in DOMAIN Carried :
           /\ tasks[r].op = "import" /\ tasks'[r] = Resting
           /\ \E h \in Hints : Kept(hints'[h]) /\ ~Kept(hints[h])
           /\ d \notin touched[r]
           =>
             /\ Kept(definitions'[d]) /\ definitions'[d].enabled
             /\ definitions'[d].content = Carried[d]]_launchVars
  BY <1>1
<1>3. LaunchInv /\ [LaunchNext]_launchVars => LaunchInv'
  BY LaunchNextInv
<1> QED BY <1>2, <1>3, LaunchInitInv, PTL DEF LaunchSpec, ImportDivergesByEditOnly

-----------------------------------------------------------------------------
(* Save bindings: the inductive invariant                                      *)

\* A token of the device that would still be accepted.
Accepted(d, toks, now) == \E t \in toks : t.device = d /\ ~t.revoked /\ t.expires > now

\* The device is the machine a request takes it for, as long as there is a token
\* that could have asked for anything.
Carries(d, machine, devs, toks, now) ==
  /\ devs[d] # Unborn
  /\ Lives(devs[d]) /\ Accepted(d, toks, now) => machine = devs[d].machine

\* An update writes another machine only once no token is left, and a session
\* goes on with the machine it read.
CallFits(call, devs, toks, now) ==
  /\ call.op = "update" =>
       /\ devs[call.device] # Unborn
       /\ call.step \in {"profile", "write"} =>
            Carries(call.device, call.in.machine, devs, toks, now)
  /\ call.op = "session" /\ call.step \in {"bindings", "authorize"} =>
       /\ "read" \in DOMAIN call
       /\ Carries(call.token.device, call.read.machine, devs, toks, now)
  /\ call.op = "session" /\ call.step = "authorize" =>
       {"todo", "allowed"} \subseteq DOMAIN call

CallsFit == \A c \in Callers : CallFits(calls[c], devices, tokens, time)
HeartbeatsKept == /\ attestations = reported
                  /\ attestations = [d \in Devices |-> attestations[d]]
LockInv == PairingInv /\ CallsFit /\ HeartbeatsKept

-----------------------------------------------------------------------------
(* A device that can still be asked for stays the machine it is.               *)

MachineHolds(d) ==
  devices[d] # Unborn =>
    /\ devices'[d] # Unborn
    /\ Accepted(d, tokens', time') => Accepted(d, tokens, time)
    /\ Lives(devices'[d]) /\ Accepted(d, tokens', time') =>
         Lives(devices[d]) /\ devices'[d].machine = devices[d].machine
MachinesHold == \A d \in Devices : MachineHolds(d)

LEMMA CarriesOn ==
  ASSUME NEW d \in Devices, NEW machine, MachinesHold,
         Carries(d, machine, devices, tokens, time)
  PROVE  Carries(d, machine, devices', tokens', time')
BY DEF Carries, MachinesHold, MachineHolds

LEMMA CallFitsOn ==
  ASSUME NEW call, CallOK(call), MachinesHold, CallFits(call, devices, tokens, time)
  PROVE  CallFits(call, devices', tokens', time')
<1>1. ASSUME call.op = "update"
      PROVE  UpdateCall(call)
  BY <1>1 DEF CallOK, Idle, CodeCall, CreateCall, HeartbeatCall, ProfileCall,
              UnprofileCall, BindingCall
<1>2. ASSUME call.op = "session"
      PROVE  call.token.device \in Devices
  BY <1>2 DEF CallOK, Idle, CodeCall, CreateCall, UpdateCall, HeartbeatCall, ProfileCall,
              UnprofileCall, BindingCall, Token
<1>3. CASE call.op = "update"
  <2>1. call.device \in Devices /\ devices'[call.device] # Unborn
    BY <1>1, <1>3 DEF CallFits, MachinesHold, MachineHolds, UpdateCall
  <2> QED BY <1>3, <2>1, CarriesOn DEF CallFits
<1>4. CASE call.op = "session"
  BY <1>2, <1>4, CarriesOn DEF CallFits
<1>5. CASE call.op \notin {"update", "session"}
  BY <1>5 DEF CallFits
<1> QED BY <1>3, <1>4, <1>5

LEMMA CallsFitOn ==
  ASSUME CallsOK, CallsFit, MachinesHold, NEW c \in Callers, NEW call,
         calls' = [calls EXCEPT ![c] = call], CallFits(call, devices', tokens', time')
  PROVE  CallsFit'
<1> SUFFICES ASSUME NEW b \in Callers
             PROVE  CallFits(calls'[b], devices', tokens', time')
  BY DEF CallsFit
<1>1. CASE b = c
  BY <1>1 DEF CallsOK
<1>2. CASE b # c
  <2>1. calls'[b] = calls[b]
    BY <1>2 DEF CallsOK
  <2>2. CallOK(calls[b]) /\ CallFits(calls[b], devices, tokens, time)
    BY DEF CallsOK, CallsFit
  <2> QED BY <2>1, <2>2, CallFitsOn
<1> QED BY <1>1, <1>2

LEMMA SameCallsFit ==
  ASSUME CallsOK, CallsFit, MachinesHold, UNCHANGED calls
  PROVE  CallsFit'
<1> SUFFICES ASSUME NEW b \in Callers
             PROVE  CallFits(calls[b], devices', tokens', time')
  BY DEF CallsFit
<1>1. CallOK(calls[b]) /\ CallFits(calls[b], devices, tokens, time)
  BY DEF CallsOK, CallsFit
<1> QED BY <1>1, CallFitsOn

LEMMA EndsFit ==
  ASSUME CallsOK, CallsFit, MachinesHold, NEW c \in Callers, Ends(c)
  PROVE  CallsFit'
<1>1. CallFits(Idle, devices', tokens', time')
  BY DEF CallFits, Idle
<1> QED BY <1>1, CallsFitOn DEF Ends

LEMMA StartsFit ==
  ASSUME CallsOK, CallsFit, MachinesHold, NEW c \in Callers, NEW call, Starts(c, call),
         CallFits(call, devices', tokens', time')
  PROVE  CallsFit'
BY CallsFitOn DEF Starts

\* Only updates and sessions carry a machine from one step to the next.
LEMMA OthersFit ==
  ASSUME NEW call, call.op \notin {"update", "session"}
  PROVE  CallFits(call, devices', tokens', time')
BY DEF CallFits

LEMMA StepsFit ==
  ASSUME CallsOK, CallsFit, MachinesHold, NEW c \in Callers, NEW s, Steps(c, s),
         calls[c].op \notin {"idle", "update", "session"}
  PROVE  CallsFit'
<1> DEFINE call == [calls[c] EXCEPT !.step = s]
<1>1. CallOK(calls[c])
  BY DEF CallsOK
<1>2. call.op = calls[c].op
  BY <1>1 DEF CallOK, Idle, CodeCall, CreateCall, UpdateCall, HeartbeatCall, ProfileCall,
              UnprofileCall, BindingCall
<1>3. calls' = [calls EXCEPT ![c] = call]
  BY DEF Steps, CallsOK
<1> HIDE DEF call
<1> QED BY <1>2, <1>3, OthersFit, CallsFitOn

LEMMA QuietTablesHold ==
  ASSUME UNCHANGED <<devices, tokens, time>>
  PROVE  MachinesHold
BY DEF MachinesHold, MachineHolds

LEMMA RevocationHolds ==
  ASSUME PairingInv, NEW e \in Devices, RevokeDevice(e)
  PROVE  MachinesHold
<1> SUFFICES ASSUME NEW d \in Devices, devices[d] # Unborn
             PROVE  MachineHolds(d)
  BY DEF MachinesHold, MachineHolds
<1> USE DEF PairingInv, PairingTypeOK
<1>1. Accepted(d, tokens', time') => Accepted(d, tokens, time)
  <2> SUFFICES ASSUME NEW t \in tokens', t.device = d, ~t.revoked, t.expires > time'
               PROVE  Accepted(d, tokens, time)
    BY DEF Accepted
  <2>1. PICK u \in tokens : t = [u EXCEPT !.revoked = @ \/ u.device = e]
    BY DEF RevokeDevice
  <2>2. u \in Token
    OBVIOUS
  <2>3. u.device = d /\ ~u.revoked /\ u.expires = t.expires
    BY <2>1, <2>2 DEF Token
  <2> QED BY <2>3 DEF Accepted, RevokeDevice
<1>2. CASE d # e
  BY <1>1, <1>2 DEF MachineHolds, RevokeDevice
<1>3. CASE d = e
  <2>1. devices[e] \in Device
    BY DEF RevokeDevice, Lives, Unborn, Gone
  <2>2. /\ devices'[e].machine = devices[e].machine /\ devices'[e].state = "row"
        /\ devices[e].state = "row"
    BY <2>1 DEF RevokeDevice, Device
  <2>3. devices'[e] # Unborn
    BY <2>2 DEF Unborn
  <2> QED BY <1>1, <1>3, <2>2, <2>3 DEF MachineHolds, Lives
<1> QED BY <1>2, <1>3

LEMMA RedemptionHolds ==
  ASSUME PairingInv, NEW k \in Codes, NEW e \in Devices, NEW m \in Machines,
         NEW p \in Profiles \cup {NoProfile}, RedeemPairingCode(k, e, m, p)
  PROVE  MachinesHold
<1> SUFFICES ASSUME NEW d \in Devices, devices[d] # Unborn
             PROVE  MachineHolds(d)
  BY DEF MachinesHold, MachineHolds
<1>1. d # e /\ devices'[d] = devices[d] /\ time' = time
  BY DEF RedeemPairingCode, PairingInv, PairingTypeOK
<1>2. \A t \in tokens' \ tokens : t.device = e
  BY DEF RedeemPairingCode
<1> QED BY <1>1, <1>2 DEF MachineHolds, Accepted

LEMMA WriteHolds ==
  ASSUME LockInv, NEW c \in Callers, WriteDevice(c)
  PROVE  MachinesHold
<1> DEFINE call == calls[c]
           e == call.device
<1>1. UpdateCall(call) /\ CallFits(call, devices, tokens, time)
  BY DEF WriteDevice, At, LockInv, PairingInv, CallsFit, CallsOK, CallOK, Idle, CodeCall,
         CreateCall, HeartbeatCall, ProfileCall, UnprofileCall, BindingCall
<1>2. Carries(e, call.in.machine, devices, tokens, time)
  BY <1>1 DEF WriteDevice, At, CallFits
<1>3. UNCHANGED <<tokens, time>>
  BY DEF WriteDevice
<1> SUFFICES ASSUME NEW d \in Devices, devices[d] # Unborn
             PROVE  MachineHolds(d)
  BY DEF MachinesHold, MachineHolds
<1>4. CASE d # e \/ ~Lives(devices[e])
  <2>1. devices'[d] = devices[d]
    BY <1>4 DEF WriteDevice, LockInv, PairingInv, PairingTypeOK
  <2> QED BY <1>3, <2>1 DEF MachineHolds
<1>5. CASE d = e /\ Lives(devices[e])
  <2>1. devices[e] \in Device
    BY <1>5 DEF LockInv, PairingInv, PairingTypeOK, Lives, Unborn, Gone
  <2>2. devices'[e].state = "row" /\ devices'[e].machine = call.in.machine
    BY <1>1, <1>5, <2>1 DEF WriteDevice, LockInv, PairingInv, PairingTypeOK, Device, UpdateCall
  <2>3. devices'[e] # Unborn
    BY <2>2 DEF Unborn
  <2> QED BY <1>2, <1>3, <1>5, <2>2, <2>3 DEF MachineHolds, Carries
<1> QED BY <1>4, <1>5

LEMMA DeviceStepHolds ==
  ASSUME LockInv, DeviceStep
  PROVE  MachinesHold
<1>1. PairingInv /\ PairingTypeOK
  BY DEF LockInv, PairingInv
<1>2. ASSUME NEW e \in Devices, DeleteDevice(e)
      PROVE  MachinesHold
  <2>1. tokens' \subseteq tokens /\ UNCHANGED time
    BY <1>2 DEF DeleteDevice
  <2>2. \A d \in Devices : devices[d] # Unborn =>
          /\ devices'[d] # Unborn
          /\ Lives(devices'[d]) => devices'[d] = devices[d]
    BY <1>1, <1>2 DEF DeleteDevice, PairingTypeOK, Lives, Unborn, Gone
  <2> QED BY <2>1, <2>2 DEF MachinesHold, MachineHolds, Accepted
<1>3. ASSUME NEW c \in Callers, InsertDevice(c)
      PROVE  MachinesHold
  <2>1. \A d \in Devices : devices[d] # Unborn => devices'[d] = devices[d]
    BY <1>1, <1>3 DEF InsertDevice, PairingTypeOK
  <2>2. UNCHANGED <<tokens, time>>
    BY <1>3 DEF InsertDevice
  <2> QED BY <2>1, <2>2 DEF MachinesHold, MachineHolds
<1>4. ASSUME NEW c \in Callers,
             \/ \E p \in Profiles : CreatePairingCode(c, p)
             \/ \E k \in Codes : InsertPairingCode(c, k)
             \/ \E d \in Devices, in \in Inputs : CreateDevice(c, d, in) \/ UpdateDevice(c, d, in)
             \/ CountActiveTokens(c)
             \/ CheckDeviceProfile(c)
      PROVE  MachinesHold
  <2>1. UNCHANGED <<devices, tokens, time>>
    BY <1>4 DEF CreatePairingCode, InsertPairingCode, CreateDevice, UpdateDevice,
                CountActiveTokens, CheckDeviceProfile
  <2> QED BY <2>1, QuietTablesHold
<1> QED
  BY <1>1, <1>2, <1>3, <1>4, RevocationHolds, RedemptionHolds, WriteHolds DEF DeviceStep

LEMMA HeartbeatStepHolds ==
  ASSUME LockInv, HeartbeatStep
  PROVE  MachinesHold
<1>1. ASSUME NEW c \in Callers, RecordDeviceHeartbeat(c)
      PROVE  MachinesHold
  <2> DEFINE e == calls[c].device
  <2>1. UNCHANGED <<tokens, time>>
    BY <1>1 DEF RecordDeviceHeartbeat
  <2>2. ASSUME NEW d \in Devices, devices[d] # Unborn
        PROVE  /\ devices'[d] # Unborn
               /\ Lives(devices'[d]) =>
                    Lives(devices[d]) /\ devices'[d].machine = devices[d].machine
    <3>1. CASE d # e
      BY <1>1, <2>2, <3>1 DEF RecordDeviceHeartbeat, LockInv, PairingInv, PairingTypeOK
    <3>2. CASE d = e
      <4>1. devices[e] \in Device
        BY <1>1, <3>2 DEF RecordDeviceHeartbeat, Heard, LockInv, PairingInv, PairingTypeOK,
                          Lives, Unborn, Gone
      <4>2. devices'[e] = [devices[e] EXCEPT !.status = "active"]
        BY <1>1, <3>2 DEF RecordDeviceHeartbeat, LockInv, PairingInv, PairingTypeOK
      <4>3. devices'[e].state = "row" /\ devices'[e].machine = devices[e].machine
        BY <4>1, <4>2 DEF Device
      <4> QED BY <3>2, <4>1, <4>3 DEF Device, Lives, Unborn
    <3> QED BY <3>1, <3>2
  <2> QED BY <2>1, <2>2 DEF MachinesHold, MachineHolds
<1>2. ASSUME NEW c \in Callers,
             \/ \E t \in tokens : HeartbeatDevice(c, t)
             \/ ReadHeartbeatDevice(c) \/ RefuseHeartbeat(c)
      PROVE  MachinesHold
  <2>1. UNCHANGED <<devices, tokens, time>>
    BY <1>2 DEF HeartbeatDevice, ReadHeartbeatDevice, RefuseHeartbeat
  <2> QED BY <2>1, QuietTablesHold
<1> QED BY <1>1, <1>2 DEF HeartbeatStep

LEMMA TickHolds ==
  ASSUME PairingInv, Tick
  PROVE  MachinesHold
<1>1. ASSUME NEW d \in Devices, Accepted(d, tokens', time')
      PROVE  Accepted(d, tokens, time)
  <2>1. PICK t \in tokens : t.device = d /\ ~t.revoked /\ t.expires > time + 1
    BY <1>1 DEF Accepted, Tick
  <2>2. t.expires \in Nat /\ time \in Nat
    BY PairingAssumption DEF PairingInv, PairingTypeOK, Token
  <2>3. t.expires > time
    BY <2>1, <2>2
  <2> QED BY <2>1, <2>3 DEF Accepted
<1> QED BY <1>1 DEF MachinesHold, MachineHolds, Tick

-----------------------------------------------------------------------------
(* Every step keeps what requests carry true                                  *)

LEMMA ProfileStepFits ==
  ASSUME LockInv, ProfileStep
  PROVE  CallsFit'
<1>1. MachinesHold /\ CallsOK /\ CallsFit
  <2>1. UNCHANGED time
    BY DEF ProfileStep, CreateDeviceProfile, UpdateDeviceProfile, DeleteDeviceProfile,
           CountProfileDevices, CountProfileCodes, CountsReferences, WriteDeviceProfile,
           RemoveDeviceProfile
  <2> QED BY <2>1, ProfileStepIsQuiet, QuietTablesHold DEF LockInv, PairingInv
<1>2. ASSUME NEW p \in Profiles, NEW shape \in Shapes, CreateDeviceProfile(p, shape)
      PROVE  CallsFit'
  BY <1>1, <1>2, SameCallsFit DEF CreateDeviceProfile
<1>3. ASSUME NEW c \in Callers, NEW p \in Profiles, NEW shape \in Shapes,
             NEW enabled \in BOOLEAN, UpdateDeviceProfile(c, p, shape, enabled)
      PROVE  CallsFit'
  <2> DEFINE call == [op |-> "profile", profile |-> p, shape |-> shape, enabled |-> enabled,
                      step |-> IF shape = profiles[p].shape THEN "write" ELSE "devices",
                      references |-> 0]
  <2>1. call.op = "profile" /\ Starts(c, call)
    BY <1>3 DEF UpdateDeviceProfile
  <2> HIDE DEF call
  <2> QED BY <1>1, <2>1, OthersFit, StartsFit
<1>4. ASSUME NEW c \in Callers, NEW p \in Profiles, DeleteDeviceProfile(c, p)
      PROVE  CallsFit'
  <2> DEFINE call == [op |-> "unprofile", profile |-> p, step |-> "devices",
                      references |-> 0]
  <2>1. call.op = "unprofile" /\ Starts(c, call)
    BY <1>4 DEF DeleteDeviceProfile
  <2> HIDE DEF call
  <2> QED BY <1>1, <2>1, OthersFit, StartsFit
<1>5. ASSUME NEW c \in Callers, NEW step, NEW next, NEW n, CountsReferences(c, step, next, n)
      PROVE  CallsFit'
  <2> DEFINE call == [calls[c] EXCEPT !.step = next, !.references = @ + n]
  <2>1. ProfileCall(calls[c]) \/ UnprofileCall(calls[c])
    BY <1>1, <1>5 DEF CountsReferences, CallsOK, CallOK, Idle, CodeCall, CreateCall,
                      UpdateCall, HeartbeatCall, BindingCall
  <2>2. call.op \notin {"update", "session"}
    BY <2>1 DEF ProfileCall, UnprofileCall
  <2>3. calls' = [calls EXCEPT ![c] = call]
    BY <1>1, <1>5 DEF CountsReferences, CallsOK
  <2> HIDE DEF call
  <2> QED BY <1>1, <2>2, <2>3, OthersFit, CallsFitOn
<1>6. ASSUME NEW c \in Callers, WriteDeviceProfile(c) \/ RemoveDeviceProfile(c)
      PROVE  CallsFit'
  BY <1>1, <1>6, EndsFit DEF WriteDeviceProfile, RemoveDeviceProfile
<1> QED
  BY <1>2, <1>3, <1>4, <1>5, <1>6 DEF ProfileStep, CountProfileDevices, CountProfileCodes

LEMMA UpdateStartsFit ==
  ASSUME LockInv, NEW c \in Callers, NEW d \in Devices, NEW in \in Inputs,
         UpdateDevice(c, d, in)
  PROVE  CallsFit'
<1> DEFINE call == [op |-> "update", step |-> "profile", device |-> d, in |-> in,
                    read |-> devices[d]]
           began == IF IdentityChanged(call) THEN [call EXCEPT !.step = "tokens"] ELSE call
<1>1. Lives(devices[d]) /\ Starts(c, began) /\ UNCHANGED <<devices, tokens, time>>
  BY DEF UpdateDevice
<1>2. devices[d] # Unborn
  BY <1>1 DEF Lives, Unborn
<1>3. CallFits([call EXCEPT !.step = "tokens"], devices, tokens, time)
  BY <1>2 DEF CallFits
<1>4. ~IdentityChanged(call) => CallFits(call, devices, tokens, time)
  BY <1>2 DEF CallFits, Carries, IdentityChanged
<1>5. CallFits(began, devices', tokens', time')
  BY <1>1, <1>3, <1>4
<1> HIDE DEF began
<1> QED BY <1>1, <1>5, StartsFit, QuietTablesHold DEF LockInv, PairingInv

LEMMA UpdateStepsFit ==
  ASSUME LockInv, NEW c \in Callers, CountActiveTokens(c) \/ CheckDeviceProfile(c)
  PROVE  CallsFit'
<1> DEFINE call == calls[c]
           next == [call EXCEPT !.step = IF call.step = "tokens" THEN "profile" ELSE "write"]
<1>1. MachinesHold /\ CallsOK /\ CallsFit /\ UNCHANGED <<devices, tokens, time>>
  BY QuietTablesHold DEF LockInv, PairingInv, CountActiveTokens, CheckDeviceProfile
<1>2. UpdateCall(call) /\ CallFits(call, devices, tokens, time)
  BY <1>1 DEF CountActiveTokens, CheckDeviceProfile, At, CallsFit, CallsOK, CallOK, Idle,
              CodeCall, CreateCall, HeartbeatCall, ProfileCall, UnprofileCall, BindingCall
<1>3. Ends(c) \/ calls' = [calls EXCEPT ![c] = next]
  BY DEF CountActiveTokens, CheckDeviceProfile, At, Steps
<1>4. next.op = "update" /\ next.device = call.device /\ next.in = call.in
  BY <1>2 DEF UpdateCall
<1>5. ~Ends(c) => Carries(call.device, call.in.machine, devices, tokens, time)
  <2>1. CASE CountActiveTokens(c)
    <3>1. ~Ends(c) => ~Accepted(call.device, tokens, time)
      BY <2>1 DEF CountActiveTokens, Accepted, Usable
    <3> QED BY <1>2, <3>1 DEF Carries, CallFits, UpdateCall
  <2>2. CASE CheckDeviceProfile(c)
    BY <1>2, <2>2 DEF CheckDeviceProfile, At, CallFits
  <2> QED BY <2>1, <2>2
<1>6. ~Ends(c) => CallFits(next, devices', tokens', time')
  <2> HIDE DEF next
  <2> QED BY <1>1, <1>4, <1>5 DEF CallFits, Carries
<1> HIDE DEF next
<1> QED BY <1>1, <1>3, <1>6, EndsFit, CallsFitOn

LEMMA DeviceStepFits ==
  ASSUME LockInv, DeviceStep
  PROVE  CallsFit'
<1>1. MachinesHold /\ CallsOK /\ CallsFit
  BY DeviceStepHolds DEF LockInv, PairingInv
<1>2. ASSUME NEW d \in Devices, RevokeDevice(d) \/ DeleteDevice(d)
      PROVE  CallsFit'
  BY <1>1, <1>2, SameCallsFit DEF RevokeDevice, DeleteDevice
<1>3. ASSUME NEW k \in Codes, NEW d \in Devices, NEW m \in Machines,
             NEW p \in Profiles \cup {NoProfile}, RedeemPairingCode(k, d, m, p)
      PROVE  CallsFit'
  BY <1>1, <1>3, SameCallsFit DEF RedeemPairingCode
<1>4. ASSUME NEW c \in Callers, NEW p \in Profiles, CreatePairingCode(c, p)
      PROVE  CallsFit'
  <2> DEFINE call == [op |-> "code", step |-> "insert", profile |-> p]
  <2>1. call.op = "code" /\ Starts(c, call)
    BY <1>4 DEF CreatePairingCode
  <2> HIDE DEF call
  <2> QED BY <1>1, <2>1, OthersFit, StartsFit
<1>5. ASSUME NEW c \in Callers, NEW d \in Devices, NEW in \in Inputs, CreateDevice(c, d, in)
      PROVE  CallsFit'
  <2> DEFINE call == [op |-> "create", step |-> "insert", device |-> d, in |-> in]
  <2>1. call.op = "create" /\ Starts(c, call)
    BY <1>5 DEF CreateDevice
  <2> HIDE DEF call
  <2> QED BY <1>1, <2>1, OthersFit, StartsFit
<1>6. ASSUME NEW c \in Callers,
             (\E k \in Codes : InsertPairingCode(c, k)) \/ InsertDevice(c) \/ WriteDevice(c)
      PROVE  CallsFit'
  BY <1>1, <1>6, EndsFit DEF InsertPairingCode, InsertDevice, WriteDevice
<1> QED BY <1>2, <1>3, <1>4, <1>5, <1>6, UpdateStartsFit, UpdateStepsFit DEF DeviceStep

LEMMA HeartbeatStepFits ==
  ASSUME LockInv, HeartbeatStep
  PROVE  CallsFit'
<1>1. MachinesHold /\ CallsOK /\ CallsFit
  BY HeartbeatStepHolds DEF LockInv, PairingInv
<1>2. ASSUME NEW c \in Callers, NEW t \in tokens, HeartbeatDevice(c, t)
      PROVE  CallsFit'
  <2> DEFINE call == [op |-> "heartbeat", step |-> "read", device |-> t.device]
  <2>1. call.op = "heartbeat" /\ Starts(c, call)
    BY <1>2 DEF HeartbeatDevice
  <2> HIDE DEF call
  <2> QED BY <1>1, <2>1, OthersFit, StartsFit
<1>3. ASSUME NEW c \in Callers, ReadHeartbeatDevice(c)
      PROVE  CallsFit'
  BY <1>1, <1>3, StepsFit, EndsFit DEF ReadHeartbeatDevice, At
<1>4. ASSUME NEW c \in Callers, RecordDeviceHeartbeat(c) \/ RefuseHeartbeat(c)
      PROVE  CallsFit'
  BY <1>1, <1>4, EndsFit DEF RecordDeviceHeartbeat, RefuseHeartbeat
<1> QED BY <1>2, <1>3, <1>4 DEF HeartbeatStep

LEMMA PairingNextFits ==
  ASSUME LockInv, [PairingNext]_pairingVars
  PROVE  CallsFit'
<1>1. CASE Tick
  BY <1>1, TickHolds, SameCallsFit DEF Tick, LockInv, PairingInv
<1>2. CASE UNCHANGED pairingVars
  BY <1>2, QuietTablesHold, SameCallsFit DEF pairingVars, LockInv, PairingInv
<1> QED BY <1>1, <1>2, ProfileStepFits, DeviceStepFits, HeartbeatStepFits DEF PairingNext

-----------------------------------------------------------------------------
(* Requests for bindings and sessions                                         *)

\* They read: the pairing tables stay as they are, and so do the heartbeats.
BindingsRead == /\ UNCHANGED <<profiles, codes, devices, tokens, time, revocations>>
                /\ UNCHANGED <<attestations, reported>>

LEMMA ReadingKeepsInv ==
  ASSUME LockInv, BindingsRead, NEW c \in Callers, NEW call, CallOK(call),
         calls' = [calls EXCEPT ![c] = call], CallFits(call, devices, tokens, time)
  PROVE  LockInv'
<1>1. PairingInv /\ CallsFit /\ HeartbeatsKept /\ CallsOK /\ PairingTypeOK /\ CodesAndTokens
  BY DEF LockInv, PairingInv, CodesAndTokens
<1>2. CallsOK' /\ DOMAIN calls' = Callers
  BY <1>1, CallsStayOK
<1>3. CallsFit'
  BY <1>1, QuietTablesHold, CallsFitOn DEF BindingsRead
<1>4. CodesAndTokens'
  BY <1>1, QuietlyKeepsTokens DEF Quietly, BindingsRead
<1>5. PairingTypeOK'
  BY <1>1, <1>2 DEF PairingTypeOK, BindingsRead
<1> QED
  BY <1>1, <1>2, <1>3, <1>4, <1>5
     DEF LockInv, PairingInv, HeartbeatsKept, CodesAndTokens, BindingsRead

LEMMA ReadingEnds ==
  ASSUME LockInv, BindingsRead, NEW c \in Callers, Ends(c)
  PROVE  LockInv'
<1>1. CallOK(Idle) /\ CallFits(Idle, devices, tokens, time)
  BY DEF CallOK, CallFits, Idle
<1> QED BY <1>1, ReadingKeepsInv DEF Ends

LEMMA ReadingStays ==
  ASSUME LockInv, BindingsRead, UNCHANGED calls
  PROVE  LockInv'
<1>1. PairingInv'
  BY PairingStepKeepsInv DEF LockInv, BindingsRead, pairingVars
<1>2. CallsFit'
  BY PairingNextFits DEF BindingsRead, pairingVars
<1> QED BY <1>1, <1>2 DEF LockInv, HeartbeatsKept, BindingsRead

LEMMA BindingRequestsKeepInv ==
  ASSUME LockInv, BindingStep
  PROVE  LockInv'
<1>1. ASSUME NEW v \in Builds, Restart(v)
      PROVE  LockInv'
  <2>1. CallsOK' /\ DOMAIN calls' = Callers
    BY <1>1 DEF Restart, CallsOK, CallOK
  <2>2. CallsFit'
    BY <1>1 DEF Restart, CallsFit, CallFits, Idle
  <2>3. CodesAndTokens'
    BY <1>1, QuietlyKeepsTokens DEF Restart, Quietly, LockInv, PairingInv, CodesAndTokens
  <2> QED
    BY <1>1, <2>1, <2>2, <2>3
       DEF Restart, LockInv, PairingInv, PairingTypeOK, HeartbeatsKept, CodesAndTokens
<1>2. ASSUME \/ \E s \in SaveStreams, driver \in Drivers, grouped \in BOOLEAN :
                  CreateSaveStream(s, driver, grouped)
             \/ \E b \in Bindings : DeleteSaveBinding(b)
             \/ \E b \in Bindings, driver \in Drivers, grouped \in BOOLEAN,
                   in \in BindingInputs : CreateSaveSetup(b, driver, grouped, in)
      PROVE  LockInv'
  BY <1>2, ReadingStays
     DEF CreateSaveStream, DeleteSaveBinding, CreateSaveSetup, BindingsRead, pairingVars
<1>3. ASSUME NEW c \in Callers, NEW op \in {"bind", "rebind"}, NEW b, NEW in,
             ValidateRelations(c, op, b, in)
      PROVE  LockInv'
  <2> DEFINE call == [op |-> op, step |-> "profile", binding |-> b, in |-> in]
  <2>1. CallOK(call) /\ CallFits(call, devices, tokens, time)
    BY <1>3 DEF CallOK, BindingCall, CallFits
  <2>2. calls' = [calls EXCEPT ![c] = call] /\ BindingsRead
    BY <1>3 DEF ValidateRelations, Starts, BindingsRead, bindingVars
  <2> HIDE DEF call
  <2> QED BY <2>1, <2>2, ReadingKeepsInv
<1>4. ASSUME NEW c \in Callers, CheckBindingProfile(c)
      PROVE  LockInv'
  <2> DEFINE call == [calls[c] EXCEPT !.step = "write"]
  <2>1. BindingsRead
    BY <1>4 DEF CheckBindingProfile, BindingsRead, bindingVars
  <2>2. CASE Ends(c)
    BY <2>1, <2>2, ReadingEnds
  <2>3. CASE Steps(c, "write")
    <3>1. CallOK(calls[c]) /\ calls[c].op \in {"bind", "rebind"}
      BY <1>4 DEF CheckBindingProfile, LockInv, PairingInv, CallsOK
    <3>2. calls' = [calls EXCEPT ![c] = call]
      BY <2>3 DEF Steps, LockInv, PairingInv, CallsOK
    <3>3. CallOK(call)
      BY <3>1, NextStepOK
    <3>4. call.op = calls[c].op
      BY <3>1 DEF CallOK, Idle, CodeCall, CreateCall, UpdateCall, HeartbeatCall, ProfileCall,
                  UnprofileCall, BindingCall
    <3>5. CallFits(call, devices, tokens, time)
      <4> HIDE DEF call
      <4> QED BY <3>1, <3>4 DEF CallFits
    <3> HIDE DEF call
    <3> QED BY <2>1, <3>2, <3>3, <3>5, ReadingKeepsInv
  <2> QED BY <1>4, <2>2, <2>3 DEF CheckBindingProfile
<1>5. ASSUME NEW c \in Callers, WriteSaveBinding(c)
      PROVE  LockInv'
  BY <1>5, ReadingEnds DEF WriteSaveBinding, BindingsRead
<1> QED
  BY <1>1, <1>2, <1>3, <1>4, <1>5 DEF BindingStep, CreateSaveBinding, UpdateSaveBinding

LEMMA SessionIsCalled ==
  ASSUME LockInv, NEW c \in Callers, calls[c].op = "session"
  PROVE  /\ {"op", "step", "token"} \subseteq DOMAIN calls[c] /\ calls[c].token \in Token
         /\ CallFits(calls[c], devices, tokens, time)
BY DEF LockInv, PairingInv, CallsFit, CallsOK, CallOK, Idle, CodeCall, CreateCall, UpdateCall,
       HeartbeatCall, ProfileCall, UnprofileCall, BindingCall

LEMMA SessionKeepsInv ==
  ASSUME LockInv, SessionStep
  PROVE  LockInv'
<1>1. ASSUME NEW c \in Callers, NEW t \in tokens, RequestSession(c, t)
      PROVE  LockInv'
  <2> DEFINE call == [op |-> "session", step |-> "device", token |-> t]
  <2>1. CallOK(call) /\ CallFits(call, devices, tokens, time)
    BY DEF CallOK, BindingCall, CallFits, LockInv, PairingInv, PairingTypeOK
  <2>2. calls' = [calls EXCEPT ![c] = call] /\ BindingsRead
    BY <1>1 DEF RequestSession, Starts, BindingsRead, bindingVars
  <2> HIDE DEF call
  <2> QED BY <2>1, <2>2, ReadingKeepsInv
<1>2. ASSUME NEW c \in Callers, ReadSessionDevice(c)
      PROVE  LockInv'
  <2> DEFINE d == calls[c].token.device
             call == [op |-> "session", step |-> "bindings", token |-> calls[c].token,
                      read |-> devices[d]]
  <2>1. BindingsRead
    BY <1>2 DEF ReadSessionDevice, BindingsRead, bindingVars
  <2>2. CASE ~Heard(d)
    BY <1>2, <2>1, <2>2, ReadingEnds DEF ReadSessionDevice
  <2>3. CASE Heard(d)
    <3>1. calls[c].token \in Token
      BY <1>2, SessionIsCalled DEF ReadSessionDevice, At
    <3>2. CallOK(call)
      BY <3>1 DEF CallOK, BindingCall
    <3>3. CallFits(call, devices, tokens, time)
      BY <2>3 DEF CallFits, Carries, Heard, Lives, Unborn
    <3>4. calls' = [calls EXCEPT ![c] = call]
      BY <1>2, <2>3 DEF ReadSessionDevice
    <3> HIDE DEF call
    <3> QED BY <2>1, <3>2, <3>3, <3>4, ReadingKeepsInv
  <2> QED BY <2>2, <2>3
<1>3. ASSUME NEW c \in Callers, ListSaveBindings(c)
      PROVE  LockInv'
  <2>1. PICK todo : calls' = [calls EXCEPT ![c] =
          [op |-> "session", step |-> "authorize", token |-> calls[c].token,
           read |-> calls[c].read, todo |-> todo, allowed |-> {}]]
    BY <1>3 DEF ListSaveBindings
  <2> DEFINE call == [op |-> "session", step |-> "authorize", token |-> calls[c].token,
                      read |-> calls[c].read, todo |-> todo, allowed |-> {}]
  <2>2. /\ calls[c].token \in Token
        /\ Carries(calls[c].token.device, calls[c].read.machine, devices, tokens, time)
    BY <1>3, SessionIsCalled DEF ListSaveBindings, At, CallFits
  <2>3. CallOK(call) /\ CallFits(call, devices, tokens, time)
    BY <2>2 DEF CallOK, BindingCall, CallFits
  <2>4. BindingsRead /\ calls' = [calls EXCEPT ![c] = call]
    BY <1>3, <2>1 DEF ListSaveBindings, BindingsRead, bindingVars
  <2> HIDE DEF call
  <2> QED BY <2>3, <2>4, ReadingKeepsInv
<1>4. ASSUME NEW c \in Callers, AuthorizeBinding(c)
      PROVE  LockInv'
  <2>1. PICK todo, allowed : calls' = [calls EXCEPT ![c].todo = todo, ![c].allowed = allowed]
    BY <1>4 DEF AuthorizeBinding
  <2> DEFINE old == calls[c]
             call == [old EXCEPT !.todo = todo, !.allowed = allowed]
  <2>2. /\ {"op", "step", "token", "read", "todo", "allowed"} \subseteq DOMAIN old
        /\ old.op = "session" /\ old.step = "authorize" /\ old.token \in Token
        /\ Carries(old.token.device, old.read.machine, devices, tokens, time)
    BY <1>4, SessionIsCalled DEF AuthorizeBinding, At, CallFits
  <2>3. /\ DOMAIN call = DOMAIN old
        /\ call.op = old.op /\ call.step = old.step /\ call.token = old.token
        /\ call.read = old.read
    BY <2>2
  <2>4. BindingsRead /\ calls' = [calls EXCEPT ![c] = call]
    BY <1>4, <2>1 DEF AuthorizeBinding, BindingsRead, bindingVars, LockInv, PairingInv, CallsOK
  <2> HIDE DEF call
  <2>5. CallOK(call) /\ CallFits(call, devices, tokens, time)
    BY <2>2, <2>3 DEF CallOK, BindingCall, CallFits
  <2> QED BY <2>4, <2>5, ReadingKeepsInv
<1>5. ASSUME NEW c \in Callers, OpenSession(c)
      PROVE  LockInv'
  BY <1>5, ReadingEnds DEF OpenSession, BindingsRead, bindingVars
<1> QED BY <1>1, <1>2, <1>3, <1>4, <1>5 DEF SessionStep

\* A heartbeat's reports are stored whole, in the transaction that records it.
LEMMA AttestationKeepsInv ==
  ASSUME LockInv, AttestationStep
  PROVE  LockInv'
<1>1. ASSUME NEW c \in Callers, NEW reports \in DeviceReports, AttestedHeartbeat(c, reports)
      PROVE  LockInv'
  <2>1. HeartbeatStep
    BY <1>1 DEF AttestedHeartbeat, HeartbeatStep
  <2>2. PairingInv' /\ CallsFit'
    BY <2>1, PairingStepKeepsInv, HeartbeatStepFits DEF PairingNext, LockInv
  <2>3. HeartbeatsKept'
    BY <1>1 DEF AttestedHeartbeat, ReplaceAttestations, HeartbeatsKept, LockInv
  <2> QED BY <2>2, <2>3 DEF LockInv
<1>2. ASSUME NEW c \in Callers, NEW reports \in DeviceReports, RefuseAttestations(c, reports)
      PROVE  LockInv'
  BY <1>2, ReadingEnds DEF RefuseAttestations, BindingsRead, bindingVars
<1>3. ASSUME NEW c \in Callers, UNCHANGED bindingVars,
             \/ ReadHeartbeatDevice(c) \/ RefuseHeartbeat(c)
             \/ \E t \in tokens : HeartbeatDevice(c, t)
      PROVE  LockInv'
  <2>1. HeartbeatStep
    BY <1>3 DEF HeartbeatStep
  <2>2. PairingInv' /\ CallsFit'
    BY <2>1, PairingStepKeepsInv, HeartbeatStepFits DEF PairingNext, LockInv
  <2> QED BY <1>3, <2>2 DEF LockInv, HeartbeatsKept, bindingVars
<1> QED BY <1>1, <1>2, <1>3 DEF AttestationStep

LEMMA LockInvNext ==
  ASSUME LockInv, [BindingNext]_<<pairingVars, bindingVars>>
  PROVE  LockInv'
<1>1. ASSUME [PairingNext]_pairingVars, UNCHANGED bindingVars
      PROVE  LockInv'
  BY <1>1, PairingStepKeepsInv, PairingNextFits DEF LockInv, HeartbeatsKept, bindingVars
<1> QED
  BY <1>1, BindingRequestsKeepInv, SessionKeepsInv, AttestationKeepsInv
     DEF BindingNext, PairingNext

LEMMA LockInvariance == BindingSpec => []LockInv
<1>1. BindingInit => LockInv
  BY PairingStarts
     DEF BindingInit, PairingInit, LockInv, CallsFit, CallFits, Idle, HeartbeatsKept
<1>2. LockInv /\ [BindingNext]_<<pairingVars, bindingVars>> => LockInv'
  BY LockInvNext
<1> QED BY <1>1, <1>2, PTL DEF BindingSpec

-----------------------------------------------------------------------------
(* Only an authorization adds a stream to a session                            *)

\* A session that is being authorized goes on by its own steps alone.
SessionWaits(c) == At(c, "session", "authorize") => calls'[c] \in {calls[c], Idle}

LEMMA ServiceWaits ==
  ASSUME LockInv, NEW c \in Callers, ProfileStep \/ DeviceStep \/ HeartbeatStep
  PROVE  SessionWaits(c)
<1> USE DEF SessionWaits, At, Starts, Steps, Ends
<1>1. DOMAIN calls = Callers /\ calls = [e \in Callers |-> calls[e]] /\ Idle.op # "session"
  BY DEF LockInv, PairingInv, PairingTypeOK, CallsOK, Idle
<1>2. CASE ProfileStep
  BY ZenonT(40), <1>1, <1>2
     DEF ProfileStep, CreateDeviceProfile, UpdateDeviceProfile, DeleteDeviceProfile,
         CountProfileDevices, CountProfileCodes, CountsReferences, WriteDeviceProfile,
         RemoveDeviceProfile
<1>3. CASE DeviceStep
  BY ZenonT(40), <1>1, <1>3
     DEF DeviceStep, RevokeDevice, DeleteDevice, RedeemPairingCode, CreatePairingCode,
         InsertPairingCode, CreateDevice, UpdateDevice, InsertDevice, CountActiveTokens,
         CheckDeviceProfile, WriteDevice
<1>4. CASE HeartbeatStep
  BY <1>1, <1>4
     DEF HeartbeatStep, HeartbeatDevice, ReadHeartbeatDevice, RecordDeviceHeartbeat,
         RefuseHeartbeat
<1> QED BY <1>2, <1>3, <1>4

LEMMA RequestsWait ==
  ASSUME LockInv, NEW c \in Callers, BindingStep \/ AttestationStep
  PROVE  SessionWaits(c)
<1>1. DOMAIN calls = Callers /\ calls = [e \in Callers |-> calls[e]] /\ Idle.op # "session"
  BY DEF LockInv, PairingInv, PairingTypeOK, CallsOK, Idle
<1>2. CASE BindingStep
  BY <1>1, <1>2
     DEF SessionWaits, At, Starts, Steps, Ends, BindingStep, Restart, CreateSaveStream,
         DeleteSaveBinding, CreateSaveSetup, CreateSaveBinding, UpdateSaveBinding,
         ValidateRelations, CheckBindingProfile, WriteSaveBinding, pairingVars
<1>3. CASE AttestationStep
  <2>1. HeartbeatStep \/ \E e \in Callers, reports \in DeviceReports :
                            RefuseAttestations(e, reports)
    BY <1>3 DEF AttestationStep, AttestedHeartbeat, HeartbeatStep
  <2> QED BY <1>1, <2>1, ServiceWaits DEF SessionWaits, At, Ends, RefuseAttestations
<1> QED BY <1>2, <1>3

LEMMA OnlyAuthorizationAllows ==
  ASSUME LockInv, [BindingNext]_<<pairingVars, bindingVars>>, NEW c \in Callers,
         At(c, "session", "authorize"), At(c, "session", "authorize")',
         calls'[c].allowed # calls[c].allowed
  PROVE  AuthorizeBinding(c)
<1>1. DOMAIN calls = Callers /\ calls = [e \in Callers |-> calls[e]] /\ Idle.op # "session"
  BY DEF LockInv, PairingInv, PairingTypeOK, CallsOK, Idle
<1>2. ~SessionWaits(c)
  BY <1>1 DEF SessionWaits, At
<1>3. SessionStep
  BY <1>2, ServiceWaits, RequestsWait DEF BindingNext, Tick, SessionWaits, pairingVars
<1>4. PICK e \in Callers :
        \/ \E t \in tokens : RequestSession(e, t)
        \/ ReadSessionDevice(e)
        \/ ListSaveBindings(e)
        \/ AuthorizeBinding(e)
        \/ OpenSession(e)
  BY <1>3 DEF SessionStep
<1>5. e = c
  BY <1>1, <1>2, <1>4
     DEF SessionWaits, RequestSession, ReadSessionDevice, ListSaveBindings,
         AuthorizeBinding, OpenSession, Starts, Ends
<1>6. ~\E t \in tokens : RequestSession(c, t)
  BY <1>1 DEF At, RequestSession, Starts
<1>7. ~ReadSessionDevice(c) /\ ~ListSaveBindings(c)
  BY DEF At, ReadSessionDevice, ListSaveBindings
<1>8. ~OpenSession(c)
  BY <1>1 DEF At, OpenSession, Ends
<1> QED BY <1>4, <1>5, <1>6, <1>7, <1>8

-----------------------------------------------------------------------------
(* Save bindings: rows well formed, each a member of its stream                *)

\* A binding is of a stream that is there, and its driver is the stream's own
\* or the one the stream's compatibility group admits: what the triggers of
\* the bindings table look at when a row is written, kept for as long as the
\* row is there.
BindingsAreMembers ==
  \A b \in Bindings : Lives(bindings[b]) =>
    /\ Lives(saveStreams[bindings[b].stream])
    /\ ExactMember(bindings[b].stream, bindings[b])

Asks(call) == call.op \in {"bind", "rebind"}
AskFits(call) ==
  Asks(call) => /\ call.in \in BindingInputs /\ call.binding \in Bindings
                /\ Lives(saveStreams[call.in.stream])
AsksFit == \A c \in Callers : AskFits(calls[c])

BindingInv == BindingTypeOK /\ BindingsAreMembers /\ AsksFit

\* Only the steps of a request for a binding make or change one.
NoNewAsk == \A c \in Callers : Asks(calls'[c]) => calls'[c] = calls[c]

LEMMA CallsAreRecords ==
  ASSUME CallsOK
  PROVE  /\ DOMAIN calls = Callers /\ calls = [c \in Callers |-> calls[c]]
         /\ \A c \in Callers : {"op"} \subseteq DOMAIN calls[c]
         /\ ~Asks(Idle)
BY DEF CallsOK, CallOK, Idle, CodeCall, CreateCall, UpdateCall, HeartbeatCall, ProfileCall,
       UnprofileCall, BindingCall, Asks

LEMMA ServicesAskNothing ==
  ASSUME CallsOK, ProfileStep \/ DeviceStep \/ HeartbeatStep \/ SessionStep
  PROVE  NoNewAsk
<1> USE DEF NoNewAsk, Asks, At
<1>0. /\ DOMAIN calls = Callers /\ calls = [c \in Callers |-> calls[c]]
      /\ \A c \in Callers : "op" \in DOMAIN calls[c]
      /\ Idle.op \notin {"bind", "rebind"}
  BY CallsAreRecords
<1>1. ASSUME NEW c \in Callers, NEW call, calls' = [calls EXCEPT ![c] = call], ~Asks(call)
      PROVE  NoNewAsk
  BY <1>0, <1>1
<1>2. ASSUME NEW c \in Callers, ~Asks(calls[c]), \E step : Steps(c, step)
      PROVE  NoNewAsk
  <2>1. PICK step : calls' = [calls EXCEPT ![c] = [calls[c] EXCEPT !.step = step]]
    BY <1>0, <1>2 DEF Steps
  <2> QED BY <1>0, <1>1, <1>2, <2>1
<1>3. ASSUME NEW c \in Callers, Ends(c)
      PROVE  NoNewAsk
  BY <1>0, <1>1, <1>3 DEF Ends
<1>4. ASSUME UNCHANGED calls
      PROVE  NoNewAsk
  BY <1>4
<1>5. CASE ProfileStep
  <2>1. ASSUME NEW c \in Callers, NEW p \in Profiles, NEW shape \in Shapes, NEW enabled \in BOOLEAN,
               UpdateDeviceProfile(c, p, shape, enabled)
        PROVE  NoNewAsk
    BY <1>1, <2>1 DEF UpdateDeviceProfile, Starts
  <2>2. ASSUME NEW c \in Callers, NEW p \in Profiles, DeleteDeviceProfile(c, p)
        PROVE  NoNewAsk
    BY <1>1, <2>2 DEF DeleteDeviceProfile, Starts
  <2>3. ASSUME NEW c \in Callers, NEW step, NEW next, NEW n, CountsReferences(c, step, next, n)
        PROVE  NoNewAsk
    <3>1. PICK m : calls' = [calls EXCEPT ![c] =
                               [calls[c] EXCEPT !.step = next, !.references = m]]
      BY <1>0, <2>3 DEF CountsReferences
    <3>2. calls[c].op \in {"profile", "unprofile"}
      BY <2>3 DEF CountsReferences
    <3> QED BY <1>0, <1>1, <3>1, <3>2
  <2>4. ASSUME NEW c \in Callers, CountProfileDevices(c) \/ CountProfileCodes(c)
        PROVE  NoNewAsk
    BY <2>3, <2>4 DEF CountProfileDevices, CountProfileCodes
  <2>5. ASSUME NEW c \in Callers, WriteDeviceProfile(c) \/ RemoveDeviceProfile(c)
        PROVE  NoNewAsk
    BY <1>3, <2>5 DEF WriteDeviceProfile, RemoveDeviceProfile
  <2> QED BY <1>4, <1>5, <2>1, <2>2, <2>4, <2>5 DEF ProfileStep, CreateDeviceProfile
<1>6. CASE DeviceStep
  <2>1. ASSUME NEW c \in Callers, NEW p \in Profiles, CreatePairingCode(c, p)
        PROVE  NoNewAsk
    BY <1>1, <2>1 DEF CreatePairingCode, Starts
  <2>2. ASSUME NEW c \in Callers, NEW d \in Devices, NEW in \in Inputs,
               CreateDevice(c, d, in) \/ UpdateDevice(c, d, in)
        PROVE  NoNewAsk
    <3>1. CASE CreateDevice(c, d, in)
      BY <1>1, <3>1 DEF CreateDevice, Starts
    <3>2. CASE UpdateDevice(c, d, in)
      BY <1>1, <3>2 DEF UpdateDevice, Starts
    <3> QED BY <2>2, <3>1, <3>2
  <2>3. ASSUME NEW c \in Callers, InsertDevice(c) \/ WriteDevice(c)
                                 \/ \E k \in Codes : InsertPairingCode(c, k)
        PROVE  NoNewAsk
    BY <1>3, <2>3 DEF InsertDevice, WriteDevice, InsertPairingCode
  <2>4. ASSUME NEW c \in Callers, CountActiveTokens(c) \/ CheckDeviceProfile(c)
        PROVE  NoNewAsk
    BY <1>2, <1>3, <2>4 DEF CountActiveTokens, CheckDeviceProfile
  <2> QED BY <1>4, <1>6, <2>1, <2>2, <2>3, <2>4
          DEF DeviceStep, RevokeDevice, DeleteDevice, RedeemPairingCode
<1>7. CASE HeartbeatStep
  BY <1>0, <1>7
     DEF HeartbeatStep, HeartbeatDevice, ReadHeartbeatDevice, RecordDeviceHeartbeat,
         RefuseHeartbeat, Starts, Steps, Ends
<1>8. CASE SessionStep
  <2>1. ASSUME NEW c \in Callers, NEW t \in tokens, RequestSession(c, t)
        PROVE  NoNewAsk
    BY <1>1, <2>1 DEF RequestSession, Starts
  <2>2. ASSUME NEW c \in Callers, ReadSessionDevice(c) \/ ListSaveBindings(c)
        PROVE  NoNewAsk
    BY <1>1, <1>3, <2>2 DEF ReadSessionDevice, ListSaveBindings
  <2>3. ASSUME NEW c \in Callers, AuthorizeBinding(c)
        PROVE  NoNewAsk
    <3>1. PICK todo, allowed :
            calls' = [calls EXCEPT ![c].todo = todo, ![c].allowed = allowed]
      BY <2>3 DEF AuthorizeBinding
    <3>2. calls[c].op = "session"
      BY <2>3 DEF AuthorizeBinding
    <3> DEFINE call == [calls[c] EXCEPT !.todo = todo, !.allowed = allowed]
    <3>3. calls' = [calls EXCEPT ![c] = call] /\ call.op = "session"
      BY <1>0, <3>1, <3>2
    <3> HIDE DEF call
    <3> QED BY <1>1, <3>3
  <2>4. ASSUME NEW c \in Callers, OpenSession(c)
        PROVE  NoNewAsk
    BY <1>3, <2>4 DEF OpenSession
  <2> QED BY <1>8, <2>1, <2>2, <2>3, <2>4 DEF SessionStep
<1> QED BY <1>5, <1>6, <1>7, <1>8

LEMMA BindingsRest ==
  ASSUME BindingInv, UNCHANGED <<build, saveStreams, bindings>>, NoNewAsk,
         attestations' \in [Devices -> DeviceReports \cup {{}}]
  PROVE  BindingInv'
BY DEF BindingInv, BindingTypeOK, BindingsAreMembers, ExactMember, AsksFit, AskFits, NoNewAsk, Asks

\* A stream that is there stays, of its driver, and leaves no group.
LEMMA StreamsGrow ==
  ASSUME BindingInv, NoNewAsk, UNCHANGED bindings,
         \A s \in SaveStreams : Lives(saveStreams[s]) =>
           /\ Lives(saveStreams'[s]) /\ saveStreams'[s].driver = saveStreams[s].driver
           /\ saveStreams[s].grouped => saveStreams'[s].grouped
  PROVE  BindingsAreMembers' /\ AsksFit'
<1>1. \A b \in Bindings : Lives(bindings[b]) => bindings[b].stream \in SaveStreams
  BY DEF BindingInv, BindingTypeOK, Lives, Unborn, Gone, Binding
<1>2. \A in \in BindingInputs : in.stream \in SaveStreams
  BY BindingAssumption
<1>3. BindingsAreMembers'
  BY <1>1 DEF BindingInv, BindingsAreMembers, ExactMember
<1>4. AsksFit'
  BY <1>2 DEF BindingInv, AsksFit, AskFits, NoNewAsk
<1> QED BY <1>3, <1>4

LEMMA NewStreamFits ==
  ASSUME BindingInv, NEW s \in SaveStreams, NEW driver \in Drivers, NEW grouped \in BOOLEAN,
         saveStreams[s] = Unborn,
         saveStreams' = [saveStreams EXCEPT ![s] = [state |-> "row", driver |-> driver,
                                                    grouped |-> grouped]]
  PROVE  /\ saveStreams' \in [SaveStreams -> SaveStream \cup {Unborn}]
         /\ saveStreams'[s] = [state |-> "row", driver |-> driver, grouped |-> grouped]
         /\ \A r \in SaveStreams : Lives(saveStreams[r]) => saveStreams'[r] = saveStreams[r]
BY DEF BindingInv, BindingTypeOK, SaveStream, Lives, Unborn

LEMMA BindingStepKeepsInv ==
  ASSUME CallsOK, BindingInv, BindingStep
  PROVE  BindingInv'
<1>0. BindingTypeOK /\ BindingsAreMembers /\ AsksFit
  BY DEF BindingInv
<1>1. ASSUME NEW v \in Builds, Restart(v)
      PROVE  BindingInv'
  <2>1. NoNewAsk
    BY <1>1, CallsAreRecords DEF Restart, NoNewAsk
  <2>2. ASSUME NEW s \in SaveStreams
        PROVE  /\ saveStreams'[s] \in SaveStream \cup {Unborn}
               /\ Lives(saveStreams[s]) =>
                    /\ Lives(saveStreams'[s]) /\ saveStreams'[s].driver = saveStreams[s].driver
                    /\ saveStreams[s].grouped => saveStreams'[s].grouped
    <3>1. saveStreams'[s] = IF Lives(saveStreams[s]) /\ saveStreams[s].driver = Web
                            THEN [saveStreams[s] EXCEPT !.grouped = TRUE] ELSE saveStreams[s]
      BY <1>1 DEF Restart
    <3>2. saveStreams[s] \in SaveStream \cup {Unborn}
      BY <1>0 DEF BindingTypeOK
    <3> QED BY <3>1, <3>2 DEF SaveStream, Lives, Unborn
  <2>3. BindingTypeOK'
    BY <1>0, <1>1, <2>2 DEF Restart, BindingTypeOK
  <2> QED BY <1>1, <2>1, <2>2, <2>3, StreamsGrow DEF Restart, BindingInv
<1>2. ASSUME NEW s \in SaveStreams, NEW driver \in Drivers, NEW grouped \in BOOLEAN,
             CreateSaveStream(s, driver, grouped)
      PROVE  BindingInv'
  <2>1. NoNewAsk /\ UNCHANGED <<bindings, build, attestations>>
    BY <1>2 DEF CreateSaveStream, NoNewAsk, pairingVars
  <2>2. /\ saveStreams' \in [SaveStreams -> SaveStream \cup {Unborn}]
        /\ \A r \in SaveStreams : Lives(saveStreams[r]) => saveStreams'[r] = saveStreams[r]
    BY <1>2, NewStreamFits DEF CreateSaveStream
  <2> QED BY <1>0, <2>1, <2>2, StreamsGrow DEF BindingInv, BindingTypeOK
<1>3. ASSUME NEW b \in Bindings, DeleteSaveBinding(b)
      PROVE  BindingInv'
  <2>1. NoNewAsk
    BY <1>3 DEF DeleteSaveBinding, NoNewAsk, pairingVars
  <2>2. BindingTypeOK'
    BY <1>0, <1>3 DEF DeleteSaveBinding, BindingTypeOK
  <2>3. BindingsAreMembers'
    BY <1>0, <1>3 DEF DeleteSaveBinding, BindingTypeOK, BindingsAreMembers, ExactMember, Lives, Gone
  <2>4. AsksFit'
    BY <1>0, <1>3, <2>1 DEF DeleteSaveBinding, AsksFit, AskFits, NoNewAsk
  <2> QED BY <2>2, <2>3, <2>4 DEF BindingInv
<1>4. ASSUME NEW b \in Bindings, NEW driver \in Drivers, NEW grouped \in BOOLEAN,
             NEW in \in BindingInputs, CreateSaveSetup(b, driver, grouped, in)
      PROVE  BindingInv'
  <2> DEFINE s == in.stream
  <2>1. /\ s \in SaveStreams /\ in.driver \in Drivers
        /\ BindingRow(in) \in Binding /\ BindingRow(in).stream = s
        /\ BindingRow(in).driver = in.driver /\ BindingRow(in).core = in.core
    BY BindingAssumption DEF BindingRow, Binding, Drivers
  <2>2. /\ saveStreams' \in [SaveStreams -> SaveStream \cup {Unborn}]
        /\ saveStreams'[s] = [state |-> "row", driver |-> driver, grouped |-> grouped]
        /\ \A r \in SaveStreams : Lives(saveStreams[r]) => saveStreams'[r] = saveStreams[r]
    BY <1>4, <2>1, NewStreamFits DEF CreateSaveSetup
  <2>3. bindings' = [bindings EXCEPT ![b] = BindingRow(in)]
    BY <1>4 DEF CreateSaveSetup
  <2>4. NoNewAsk
    BY <1>4 DEF CreateSaveSetup, NoNewAsk, pairingVars
  <2>5. BindingTypeOK'
    BY <1>0, <1>4, <2>1, <2>2, <2>3 DEF CreateSaveSetup, BindingTypeOK
  <2>6. AsksFit'
    BY <1>0, <2>2, <2>4, BindingAssumption DEF AsksFit, AskFits, NoNewAsk
  <2>7. Lives(saveStreams'[s]) /\ ExactMember(s, BindingRow(in))'
    <3>1. in.driver # driver => grouped /\ in.driver = Native /\ in.core = Core
      BY <1>4 DEF CreateSaveSetup
    <3> QED BY <2>1, <2>2, <3>1 DEF ExactMember, Lives, BindingRow
  <2>8. BindingsAreMembers'
    <3>1. ASSUME NEW x \in Bindings, x # b, Lives(bindings'[x])
          PROVE  Lives(saveStreams'[bindings'[x].stream])
                 /\ ExactMember(bindings[x].stream, bindings[x])'
      <4>1. bindings'[x] = bindings[x]
        BY <1>0, <2>3, <3>1 DEF BindingTypeOK
      <4>2. bindings[x].stream \in SaveStreams
        BY <1>0, <3>1, <4>1 DEF BindingTypeOK, Lives, Unborn, Gone, Binding
      <4>3. saveStreams'[bindings[x].stream] = saveStreams[bindings[x].stream]
        BY <1>0, <2>2, <3>1, <4>1, <4>2 DEF BindingsAreMembers
      <4> QED BY <1>0, <3>1, <4>1, <4>3 DEF BindingsAreMembers, ExactMember
    <3>2. bindings'[b] = BindingRow(in)
      BY <1>0, <2>3 DEF BindingTypeOK
    <3> HIDE DEF s
    <3> QED BY <2>1, <2>7, <3>1, <3>2 DEF BindingsAreMembers, ExactMember, BindingRow
  <2> QED BY <2>5, <2>6, <2>8 DEF BindingInv
<1>5. ASSUME NEW c \in Callers, NEW op \in {"bind", "rebind"}, NEW b \in Bindings,
             NEW in \in BindingInputs, ValidateRelations(c, op, b, in)
      PROVE  BindingInv'
  <2> DEFINE call == [op |-> op, step |-> "profile", binding |-> b, in |-> in]
  <2>1. calls' = [calls EXCEPT ![c] = call] /\ UNCHANGED bindingVars
        /\ Lives(saveStreams[in.stream])
    BY <1>5 DEF ValidateRelations, Starts
  <2>2. call.in = in /\ call.binding = b
    OBVIOUS
  <2> HIDE DEF call
  <2>3. AsksFit'
    BY <1>0, <2>1, <2>2, CallsAreRecords DEF AsksFit, AskFits, bindingVars
  <2> QED BY <1>0, <2>1, <2>3
          DEF BindingInv, BindingTypeOK, BindingsAreMembers, ExactMember, bindingVars
<1>6. ASSUME NEW c \in Callers, CheckBindingProfile(c)
      PROVE  BindingInv'
  <2>1. UNCHANGED bindingVars
    BY <1>6 DEF CheckBindingProfile
  <2>2. AsksFit'
    <3>1. CASE Ends(c)
      BY <1>0, <2>1, <3>1, CallsAreRecords DEF Ends, AsksFit, AskFits, bindingVars
    <3>2. CASE Steps(c, "write")
      <4> DEFINE call == [calls[c] EXCEPT !.step = "write"]
      <4>1. calls' = [calls EXCEPT ![c] = call]
        BY <3>2, CallsAreRecords DEF Steps
      <4>2. calls[c].op \in {"bind", "rebind"} /\ CallOK(calls[c])
        BY <1>6 DEF CheckBindingProfile, CallsOK
      <4>3. call.in = calls[c].in /\ call.binding = calls[c].binding
        OBVIOUS
      <4> HIDE DEF call
      <4> QED BY <1>0, <2>1, <4>1, <4>2, <4>3, CallsAreRecords
              DEF AsksFit, AskFits, Asks, bindingVars
    <3> QED BY <1>6, <3>1, <3>2 DEF CheckBindingProfile
  <2> QED BY <1>0, <2>1, <2>2
          DEF BindingInv, BindingTypeOK, BindingsAreMembers, ExactMember, bindingVars
<1>7. ASSUME NEW c \in Callers, WriteSaveBinding(c)
      PROVE  BindingInv'
  <2> DEFINE in == calls[c].in
             b == calls[c].binding
  <2>1. /\ in \in BindingInputs /\ b \in Bindings /\ Lives(saveStreams[in.stream])
        /\ UNCHANGED <<build, saveStreams, attestations>>
        /\ NoNewAsk
    BY <1>0, <1>7, CallsAreRecords
       DEF WriteSaveBinding, AsksFit, AskFits, Asks, NoNewAsk, Ends
  <2>2. CASE UNCHANGED bindings
    BY <1>0, <2>1, <2>2, BindingsRest DEF BindingTypeOK
  <2>3. CASE bindings' = [bindings EXCEPT ![b] = BindingRow(in)] /\ ExactMember(in.stream, in)
    <3>1. /\ BindingRow(in) \in Binding /\ BindingRow(in).stream = in.stream
          /\ BindingRow(in).driver = in.driver /\ BindingRow(in).core = in.core
      BY <2>1, BindingAssumption DEF BindingRow, Binding, Drivers
    <3> HIDE DEF in, b
    <3>2. ExactMember(in.stream, BindingRow(in))
      BY <2>3, <3>1 DEF ExactMember
    <3>3. BindingTypeOK'
      BY <1>0, <2>1, <2>3, <3>1 DEF BindingTypeOK
    <3>4. BindingsAreMembers'
      BY <1>0, <2>1, <2>3, <3>1, <3>2 DEF BindingTypeOK, BindingsAreMembers, ExactMember
    <3>5. AsksFit'
      BY <1>0, <2>1 DEF AsksFit, AskFits, NoNewAsk
    <3> QED BY <3>3, <3>4, <3>5 DEF BindingInv
  <2> QED BY <1>7, <2>2, <2>3 DEF WriteSaveBinding
<1> QED BY <1>1, <1>2, <1>3, <1>4, <1>5, <1>6, <1>7
        DEF BindingStep, CreateSaveBinding, UpdateSaveBinding

LEMMA BindingNextKeepsInv ==
  ASSUME CallsOK, BindingInv, [BindingNext]_<<pairingVars, bindingVars>>
  PROVE  BindingInv'
<1>1. BindingTypeOK
  BY DEF BindingInv
<1>2. ASSUME NoNewAsk, UNCHANGED bindingVars
      PROVE  BindingInv'
  BY <1>1, <1>2, BindingsRest DEF BindingTypeOK, bindingVars
<1>3. CASE (ProfileStep \/ DeviceStep \/ Tick) /\ UNCHANGED bindingVars
  BY <1>2, <1>3, ServicesAskNothing DEF Tick, NoNewAsk
<1>4. CASE SessionStep
  <2>1. UNCHANGED <<build, saveStreams, bindings, attestations>>
    BY <1>4 DEF SessionStep, RequestSession, ReadSessionDevice, ListSaveBindings,
                AuthorizeBinding, OpenSession, bindingVars
  <2> QED BY <1>1, <1>4, <2>1, ServicesAskNothing, BindingsRest DEF BindingTypeOK
<1>5. CASE AttestationStep
  <2>1. ASSUME NEW c \in Callers, NEW reports \in DeviceReports, AttestedHeartbeat(c, reports)
        PROVE  BindingInv'
    <3>1. HeartbeatStep
      BY <2>1 DEF AttestedHeartbeat, HeartbeatStep
    <3>2. attestations' \in [Devices -> DeviceReports \cup {{}}]
      BY <1>1, <2>1 DEF AttestedHeartbeat, ReplaceAttestations, BindingTypeOK
    <3> QED BY <2>1, <3>1, <3>2, ServicesAskNothing, BindingsRest DEF AttestedHeartbeat
  <2>2. ASSUME NEW c \in Callers, NEW reports \in DeviceReports, RefuseAttestations(c, reports)
        PROVE  BindingInv'
    BY <1>2, <2>2, CallsAreRecords DEF RefuseAttestations, Ends, NoNewAsk, Asks
  <2>3. CASE HeartbeatStep /\ UNCHANGED bindingVars
    BY <1>2, <2>3, ServicesAskNothing
  <2> QED BY <1>5, <2>1, <2>2, <2>3 DEF AttestationStep, HeartbeatStep
<1>6. CASE UNCHANGED <<pairingVars, bindingVars>>
  BY <1>2, <1>6 DEF NoNewAsk, pairingVars
<1> QED BY <1>3, <1>4, <1>5, <1>6, BindingStepKeepsInv DEF BindingNext

-----------------------------------------------------------------------------
(* The theorems on save bindings                                               *)

(* The rows of streams, bindings and attestations stay well formed, and each   *)
(* binding a member of a stream that is there, though the stream, the group    *)
(* and the core are looked at in one statement and the row written in another, *)
(* with restarts in between (validateSaveBindingRelations,                     *)
(* AttachSaveCompatibilityGroup).                                              *)
THEOREM BindingsStayMembers == BindingSpec => [](BindingTypeOK /\ BindingsAreMembers)
<1>1. BindingInit => BindingInv
  BY DEF BindingInit, PairingInit, BindingInv, BindingTypeOK, BindingsAreMembers, AsksFit,
         AskFits, Asks, Idle, Lives, Unborn
<1>2. ASSUME LockInv, BindingInv, [BindingNext]_<<pairingVars, bindingVars>>
      PROVE  BindingInv'
  BY <1>2, BindingNextKeepsInv DEF LockInv, PairingInv
<1>3. BindingInv => BindingTypeOK /\ BindingsAreMembers
  BY DEF BindingInv
<1> QED BY <1>1, <1>2, <1>3, LockInvariance, PTL DEF BindingSpec

(* What pairing promises holds with bindings, sessions and attestations around *)
(* it: none of their requests gives a code a second token or lets a token of a *)
(* revoked device in (RedeemPairingCode, RevokeDevice).                        *)
THEOREM BindingsKeepPairingSafe == BindingSpec => [](OneTokenPerCode /\ RevokedStaysOut)
<1>1. LockInv => OneTokenPerCode /\ RevokedStaysOut
  BY DEF LockInv, PairingInv, RevocationsReachTokens, RevokedStaysOut, Authenticates, Usable
<1> QED BY <1>1, LockInvariance, PTL

(* The ledger of credentials is kept with bindings, sessions, attestations and *)
(* restarts around it too: a restart ends requests halfway and no step of them *)
(* leaves a credential given without its code spent (RedeemPairingCode,        *)
(* RevokeDevice, DeleteDevice).                                                *)
THEOREM BindingsImplementCredentials == BindingSpec => ImplementsCredentials
<1>1. ASSUME LockInv, [BindingNext]_<<pairingVars, bindingVars>>
      PROVE  [Ledger!Next]_(Ledger!vars)
  <2>1. ASSUME UNCHANGED <<codes, devices, tokens, revocations>>
        PROVE  UNCHANGED Ledger!vars
    BY <2>1, LedgerRests DEF KnownDevices
  <2>2. ASSUME [PairingNext]_pairingVars PROVE [Ledger!Next]_(Ledger!vars)
    BY <1>1, <2>2, PairingIsOfLedger DEF LockInv
  <2>3. CASE BindingStep
    BY <2>1, <2>3
       DEF BindingStep, Restart, CreateSaveStream, DeleteSaveBinding, CreateSaveSetup,
           CreateSaveBinding, UpdateSaveBinding, ValidateRelations, CheckBindingProfile,
           WriteSaveBinding, pairingVars
  <2>4. CASE SessionStep
    BY <2>1, <2>4
       DEF SessionStep, RequestSession, ReadSessionDevice, ListSaveBindings, AuthorizeBinding,
           OpenSession
  <2>5. CASE AttestationStep
    <3>1. ASSUME NEW c \in Callers, NEW reports \in DeviceReports,
                 AttestedHeartbeat(c, reports) \/ RefuseAttestations(c, reports)
          PROVE  HeartbeatStep \/ UNCHANGED <<codes, devices, tokens, revocations>>
      BY <3>1 DEF AttestedHeartbeat, RefuseAttestations, HeartbeatStep
    <3>2. HeartbeatStep \/ UNCHANGED <<codes, devices, tokens, revocations>>
      BY <2>5, <3>1 DEF AttestationStep, HeartbeatStep
    <3> QED BY <2>1, <2>2, <3>2 DEF PairingNext
  <2>6. CASE ProfileStep \/ DeviceStep \/ Tick \/ UNCHANGED pairingVars
    BY <2>2, <2>6 DEF PairingNext
  <2> QED BY <1>1, <2>3, <2>4, <2>5, <2>6 DEF BindingNext
<1>2. BindingInit => Ledger!Init
  BY LedgerStarts DEF BindingInit
<1> QED BY <1>1, <1>2, LockInvariance, PTL DEF BindingSpec, ImplementsCredentials, Ledger!Spec

(* A stream of another driver enters a session only on the strength of the     *)
(* last heartbeat of the device as it is now, for any callers, machines and    *)
(* releases: a device whose token still stands cannot become another machine   *)
(* under a session, because an update that would make it one counts the tokens *)
(* first and no token is issued to a device that is known                      *)
(* (createSyncSession, UpdateDevice, RedeemPairingCode).                        *)
THEOREM SessionsAreLockedUntilAttested == BindingSpec => LockedUntilAttested
<1>1. ASSUME LockInv, [BindingNext]_<<pairingVars, bindingVars>>,
             NEW c \in Callers, NEW s \in SaveStreams,
             At(c, "session", "authorize"), At(c, "session", "authorize")',
             s \in calls'[c].allowed \ calls[c].allowed,
             calls[c].token \in tokens, Authenticates(calls[c].token)
      PROVE  \/ \E row \in calls[c].todo :
                  row.stream = s /\ row.driver = saveStreams[s].driver
             \/ RuntimeMemberMatchesDevice(devices[calls[c].token.device].machine,
                                           reported[calls[c].token.device])
  <2> DEFINE call == calls[c]
             d == call.token.device
  <2>0. AuthorizeBinding(c)
    BY <1>1, OnlyAuthorizationAllows
  <2>1. PICK row \in call.todo :
          calls' = [calls EXCEPT ![c].todo = @ \ {row},
                                 ![c].allowed = IF SaveBindingRuntimeAuthorized(call, row, attestations[d])
                                                THEN @ \cup {row.stream} ELSE @]
    BY <2>0 DEF AuthorizeBinding
  <2>2. /\ {"op", "step", "token", "read", "todo", "allowed"} \subseteq DOMAIN call
        /\ Carries(d, call.read.machine, devices, tokens, time)
    BY <1>1, SessionIsCalled DEF At, CallFits
  <2>3. call.read.machine = devices[d].machine
    <3>1. Accepted(d, tokens, time) /\ Lives(devices[d])
      BY <1>1 DEF Authenticates, Usable, Accepted
    <3> QED BY <2>2, <3>1 DEF Carries
  <2>4. row \in call.todo /\ row.stream = s
        /\ SaveBindingRuntimeAuthorized(call, row, attestations[d])
    BY <1>1, <2>1, <2>2 DEF LockInv, PairingInv, CallsOK
  <2> QED BY <1>1, <2>3, <2>4 DEF SaveBindingRuntimeAuthorized, LockInv, HeartbeatsKept
<1>2. LockInv /\ [BindingNext]_<<pairingVars, bindingVars>> =>
        [\A c \in Callers, s \in SaveStreams :
           LET call == calls[c] IN
           /\ At(c, "session", "authorize")
           /\ At(c, "session", "authorize")'
           /\ s \in calls'[c].allowed \ call.allowed
           /\ call.token \in tokens /\ Authenticates(call.token)
           => \/ \E row \in call.todo : row.stream = s /\ row.driver = saveStreams[s].driver
              \/ RuntimeMemberMatchesDevice(devices[call.token.device].machine,
                                            reported[call.token.device])]_<<pairingVars, bindingVars>>
  BY <1>1
<1> QED BY <1>2, LockInvariance, PTL DEF BindingSpec, LockedUntilAttested
=============================================================================
