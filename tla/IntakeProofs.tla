---------------------------- MODULE IntakeProofs ----------------------------
(***************************************************************************)
(* Theorems about what reaches the database from outside: InventoryMatch,  *)
(* for any library, identifiers, devices, items and requests; SourceScans, *)
(* for any sources, files, scans and requests; and BrowserPlay, for any    *)
(* tabs, rooms and contents.  The last is proved on the invariant of the   *)
(* store its saves go to (SaveStoreProofs).                                *)
(***************************************************************************)
EXTENDS InventoryMatch, SourceScans, BrowserPlay, SaveStoreProofs, SequenceTheorems, TLAPS


-----------------------------------------------------------------------------
(* Inventory matching: the inductive invariant.  A choice somebody made can be *)
(* followed from the snapshot sent back through the override to the items.    *)

\* Somebody chose the edition, if it is still there, for such an item in that
\* tier and among these candidates.
Vouched(identity, method, candidates, edition, tokens) ==
  \E p \in tokens : /\ p.identity = identity /\ p.method = method
                    /\ p.candidates = candidates /\ edition \in {p.edition, NoValue}

ItemFields == {"identity", "status", "method", "edition", "confirmed", "among"}
IsItem(r) == r = [f \in ItemFields |-> r[f]]

ItemOK(r, tokens) ==
  /\ IsItem(r) /\ r.identity \in Identity /\ r.confirmed \in BOOLEAN
  /\ r.confirmed => Vouched(r.identity, r.method, r.among, r.edition, tokens)

OverrideOK(o, tokens) ==
  /\ o = [identity |-> o.identity, method |-> o.method,
          candidates |-> o.candidates, edition |-> o.edition]
  /\ Vouched(o.identity, o.method, o.candidates, o.edition, tokens)

CallFields == {"op", "step", "item", "identity", "tier", "status", "method", "edition",
               "confirmed", "candidates", "wanted", "token"}
IsCall(call) == call = [f \in CallFields |-> call[f]]

\* A creation takes an edition as confirmed from an override only; a commit
\* that is about to write has what the reviewer sent back.
CallOK(call, tokens) ==
  /\ IsCall(call)
  /\ call.op \in {"create", "preview", "commit"}
  /\ call.item \in Items /\ call.identity \in Identity /\ call.confirmed \in BOOLEAN
  /\ call.confirmed => /\ call.op = "create" /\ call.step = "insert"
                       /\ Vouched(call.identity, call.method, call.candidates, call.edition, tokens)
  /\ call.op = "commit" => call.token \in tokens
  /\ call.step = "confirm" => call.op = "commit" /\ Snapshot(call) = call.token

ItemsOK == /\ items = [i \in Items |-> items[i]]
           /\ \A i \in Items : items[i] # NoValue => ItemOK(items[i], chosen)
OverridesOK == /\ overrides = [k \in Reporters \X Clients |-> overrides[k]]
               /\ \A k \in Reporters \X Clients :
                    overrides[k] # NoValue => OverrideOK(overrides[k], chosen)
CallsOK == /\ requests = [h \in Matchers |-> requests[h]]
           /\ \A h \in Matchers : requests[h] # Quiet => CallOK(requests[h], chosen)
SignedOK == \A p \in signed : p.item \in Items

InventoryInv == ItemsOK /\ OverridesOK /\ CallsOK /\ SignedOK

-----------------------------------------------------------------------------
(* What is kept whatever happens, and when one request goes on                *)

LEMMA MoreChosen ==
  ASSUME NEW tokens, NEW more, tokens \subseteq more
  PROVE  /\ \A r : ItemOK(r, tokens) => ItemOK(r, more)
         /\ \A o : OverrideOK(o, tokens) => OverrideOK(o, more)
         /\ \A call : CallOK(call, tokens) => CallOK(call, more)
<1>1. \A who, m, cs, e : Vouched(who, m, cs, e, tokens) => Vouched(who, m, cs, e, more)
  BY DEF Vouched
<1>2. \A r : ItemOK(r, tokens) => ItemOK(r, more)
  BY <1>1 DEF ItemOK
<1>3. \A o : OverrideOK(o, tokens) => OverrideOK(o, more)
  BY <1>1 DEF OverrideOK
<1>4. \A call : CallOK(call, tokens) => CallOK(call, more)
  BY <1>1 DEF CallOK
<1> QED BY <1>2, <1>3, <1>4

LEMMA CallGoesOn ==
  ASSUME CallsOK, NEW h \in Matchers, NEW call, UNCHANGED chosen,
         requests' = [requests EXCEPT ![h] = call],
         call # Quiet => CallOK(call, chosen)
  PROVE  CallsOK'
BY DEF CallsOK

\* A request goes on, or ends, and writes nothing.
LEMMA BecomesKeeps ==
  ASSUME InventoryInv, NEW h \in Matchers, NEW call,
         call # Quiet => CallOK(call, chosen), Becomes(h, call)
  PROVE  InventoryInv'
<1>1. CallsOK'
  BY CallGoesOn DEF InventoryInv, Becomes
<1>2. ItemsOK' /\ OverridesOK' /\ SignedOK'
  BY DEF InventoryInv, Becomes, ItemsOK, OverridesOK, SignedOK
<1> QED BY <1>1, <1>2 DEF InventoryInv

LEMMA CallIsOK ==
  ASSUME InventoryInv, NEW h \in Matchers, requests[h].op # "none"
  PROVE  CallOK(requests[h], chosen)
BY DEF InventoryInv, CallsOK, Quiet

-----------------------------------------------------------------------------
(* The steps of a request                                                     *)

LEMMA CreateSyncSessionKeeps ==
  ASSUME InventoryInv, NEW h \in Matchers, NEW i \in Items, NEW identity \in Reported,
         CreateSyncSession(h, i, identity)
  PROVE  InventoryInv'
<1>1. identity \in Identity
  BY InventoryAssumption
<1>2. CallOK(Ask("create", i, identity), chosen)
  BY <1>1 DEF CallOK, IsCall, CallFields, Ask
<1> QED BY <1>2, BecomesKeeps DEF CreateSyncSession

LEMMA TierFindsNothingKeeps ==
  ASSUME InventoryInv, NEW h \in Matchers, TierFindsNothing(h)
  PROVE  InventoryInv'
<1> DEFINE call == requests[h]
           n == Min(Given(call)) + 1
<1>1. call.op # "none" /\ call.step = "match" /\ Becomes(h, [call EXCEPT !.tier = n])
  BY DEF TierFindsNothing
<1>2. CallOK(call, chosen)
  BY <1>1, CallIsOK
<1> HIDE DEF call, n
<1>3. CallOK([call EXCEPT !.tier = n], chosen)
  BY <1>1, <1>2 DEF CallOK, IsCall, CallFields
<1> QED BY <1>1, <1>3, BecomesKeeps

LEMMA MatchKeeps ==
  ASSUME InventoryInv, NEW h \in Matchers, MatchInventoryItemCanonical(h)
  PROVE  InventoryInv'
<1> DEFINE call == requests[h]
           found == Found(call)
           method == IF found = {} THEN NoValue ELSE Tiers[Min(Given(call))]
           reviews == call.op # "create"
           stale == reviews /\ (Status(found) # "ambiguous" \/ method # call.wanted)
           status == Status(found)
           e == IF status = "matched" THEN CHOOSE e \in found : TRUE ELSE call.edition
           step == IF reviews THEN "review" ELSE IF status = "ambiguous" THEN "override" ELSE "insert"
           next == [call EXCEPT !.status = status, !.method = method, !.candidates = found,
                                !.edition = e, !.step = step]
<1>1. call.op # "none" /\ call.step = "match"
  BY DEF MatchInventoryItemCanonical
<1>2. CallOK(call, chosen)
  BY <1>1, CallIsOK
<1>3. Becomes(h, Quiet) \/ Becomes(h, next)
  <2>1. next = [call EXCEPT !.status = Status(found), !.method = method, !.candidates = found,
                           !.edition = IF Status(found) = "matched"
                                       THEN CHOOSE x \in found : TRUE ELSE @,
                           !.step = step]
    BY <1>2 DEF CallOK, IsCall, CallFields
  <2>2. Becomes(h, IF stale THEN Quiet ELSE next)
    BY <2>1 DEF MatchInventoryItemCanonical
  <2> HIDE DEF next, stale
  <2> QED BY <2>2
<1>4. step \in {"review", "override", "insert"}
  OBVIOUS
<1> HIDE DEF found, method, status, e, step
<1>5. /\ IsCall(next) /\ next.op = call.op /\ next.step = step /\ next.item = call.item
      /\ next.identity = call.identity /\ next.token = call.token
      /\ next.confirmed = call.confirmed
  BY <1>2 DEF CallOK, IsCall, CallFields
<1> HIDE DEF next, call
<1>7. CallOK(next, chosen)
  BY <1>1, <1>2, <1>4, <1>5 DEF CallOK
<1> QED BY <1>3, <1>7, BecomesKeeps

LEMMA MatchForDeviceKeeps ==
  ASSUME InventoryInv, NEW h \in Matchers, MatchInventoryItemForDevice(h)
  PROVE  InventoryInv'
<1> DEFINE call == requests[h]
           k == <<call.identity.device, call.identity.client>>
           override == overrides[k]
           taken == [call EXCEPT !.step = "insert", !.status = "matched",
                                 !.edition = override.edition, !.confirmed = TRUE]
           left == [call EXCEPT !.step = "insert"]
<1>1. /\ call.op = "create" /\ call.step = "override"
      /\ IF OverrideApplies(override, call) THEN Becomes(h, taken) ELSE Becomes(h, left)
  BY DEF MatchInventoryItemForDevice
<1>2. CallOK(call, chosen)
  BY <1>1, CallIsOK
<1>3. CallOK(left, chosen)
  BY <1>1, <1>2 DEF CallOK, IsCall, CallFields
<1>4. ASSUME OverrideApplies(override, call)
      PROVE  CallOK(taken, chosen)
  <2>1. k \in Reporters \X Clients
    BY <1>2 DEF CallOK, Identity
  <2>2. override # NoValue /\ OverrideOK(override, chosen)
    BY <1>4, <2>1 DEF InventoryInv, OverridesOK, OverrideApplies
  <2>3. Vouched(call.identity, call.method, call.candidates, override.edition, chosen)
    BY <1>4, <2>2 DEF OverrideOK, OverrideApplies
  <2> HIDE DEF override
  <2>4. /\ IsCall(taken) /\ taken.op = call.op /\ taken.step = "insert"
        /\ taken.item = call.item /\ taken.identity = call.identity
        /\ taken.method = call.method /\ taken.candidates = call.candidates
        /\ taken.edition = override.edition /\ taken.confirmed \in BOOLEAN
    BY <1>2 DEF CallOK, IsCall, CallFields
  <2> HIDE DEF taken
  <2> QED BY <1>1, <1>2, <2>3, <2>4 DEF CallOK
<1> QED BY <1>1, <1>3, <1>4, BecomesKeeps

LEMMA InsertKeeps ==
  ASSUME InventoryInv, NEW h \in Matchers, InsertInventoryItem(h)
  PROVE  InventoryInv'
<1> DEFINE call == requests[h]
           row == [identity |-> call.identity, status |-> call.status, method |-> call.method,
                   edition |-> call.edition, confirmed |-> call.confirmed,
                   among |-> call.candidates]
<1>1. /\ call.op = "create" /\ requests' = [requests EXCEPT ![h] = Quiet]
      /\ UNCHANGED items \/ items' = [items EXCEPT ![call.item] = row]
      /\ UNCHANGED <<overrides, signed, chosen>>
  BY DEF InsertInventoryItem
<1>2. CallOK(call, chosen)
  BY <1>1, CallIsOK
<1>3. call.item \in Items /\ ItemOK(row, chosen)
  BY <1>2 DEF CallOK, ItemOK, IsItem, ItemFields
<1> HIDE DEF row, call
<1>4. ItemsOK'
  BY <1>1, <1>3 DEF InventoryInv, ItemsOK
<1>5. CallsOK'
  BY <1>1, CallGoesOn DEF InventoryInv
<1>6. OverridesOK' /\ SignedOK'
  BY <1>1 DEF InventoryInv, OverridesOK, SignedOK
<1> QED BY <1>4, <1>5, <1>6 DEF InventoryInv

LEMMA ReviewBeginsKeeps ==
  ASSUME InventoryInv, NEW h \in Matchers, NEW op \in {"preview", "commit"}, NEW i \in Items,
         NEW e, NEW token, GetInventoryReviewItem(h, op, i, e, token)
  PROVE  InventoryInv'
<1> DEFINE call == [Ask(op, i, items[i].identity) EXCEPT !.edition = e, !.token = token,
                                                         !.wanted = items[i].method]
<1>1. /\ items[i] # NoValue /\ requests' = [requests EXCEPT ![h] = call]
      /\ chosen' = IF op = "commit" THEN chosen \cup {token} ELSE chosen
      /\ UNCHANGED <<items, overrides, signed>>
  BY DEF GetInventoryReviewItem
<1>2. items[i].identity \in Identity
  BY <1>1 DEF InventoryInv, ItemsOK, ItemOK
<1>3. CallOK(call, chosen')
  BY <1>1, <1>2 DEF CallOK, IsCall, CallFields, Ask
<1> HIDE DEF call
<1>4. chosen \subseteq chosen'
  BY <1>1
<1>5. ItemsOK' /\ OverridesOK' /\ SignedOK'
  BY <1>1, <1>4, MoreChosen DEF InventoryInv, ItemsOK, OverridesOK, SignedOK
<1>6. CallsOK'
  BY <1>1, <1>3, <1>4, MoreChosen DEF InventoryInv, CallsOK
<1> QED BY <1>5, <1>6 DEF InventoryInv

LEMMA PreviewKeeps ==
  ASSUME InventoryInv, NEW h \in Matchers, PreviewInventoryMatch(h)
  PROVE  InventoryInv'
<1>1. /\ requests[h].op = "preview" /\ requests' = [requests EXCEPT ![h] = Quiet]
      /\ signed' \in {signed, signed \cup {Snapshot(requests[h])}}
      /\ UNCHANGED <<items, overrides, chosen>>
  BY DEF PreviewInventoryMatch
<1>2. CallOK(requests[h], chosen)
  BY <1>1, CallIsOK
<1>3. Snapshot(requests[h]).item \in Items
  BY <1>2 DEF CallOK, Snapshot
<1>4. CallsOK'
  BY <1>1, CallGoesOn DEF InventoryInv
<1>5. ItemsOK' /\ OverridesOK' /\ SignedOK'
  BY <1>1, <1>3 DEF InventoryInv, ItemsOK, OverridesOK, SignedOK
<1> QED BY <1>4, <1>5 DEF InventoryInv

LEMMA CommitKeeps ==
  ASSUME InventoryInv, NEW h \in Matchers, CommitInventoryMatch(h)
  PROVE  InventoryInv'
<1> DEFINE call == requests[h]
           next == [call EXCEPT !.step = "confirm"]
<1>1. /\ call.op = "commit" /\ call.step = "review"
      /\ \/ Snapshot(call) = call.token /\ Becomes(h, next)
         \/ Becomes(h, Quiet)
  BY DEF CommitInventoryMatch
<1>2. CallOK(call, chosen)
  BY <1>1, CallIsOK
<1>3. ASSUME Snapshot(call) = call.token
      PROVE  CallOK(next, chosen)
  BY <1>1, <1>2, <1>3 DEF CallOK, IsCall, CallFields, Snapshot
<1> QED BY <1>1, <1>3, BecomesKeeps

\* The row and the override say what the reviewer sent back: the comparison in
\* the transaction ties the row and the candidates of this moment to it.
LEMMA ConfirmKeeps ==
  ASSUME InventoryInv, NEW h \in Matchers, ConfirmInventoryMatchOverride(h)
  PROVE  InventoryInv'
<1> DEFINE call == requests[h]
           i == call.item
           k == <<call.identity.device, call.identity.client>>
           now == Candidates(call.identity.platform, call.method, call.identity.ids[call.method])
           override == [identity |-> call.identity, method |-> call.method,
                        candidates |-> now, edition |-> call.edition]
           row == [items[i] EXCEPT !.status = "matched", !.confirmed = TRUE,
                                   !.edition = call.edition, !.among = now]
<1>1. /\ call.op = "commit" /\ call.step = "confirm"
      /\ requests' = [requests EXCEPT ![h] = Quiet]
      /\ UNCHANGED <<signed, chosen>>
  BY DEF ConfirmInventoryMatchOverride
<1>2. CallOK(call, chosen)
  BY <1>1, CallIsOK
<1>3. CallsOK' /\ SignedOK'
  BY <1>1, CallGoesOn DEF InventoryInv, SignedOK
<1>4. CASE UNCHANGED <<overrides, items>>
  BY <1>1, <1>3, <1>4 DEF InventoryInv, ItemsOK, OverridesOK
<1>5. CASE /\ StillAsReviewed(i, call)
           /\ overrides' = [overrides EXCEPT ![k] = override]
           /\ items' = [items EXCEPT ![i] = row]
  <2>1. i \in Items /\ k \in Reporters \X Clients
    BY <1>2 DEF CallOK, Identity
  <2>2. now = call.candidates /\ items[i] # NoValue /\ items[i].identity = call.identity /\ items[i].method = call.method
    BY <1>5 DEF StillAsReviewed, StillAmbiguous
  <2> HIDE DEF now
  <2>3. Vouched(call.identity, call.method, now, call.edition, chosen)
    BY <1>1, <1>2, <2>2 DEF CallOK, Snapshot, Vouched
  <2>4. OverrideOK(override, chosen)
    BY <2>3 DEF OverrideOK
  <2>5. ItemOK(row, chosen)
    <3>1. ItemOK(items[i], chosen)
      BY <2>1, <2>2 DEF InventoryInv, ItemsOK
    <3>2. /\ IsItem(row) /\ row.identity = call.identity /\ row.method = call.method
          /\ row.edition = call.edition /\ row.among = now /\ row.confirmed \in BOOLEAN
      BY <2>2, <3>1 DEF ItemOK, IsItem, ItemFields
    <3> HIDE DEF row
    <3> QED BY <1>2, <2>3, <3>2 DEF ItemOK, CallOK
  <2> HIDE DEF row, override, k, i, call
  <2>6. ItemsOK' /\ OverridesOK'
    BY <1>1, <1>5, <2>1, <2>2, <2>4, <2>5 DEF InventoryInv, ItemsOK, OverridesOK
  <2> QED BY <1>3, <2>6 DEF InventoryInv
<1> QED BY <1>4, <1>5 DEF ConfirmInventoryMatchOverride

-----------------------------------------------------------------------------
(* The library changes                                                        *)

LEMMA DeleteEditionKeeps ==
  ASSUME InventoryInv, NEW e \in Editions, DeleteEdition(e)
  PROVE  InventoryInv'
<1>1. /\ items' = [i \in Items |-> IF items[i] # NoValue /\ items[i].edition = e
                                   THEN [items[i] EXCEPT !.edition = NoValue] ELSE items[i]]
      /\ overrides' = [k \in Reporters \X Clients |->
                         IF overrides[k] # NoValue /\ overrides[k].edition = e
                         THEN NoValue ELSE overrides[k]]
      /\ UNCHANGED <<signed, chosen, requests>>
  BY DEF DeleteEdition, InventoryInv, OverridesOK
<1>2. ASSUME NEW r, ItemOK(r, chosen)
      PROVE  ItemOK([r EXCEPT !.edition = NoValue], chosen)
  <2> DEFINE s == [r EXCEPT !.edition = NoValue]
  <2>1. /\ IsItem(s) /\ s.identity = r.identity /\ s.method = r.method /\ s.among = r.among
        /\ s.edition = NoValue /\ s.confirmed = r.confirmed
    BY <1>2 DEF ItemOK, IsItem, ItemFields
  <2>2. Vouched(r.identity, r.method, r.among, r.edition, chosen)
          => Vouched(r.identity, r.method, r.among, NoValue, chosen)
    BY DEF Vouched
  <2> HIDE DEF s
  <2>3. ItemOK(s, chosen)
    BY <1>2, <2>1, <2>2 DEF ItemOK
  <2> QED BY <2>3 DEF s
<1>3. ItemsOK'
  BY <1>1, <1>2 DEF InventoryInv, ItemsOK
<1>4. OverridesOK'
  BY <1>1 DEF InventoryInv, OverridesOK
<1>5. CallsOK' /\ SignedOK'
  BY <1>1 DEF InventoryInv, CallsOK, SignedOK
<1> QED BY <1>3, <1>4, <1>5 DEF InventoryInv

-----------------------------------------------------------------------------
(* The theorem                                                                *)

LEMMA InventoryInit_Inv == InventoryInit => InventoryInv
BY DEF InventoryInit, InventoryInv, ItemsOK, OverridesOK, CallsOK, SignedOK

LEMMA InventoryNext_Inv == InventoryInv /\ [InventoryNext]_inventoryVars => InventoryInv'
<1> SUFFICES ASSUME InventoryInv, [InventoryNext]_inventoryVars PROVE InventoryInv'
  OBVIOUS
<1>1. ASSUME NEW h \in Matchers, NEW i \in Items, NEW e \in Editions,
             GetInventoryReviewItem(h, "preview", i, e, NoValue)
      PROVE  InventoryInv'
  BY <1>1, ReviewBeginsKeeps
<1>2. ASSUME NEW h \in Matchers, NEW token \in signed,
             GetInventoryReviewItem(h, "commit", token.item, token.edition, token)
      PROVE  InventoryInv'
  <2>1. token.item \in Items
    BY DEF InventoryInv, SignedOK
  <2> QED BY <1>2, <2>1, ReviewBeginsKeeps
<1>3. ASSUME NEW h \in Matchers, RequestDies(h)
      PROVE  InventoryInv'
  BY <1>3, BecomesKeeps DEF RequestDies
<1>4. ASSUME NEW e \in Editions, NEW row \in Rows, SaveEdition(e, row)
      PROVE  InventoryInv'
  BY <1>4 DEF SaveEdition, InventoryInv, ItemsOK, OverridesOK, CallsOK, SignedOK
<1>5. CASE UNCHANGED inventoryVars
  BY <1>5 DEF inventoryVars, InventoryInv, ItemsOK, OverridesOK, CallsOK, SignedOK
<1> QED BY <1>1, <1>2, <1>3, <1>4, <1>5, CreateSyncSessionKeeps, TierFindsNothingKeeps,
           MatchKeeps, MatchForDeviceKeeps, InsertKeeps, PreviewKeeps, CommitKeeps,
           ConfirmKeeps, DeleteEditionKeeps
        DEF InventoryNext

\* An item counts as confirmed only by the choice of a person who saw just the
\* candidates it was matched among: every step between the preview and the use
\* of the override in a later session carries the reviewed snapshot along or
\* compares with it, whatever the library and the other requests do.
THEOREM ConfirmedMatchesWereChosen == InventorySpec => []ConfirmedMatchesAreConfirmed
<1>1. InventoryInv => ConfirmedMatchesAreConfirmed
  BY DEF InventoryInv, ItemsOK, ItemOK, Vouched, ConfirmedMatchesAreConfirmed
<1> QED BY <1>1, InventoryInit_Inv, InventoryNext_Inv, PTL DEF InventorySpec


-----------------------------------------------------------------------------
(* Rooms: the inductive invariant                                            *)

\* A pass is for one tab alone, with the base it signs, or for a room.
PassOK(pass) ==
  \/ pass = NoPass
  \/ /\ pass.kind = "solo"
     /\ pass = [f \in {"kind", "valid", "content", "base"} |-> pass[f]]
  \/ /\ pass.kind = "room"
     /\ pass = [f \in {"kind", "valid", "room", "content"} |-> pass[f]]
     /\ pass.room \in Rooms

TabFields == {"phase", "pass", "page", "content", "base", "restore", "restored",
              "memory", "queue", "last"}

\* A page of a room is of a pass to it, and plays the content of the pass.
TabOK(tab) ==
  /\ tab = [f \in TabFields |-> tab[f]]
  /\ PassOK(tab.pass)
  /\ tab.phase \in {"closed", "asks alone", "asks for a room", "holds"} => tab.page = "none"
  /\ tab.page = "play-netplay" =>
       /\ tab.pass.kind = "room"
       /\ tab.phase = "plays" => tab.content = tab.pass.content

RoomOK(m) ==
  \/ m = NoRoom
  \/ /\ m = [f \in {"state", "profile", "content", "clients", "expired"} |-> m[f]]
     /\ m.state \in {"waiting", "ready", "closed"}

Invited(tab, r) == tab.pass.kind = "room" /\ tab.pass.room = r

\* The passes to a room are of one content: that of the room while there is one.
OneContent ==
  \A r \in Rooms, t, u \in Tabs :
    Invited(tabs[t], r) /\ Invited(tabs[u], r) => tabs[t].pass.content = tabs[u].pass.content
PassesFit ==
  \A r \in Rooms, t \in Tabs :
    Invited(tabs[t], r) /\ rooms[r].state # "absent" =>
      rooms[r].content = tabs[t].pass.content

TabsOK == /\ tabs = [t \in Tabs |-> tabs[t]]
          /\ \A t \in Tabs : TabOK(tabs[t])
RoomsOK == /\ rooms = [r \in Rooms |-> rooms[r]]
           /\ \A r \in Rooms : RoomOK(rooms[r])

RoomsInv == TabsOK /\ RoomsOK /\ OneContent /\ PassesFit

-----------------------------------------------------------------------------
(* The steps, by what they change                                             *)

\* Whoever changes only its tab keeps its invitation, or has none.
LEMMA TabGoesOn ==
  ASSUME RoomsInv, NEW t \in Tabs, NEW tab, Set(t, tab), UNCHANGED rooms, TabOK(tab),
         tab.pass.kind = "room" => /\ tabs[t].pass.kind = "room"
                                   /\ tab.pass.room = tabs[t].pass.room
                                   /\ tab.pass.content = tabs[t].pass.content
  PROVE  RoomsInv'
<1>1. /\ tabs' = [u \in Tabs |-> tabs'[u]]
      /\ \A u \in Tabs : tabs'[u] = IF u = t THEN tab ELSE tabs[u]
  BY DEF Set, RoomsInv, TabsOK
<1>2. TabsOK' /\ RoomsOK'
  BY <1>1 DEF RoomsInv, TabsOK, RoomsOK
<1>3. \A u \in Tabs, r \in Rooms :
        Invited(tabs'[u], r) => Invited(tabs[u], r) /\ tabs'[u].pass.content = tabs[u].pass.content
  BY <1>1 DEF Invited
<1>4. OneContent' /\ PassesFit'
  BY <1>3 DEF RoomsInv, OneContent, PassesFit, Invited
<1> QED BY <1>2, <1>4 DEF RoomsInv

\* Whoever changes a room leaves those that are invited to it their content.
LEMMA RoomGoesOn ==
  ASSUME RoomsInv, NEW r \in Rooms, NEW m, UNCHANGED tabs, RoomOK(m),
         rooms' = [rooms EXCEPT ![r] = m],
         m.state # "absent" => \A t \in Tabs : Invited(tabs[t], r) => m.content = tabs[t].pass.content
  PROVE  RoomsInv'
<1>1. /\ rooms' = [q \in Rooms |-> rooms'[q]]
      /\ \A q \in Rooms : rooms'[q] = IF q = r THEN m ELSE rooms[q]
  BY DEF RoomsInv, RoomsOK
<1>2. TabsOK' /\ RoomsOK' /\ OneContent'
  BY <1>1 DEF RoomsInv, TabsOK, RoomsOK, OneContent
<1>3. PassesFit'
  BY <1>1 DEF RoomsInv, PassesFit
<1> QED BY <1>2, <1>3 DEF RoomsInv

\* A room that stays what it is, but for who is in it, when and how.
LEMMA RoomKeepsContent ==
  ASSUME RoomsInv, NEW r \in Rooms, rooms[r].state # "absent", NEW m, UNCHANGED tabs, RoomOK(m),
         m.content = rooms[r].content, rooms' = [rooms EXCEPT ![r] = m]
  PROVE  RoomsInv'
BY RoomGoesOn DEF RoomsInv, PassesFit

LEMMA WithClientIs ==
  ASSUME RoomsInv, NEW r \in Rooms, NEW client, rooms[r].state \in {"waiting", "ready"}
  PROVE  \E m : /\ WithClient(r, client) = [rooms EXCEPT ![r] = m] /\ RoomOK(m)
               /\ m.content = rooms[r].content
<1> DEFINE clients == rooms[r].clients \cup {client}
           state == IF Cardinality(clients) > 1 THEN "ready" ELSE rooms[r].state
           m == [rooms[r] EXCEPT !.clients = clients, !.state = state]
<1>1. RoomOK(rooms[r]) /\ rooms[r] # NoRoom
  BY DEF RoomsInv, RoomsOK, NoRoom
<1>2. state \in {"waiting", "ready"}
  OBVIOUS
<1>3. WithClient(r, client) = [rooms EXCEPT ![r] = m]
  BY <1>1 DEF WithClient, RoomsInv, RoomsOK, RoomOK
<1>4. RoomOK(m) /\ m.content = rooms[r].content
  <2> HIDE DEF clients, state
  <2> QED BY <1>1, <1>2 DEF RoomOK
<1> HIDE DEF m
<1> QED BY <1>3, <1>4

LEMMA SweptIs ==
  ASSUME RoomsInv, NEW r \in Rooms
  PROVE  Swept(r) = rooms \/ Swept(r) = [rooms EXCEPT ![r] = NoRoom]
BY DEF Swept

LEMMA ClosedTabOK == TabOK(ClosedTab)
BY DEF TabOK, TabFields, ClosedTab, PassOK, NoPass

\* A pass that expires is the same pass.
LEMMA ExpiredPass ==
  ASSUME NEW pass, PassOK(pass), pass.kind # "none"
  PROVE  LET expired == [pass EXCEPT !.valid = FALSE]
         IN  /\ PassOK(expired)
             /\ expired.kind = pass.kind
             /\ pass.kind = "room" => expired.room = pass.room
             /\ expired.content = pass.content
             /\ pass.kind = "solo" => expired.base = pass.base
<1>1. CASE pass.kind = "solo"
  <2>1. pass = [f \in {"kind", "valid", "content", "base"} |-> pass[f]]
    BY <1>1 DEF PassOK, NoPass
  <2> QED BY <1>1, <2>1 DEF PassOK
<1>2. CASE pass.kind = "room"
  <2>1. pass = [f \in {"kind", "valid", "room", "content"} |-> pass[f]] /\ pass.room \in Rooms
    BY <1>2 DEF PassOK, NoPass
  <2> QED BY <1>2, <2>1 DEF PassOK
<1> QED BY <1>1, <1>2 DEF PassOK, NoPass

-----------------------------------------------------------------------------

LEMMA RoomsInit == BrowserInit => RoomsInv
BY ClosedTabOK DEF BrowserInit, RoomsInv, TabsOK, RoomsOK, RoomOK, NoRoom, OneContent, PassesFit,
   Invited, ClosedTab, NoPass

LEMMA PlainTabSteps ==
  ASSUME RoomsInv, NEW t \in Tabs,
         \/ AskToPlayAlone(t) \/ AskForRoom(t) \/ SignSoloPass(t) \/ ExpireSoloPass(t)
         \/ OpenSoloPage(t) \/ OpenRoomPage(t) \/ StartGame(t)
         \/ RestoreSave(t) \/ ServeSave(t) \/ ApplyRestore(t) \/ RestoreFails(t)
         \/ \E hash \in Hashes : EmitSave(t, hash)
         \/ UploadAnswered(t) \/ UploadFails(t) \/ CloseTab(t)
  PROVE  RoomsInv'
<1>0. TabOK(tabs[t])
  BY DEF RoomsInv, TabsOK
<1>1. CASE AskToPlayAlone(t) \/ AskForRoom(t)
  <2>1. PICK phase \in {"asks alone", "asks for a room"} : Asks(t, phase)
    BY <1>1 DEF AskToPlayAlone, AskForRoom
  <2>2. TabOK([tabs[t] EXCEPT !.phase = phase, !.content = rom.row])
    BY <1>0, <2>1 DEF Asks, TabOK, TabFields
  <2> QED BY <2>1, <2>2, <1>0, TabGoesOn DEF Asks, TabOK, TabFields
<1>2. CASE SignSoloPass(t)
  <2> DEFINE pass == [kind |-> "solo", valid |-> TRUE, content |-> tabs[t].content,
                      base |-> CurrentStreamRevision(Stream)]
  <2>1. PassOK(pass) /\ pass.kind = "solo"
    BY DEF PassOK
  <2>2. SignSoloPass(t) => Set(t, [tabs[t] EXCEPT !.phase = "holds", !.pass = pass])
    BY DEF SignSoloPass
  <2> HIDE DEF pass
  <2>3. TabOK([tabs[t] EXCEPT !.phase = "holds", !.pass = pass])
    BY <1>0, <1>2, <2>1 DEF SignSoloPass, TabOK, TabFields
  <2>4. [tabs[t] EXCEPT !.phase = "holds", !.pass = pass].pass = pass
    BY <1>0 DEF TabOK, TabFields
  <2> QED BY <1>2, <2>1, <2>2, <2>3, <2>4, TabGoesOn DEF SignSoloPass
<1>3. CASE ExpireSoloPass(t)
  <2> DEFINE tab == [tabs[t] EXCEPT !.pass.valid = FALSE]
  <2>1. PassOK(tabs[t].pass) /\ tabs[t].pass.kind = "solo"
    BY <1>0, <1>3 DEF TabOK, ExpireSoloPass
  <2>2. /\ PassOK([tabs[t].pass EXCEPT !.valid = FALSE])
        /\ [tabs[t].pass EXCEPT !.valid = FALSE].kind = "solo"
    BY <2>1, ExpiredPass
  <2>3. TabOK(tab) /\ tab.pass.kind = "solo"
    BY <1>0, <2>1, <2>2 DEF TabOK, TabFields
  <2> QED BY <1>3, <2>3, TabGoesOn DEF ExpireSoloPass
<1>4. CASE OpenSoloPage(t)
  <2> DEFINE tab == [tabs[t] EXCEPT !.phase = "loads", !.page = "play",
                            !.base = IF tabs[t].pass.kind = "solo"
                                       THEN tabs[t].pass.base ELSE NoRevision]
  <2>1. TabOK(tab) /\ tab.pass = tabs[t].pass
    BY <1>0 DEF TabOK, TabFields
  <2> QED BY <1>4, <2>1, TabGoesOn DEF OpenSoloPage
<1>5. CASE OpenRoomPage(t)
  <2> DEFINE tab == [tabs[t] EXCEPT !.phase = "loads", !.page = "play-netplay"]
  <2>1. TabOK(tab) /\ tab.pass = tabs[t].pass
    BY <1>0, <1>5 DEF TabOK, TabFields, OpenRoomPage
  <2> QED BY <1>5, <2>1, TabGoesOn DEF OpenRoomPage
<1>6. CASE StartGame(t)
  <2> DEFINE tab == [tabs[t] EXCEPT !.phase = "plays", !.content = rom.file,
                            !.restore.at = IF tabs[t].page = "play" THEN "asked" ELSE "none"]
  <2>1. tabs[t].pass.content = rom.file
    BY <1>6 DEF StartGame, VerifiedWebROM
  <2>2. TabOK(tab) /\ tab.pass = tabs[t].pass
    BY <1>0, <2>1 DEF TabOK, TabFields
  <2> QED BY <1>6, <2>2, TabGoesOn DEF StartGame
<1>7. CASE RestoreSave(t)
  <2>1. TabOK([tabs[t] EXCEPT !.restore.at = "asked"])
        /\ [tabs[t] EXCEPT !.restore.at = "asked"].pass = tabs[t].pass
    BY <1>0 DEF TabOK, TabFields
  <2> QED BY <1>7, <2>1, TabGoesOn DEF RestoreSave
<1>8. CASE ServeSave(t)
  <2>1. /\ TabOK([tabs[t] EXCEPT !.restore = NoAnswer, !.restored = TRUE])
        /\ [tabs[t] EXCEPT !.restore = NoAnswer, !.restored = TRUE].pass = tabs[t].pass
    BY <1>0 DEF TabOK, TabFields
  <2>2. \A a : /\ TabOK([tabs[t] EXCEPT !.restore = a])
               /\ [tabs[t] EXCEPT !.restore = a].pass = tabs[t].pass
    BY <1>0 DEF TabOK, TabFields
  <2> QED BY <1>8, <2>1, <2>2, TabGoesOn DEF ServeSave
<1>9. CASE ApplyRestore(t)
  <2> DEFINE tab == [tabs[t] EXCEPT !.base = tabs[t].restore.rev, !.restored = TRUE,
                            !.memory = {tabs[t].restore.rev}, !.restore = NoAnswer,
                            !.queue = [i \in DOMAIN @ |-> [@[i] EXCEPT !.informed = FALSE]]]
  <2>1. TabOK(tab) /\ tab.pass = tabs[t].pass
    BY <1>0 DEF TabOK, TabFields
  <2> QED BY <1>9, <2>1, TabGoesOn DEF ApplyRestore
<1>10. CASE RestoreFails(t)
  <2>1. \A a : /\ TabOK([tabs[t] EXCEPT !.restore = a])
               /\ [tabs[t] EXCEPT !.restore = a].pass = tabs[t].pass
    BY <1>0 DEF TabOK, TabFields
  <2> QED BY <1>10, <2>1, TabGoesOn DEF RestoreFails
<1>11. ASSUME NEW hash \in Hashes, EmitSave(t, hash) PROVE RoomsInv'
  <2> DEFINE tab == [tabs[t] EXCEPT !.queue = Append(@, [hash |-> hash, informed |-> tabs[t].restored])]
  <2>1. TabOK(tab) /\ tab.pass = tabs[t].pass
    BY <1>0 DEF TabOK, TabFields
  <2> QED BY <1>11, <2>1, TabGoesOn DEF EmitSave
<1>12. CASE UploadAnswered(t)
  <2> DEFINE rev == push[t].result
             tab == [tabs[t] EXCEPT !.queue = Tail(@), !.base = rev, !.last = rev,
                            !.memory = @ \cup {rev}]
  <2>1. TabOK(tab) /\ tab.pass = tabs[t].pass
    BY <1>0 DEF TabOK, TabFields
  <2> QED BY <1>12, <2>1, TabGoesOn DEF UploadAnswered
<1>13. CASE UploadFails(t)
  <2> DEFINE tab == [tabs[t] EXCEPT !.queue = Tail(@)]
  <2>1. TabOK(tab) /\ tab.pass = tabs[t].pass
    BY <1>0 DEF TabOK, TabFields
  <2> QED BY <1>13, <2>1, TabGoesOn DEF UploadFails
<1>14. CASE CloseTab(t)
  <2>1. ClosedTab.pass.kind = "none"
    BY DEF ClosedTab, NoPass
  <2> QED BY <1>14, <2>1, ClosedTabOK, TabGoesOn DEF CloseTab
<1> QED BY <1>1, <1>2, <1>3, <1>4, <1>5, <1>6, <1>7, <1>8, <1>9, <1>10, <1>11, <1>12, <1>13, <1>14

LEMMA RoomSteps ==
  ASSUME RoomsInv, RoomStep
  PROVE  RoomsInv'
<1>0. \A r \in Rooms : RoomOK(rooms[r])
  BY DEF RoomsInv, RoomsOK
<1>1. ASSUME NEW r \in Rooms, CloseRoom(r) PROVE RoomsInv'
  <2> DEFINE m == [rooms[r] EXCEPT !.state = "closed"]
  <2>1. RoomOK(rooms[r]) /\ rooms[r] # NoRoom /\ rooms[r].state # "absent"
    BY <1>0, <1>1 DEF NoRoom, CloseRoom
  <2>2. RoomOK(m) /\ m.content = rooms[r].content
    BY <2>1 DEF RoomOK
  <2> QED BY <1>1, <2>1, <2>2, RoomKeepsContent DEF CloseRoom
<1>2. ASSUME NEW r \in Rooms, ExpireRoom(r) PROVE RoomsInv'
  <2> DEFINE m == [rooms[r] EXCEPT !.expired = TRUE]
  <2>1. RoomOK(m) /\ m.content = rooms[r].content /\ m.state = rooms[r].state
    BY <1>0, <1>2 DEF RoomOK, NoRoom, ExpireRoom
  <2>2. /\ rooms' = [q \in Rooms |-> rooms'[q]]
        /\ \A q \in Rooms : rooms'[q] = IF q = r THEN m ELSE rooms[q]
    BY <1>2 DEF ExpireRoom, RoomsInv, RoomsOK
  <2>3. ASSUME NEW t \in Tabs
        PROVE  /\ TabOK(tabs'[t])
               /\ \A q \in Rooms : Invited(tabs'[t], q) =>
                    Invited(tabs[t], q) /\ tabs'[t].pass.content = tabs[t].pass.content
    <3>0. TabOK(tabs[t])
      BY DEF RoomsInv, TabsOK
    <3>1. CASE ~(tabs[t].pass.kind = "room" /\ tabs[t].pass.room = r)
      BY <1>2, <3>0, <3>1 DEF ExpireRoom
    <3>2. CASE tabs[t].pass.kind = "room" /\ tabs[t].pass.room = r
      <4>1. tabs'[t] = [tabs[t] EXCEPT !.pass.valid = FALSE]
        BY <1>2, <3>2 DEF ExpireRoom
      <4>2. tabs'[t] = [tabs[t] EXCEPT !.pass = [tabs[t].pass EXCEPT !.valid = FALSE]]
        BY <4>1
      <4>3. PICK pass : pass = [tabs[t].pass EXCEPT !.valid = FALSE]
        OBVIOUS
      <4>4. /\ PassOK(pass) /\ pass.kind = "room" /\ pass.room = r
            /\ pass.content = tabs[t].pass.content
        BY <3>0, <3>2, <4>3, ExpiredPass DEF TabOK
      <4>5. tabs'[t] = [tabs[t] EXCEPT !.pass = pass]
        BY <4>2, <4>3
      <4> QED BY <3>0, <3>2, <4>4, <4>5 DEF TabOK, TabFields, Invited
    <3> QED BY <3>1, <3>2
  <2>4. tabs' = [t \in Tabs |-> tabs'[t]]
    BY <1>2 DEF ExpireRoom
  <2>5. TabsOK' /\ RoomsOK'
    BY <2>1, <2>2, <2>3, <2>4 DEF TabsOK, RoomsOK, RoomsInv
  <2>6. OneContent'
    BY <2>3 DEF OneContent, RoomsInv
  <2>7. ASSUME NEW q \in Rooms, NEW t \in Tabs, Invited(tabs'[t], q), rooms'[q].state # "absent"
        PROVE  rooms'[q].content = tabs'[t].pass.content
    <3>1. Invited(tabs[t], q) /\ tabs'[t].pass.content = tabs[t].pass.content
      BY <2>3, <2>7
    <3>2. rooms[q].state # "absent" /\ rooms'[q].content = rooms[q].content
      <4> HIDE DEF m
      <4> QED BY <2>1, <2>2, <2>7
    <3> QED BY <3>1, <3>2 DEF PassesFit, RoomsInv
  <2>8. PassesFit'
    BY <2>7 DEF PassesFit, Invited
  <2> QED BY <2>5, <2>6, <2>8 DEF RoomsInv
<1>3. ASSUME NEW r \in Rooms, LookAtRoom(r) PROVE RoomsInv'
  <2>1. CASE rooms' = rooms
    BY <1>3, <2>1 DEF LookAtRoom, RoomsInv, TabsOK, RoomsOK, OneContent, PassesFit
  <2>2. CASE rooms' = [rooms EXCEPT ![r] = NoRoom]
    BY <1>3, <2>2, RoomGoesOn DEF LookAtRoom, RoomOK, NoRoom
  <2> QED BY <1>3, <2>1, <2>2, SweptIs DEF LookAtRoom
<1>4. ASSUME NEW r \in Rooms, NEW profile, NEW content, HostByAPI(r, profile, content)
      PROVE  RoomsInv'
  <2>1. RoomOK(NewRoom(profile, content, Agent))
    BY DEF RoomOK, NewRoom
  <2> QED BY <1>4, <2>1, RoomGoesOn DEF HostByAPI, Invited
<1>5. ASSUME NEW r \in Rooms, NEW profile, NEW content, JoinByAPI(r, profile, content)
      PROVE  RoomsInv'
  <2>1. rooms[r].state \in {"waiting", "ready"}
    BY <1>5 DEF JoinByAPI, Joinable, Active
  <2>2. \E m : /\ WithClient(r, Agent) = [rooms EXCEPT ![r] = m] /\ RoomOK(m)
               /\ m.content = rooms[r].content
    BY <2>1, WithClientIs
  <2> QED BY <1>5, <2>1, <2>2, RoomKeepsContent DEF JoinByAPI
<1> QED BY <1>1, <1>2, <1>3, <1>4, <1>5 DEF RoomStep

LEMMA GetARoom ==
  ASSUME RoomsInv, NEW t \in Tabs, NEW r \in Rooms, CreateRoom(t, r) \/ JoinRoom(t, r)
  PROVE  RoomsInv'
<1>0. TabOK(tabs[t])
  BY DEF RoomsInv, TabsOK
<1>1. PICK tab : tab = RoomPass(t, r)
  OBVIOUS
<1>2. /\ tabs[t].phase = "asks for a room" => TabOK(tab)
      /\ Invited(tab, r) /\ tab.pass.content = tabs[t].content
      /\ \A q : Invited(tab, q) => q = r
  <2>1. PICK pass : pass = [kind |-> "room", valid |-> TRUE, room |-> r,
                            content |-> tabs[t].content]
    OBVIOUS
  <2>2. PassOK(pass) /\ pass.kind = "room" /\ pass.room = r /\ pass.content = tabs[t].content
    BY <2>1 DEF PassOK
  <2>3. tab = [tabs[t] EXCEPT !.phase = "holds", !.pass = pass]
    BY <1>1, <2>1 DEF RoomPass
  <2> QED BY <1>0, <2>2, <2>3 DEF TabOK, TabFields, Invited
<1>3. ASSUME Set(t, tab), tabs[t].phase = "asks for a room",
             NEW m, rooms' = [rooms EXCEPT ![r] = m], RoomOK(m), m.content = tabs[t].content,
             \A u \in Tabs : Invited(tabs[u], r) => tabs[u].pass.content = tabs[t].content
      PROVE  RoomsInv'
  <2>1. /\ tabs' = [u \in Tabs |-> tabs'[u]]
        /\ \A u \in Tabs : tabs'[u] = IF u = t THEN tab ELSE tabs[u]
    BY <1>3 DEF Set, RoomsInv, TabsOK
  <2>2. /\ rooms' = [q \in Rooms |-> rooms'[q]]
        /\ \A q \in Rooms : rooms'[q] = IF q = r THEN m ELSE rooms[q]
    BY <1>3 DEF RoomsInv, RoomsOK
  <2>3. TabsOK' /\ RoomsOK'
    BY <1>2, <1>3, <2>1, <2>2 DEF TabsOK, RoomsOK, RoomsInv
  <2>4. \A u \in Tabs : Invited(tabs'[u], r) => tabs'[u].pass.content = tabs[t].content
    BY <1>2, <1>3, <2>1
  <2>5. \A u \in Tabs, q \in Rooms : q # r /\ Invited(tabs'[u], q) =>
          Invited(tabs[u], q) /\ tabs'[u] = tabs[u]
    BY <1>2, <2>1
  <2>6. OneContent'
    BY <2>4, <2>5 DEF OneContent, RoomsInv
  <2>7. ASSUME NEW q \in Rooms, NEW u \in Tabs, Invited(tabs'[u], q), rooms'[q].state # "absent"
        PROVE  rooms'[q].content = tabs'[u].pass.content
    <3>1. CASE q = r
      BY <1>3, <2>2, <2>4, <2>7, <3>1
    <3>2. CASE q # r
      BY <2>2, <2>5, <2>7, <3>2 DEF PassesFit, RoomsInv
    <3> QED BY <3>1, <3>2
  <2>8. PassesFit'
    BY <2>7 DEF PassesFit, Invited
  <2> QED BY <2>3, <2>6, <2>8 DEF RoomsInv
<1>4. CASE CreateRoom(t, r)
  <2>1. PICK m : m = NewRoom("emulatorjs", tabs[t].content, t)
    OBVIOUS
  <2>2. RoomOK(m) /\ m.content = tabs[t].content
    BY <2>1 DEF RoomOK, NewRoom
  <2> QED BY <1>1, <1>3, <1>4, <2>1, <2>2 DEF CreateRoom, Invited
<1>5. CASE /\ JoinRoom(t, r) /\ Joinable(r, "emulatorjs", tabs[t].content, t)
  <2>1. /\ rooms[r].state \in {"waiting", "ready"} /\ rooms[r].content = tabs[t].content
        /\ rooms' = WithClient(r, t) /\ Set(t, RoomPass(t, r))
        /\ tabs[t].phase = "asks for a room"
    BY <1>5 DEF JoinRoom, Joinable, Active, Compatible
  <2>b. rooms[r].state \in {"waiting", "ready"}
    BY <2>1
  <2>a. \E m : /\ WithClient(r, t) = [rooms EXCEPT ![r] = m] /\ RoomOK(m)
               /\ m.content = rooms[r].content
    BY <2>b, WithClientIs
  <2>2. PICK m : /\ WithClient(r, t) = [rooms EXCEPT ![r] = m] /\ RoomOK(m)
                 /\ m.content = rooms[r].content
    BY <2>a
  <2>3. \A u \in Tabs : Invited(tabs[u], r) => tabs[u].pass.content = tabs[t].content
    BY <2>1 DEF RoomsInv, PassesFit
  <2> QED BY <1>1, <1>3, <2>1, <2>2, <2>3
<1>6. CASE /\ JoinRoom(t, r) /\ ~Joinable(r, "emulatorjs", tabs[t].content, t)
  <2>1. rooms' = Swept(r) /\ Set(t, ClosedTab)
    BY <1>6 DEF JoinRoom
  <2>2. /\ tabs' = [u \in Tabs |-> tabs'[u]]
        /\ \A u \in Tabs : tabs'[u] = IF u = t THEN ClosedTab ELSE tabs[u]
    BY <2>1 DEF Set, RoomsInv, TabsOK
  <2>3. /\ rooms' = [q \in Rooms |-> rooms'[q]]
        /\ \A q \in Rooms : rooms'[q] = rooms[q] \/ rooms'[q] = NoRoom
    BY <2>1, SweptIs DEF RoomsInv, RoomsOK
  <2>4. TabsOK' /\ RoomsOK'
    BY <2>2, <2>3, ClosedTabOK DEF TabsOK, RoomsOK, RoomsInv, RoomOK
  <2>5. \A u \in Tabs, q \in Rooms : Invited(tabs'[u], q) =>
          Invited(tabs[u], q) /\ tabs'[u] = tabs[u]
    BY <2>2 DEF Invited, ClosedTab, NoPass
  <2>6. OneContent'
    BY <2>5 DEF OneContent, RoomsInv
  <2>7. PassesFit'
    BY <2>3, <2>5 DEF PassesFit, RoomsInv, NoRoom
  <2> QED BY <2>4, <2>6, <2>7 DEF RoomsInv
<1> QED BY <1>4, <1>5, <1>6

LEMMA ServiceRestarts ==
  ASSUME RoomsInv, RestartService
  PROVE  RoomsInv'
<1>1. /\ rooms' = [q \in Rooms |-> rooms'[q]]
      /\ \A q \in Rooms : rooms'[q] = NoRoom
  BY DEF RestartService
<1>2. ASSUME NEW t \in Tabs
      PROVE  /\ TabOK(tabs'[t])
             /\ \A q \in Rooms : Invited(tabs'[t], q) =>
                  Invited(tabs[t], q) /\ tabs'[t].pass.content = tabs[t].pass.content
  <2>0. TabOK(tabs[t])
    BY DEF RoomsInv, TabsOK
  <2>1. CASE tabs[t].phase \in {"asks alone", "asks for a room"}
    BY <2>1, ClosedTabOK DEF RestartService, ClosedTab, NoPass, Invited
  <2>2. CASE /\ tabs[t].phase \notin {"asks alone", "asks for a room"}
             /\ tabs[t].pass.kind = "none"
    BY <2>0, <2>2 DEF RestartService
  <2>3. CASE /\ tabs[t].phase \notin {"asks alone", "asks for a room"}
             /\ tabs[t].pass.kind # "none"
    <3>1. PICK queue : tabs'[t] = [[tabs[t] EXCEPT !.restore = NoAnswer, !.queue = queue]
                                     EXCEPT !.pass.valid = FALSE]
      BY <2>3 DEF RestartService
    <3>2. PICK pass : pass = [tabs[t].pass EXCEPT !.valid = FALSE]
      OBVIOUS
    <3>3. /\ PassOK(pass) /\ pass.kind = tabs[t].pass.kind
          /\ pass.kind = "room" => pass.room = tabs[t].pass.room
          /\ pass.content = tabs[t].pass.content
      BY <2>0, <2>3, <3>2, ExpiredPass DEF TabOK
    <3>4. tabs'[t] = [tabs[t] EXCEPT !.restore = NoAnswer, !.queue = queue, !.pass = pass]
      BY <2>0, <3>1, <3>2 DEF TabOK, TabFields
    <3> QED BY <2>0, <3>3, <3>4 DEF TabOK, TabFields, Invited
  <2> QED BY <2>1, <2>2, <2>3
<1>3. tabs' = [t \in Tabs |-> tabs'[t]]
  BY DEF RestartService
<1>4. TabsOK' /\ RoomsOK'
  BY <1>1, <1>2, <1>3 DEF TabsOK, RoomsOK, RoomsInv, RoomOK
<1>5. OneContent'
  BY <1>2 DEF OneContent, RoomsInv
<1>6. PassesFit'
  BY <1>1 DEF PassesFit, NoRoom
<1> QED BY <1>4, <1>5, <1>6 DEF RoomsInv

LEMMA RoomsNext == RoomsInv /\ [BrowserNext]_browserVars => RoomsInv'
<1> SUFFICES ASSUME RoomsInv, [BrowserNext]_browserVars PROVE RoomsInv'
  OBVIOUS
<1>1. ASSUME UNCHANGED <<rooms, tabs>> PROVE RoomsInv'
  BY <1>1 DEF RoomsInv, TabsOK, RoomsOK, OneContent, PassesFit
<1>2. ASSUME NEW t \in Tabs, TabStep(t) PROVE RoomsInv'
  <2>1. CASE SendUpload(t) \/ StoreSave(t)
    BY <1>1, <2>1 DEF SendUpload, StoreSave, playVars
  <2> QED BY <1>2, <2>1, PlainTabSteps, GetARoom DEF TabStep
<1>3. CASE OtherUploads \/ OtherStep \/ ChangeRom \/ UNCHANGED browserVars
  BY <1>1, <1>3 DEF OtherUploads, OtherStep, ChangeRom, playVars, browserVars
<1> QED BY <1>2, <1>3, RoomSteps, ServiceRestarts DEF BrowserNext

\* The tabs that play in a room play one content.
THEOREM RoomsPlayOneGame == BrowserSpec => []OneGamePerRoom
<1>1. RoomsInv => OneGamePerRoom
  <2> SUFFICES ASSUME RoomsInv, NEW t \in Tabs, NEW u \in Tabs,
                      tabs[t].phase = "plays", tabs[t].page = "play-netplay",
                      tabs[u].phase = "plays", tabs[u].page = "play-netplay",
                      tabs[t].pass.room = tabs[u].pass.room
               PROVE  tabs[t].content = tabs[u].content
    BY DEF OneGamePerRoom
  <2>1. TabOK(tabs[t]) /\ TabOK(tabs[u])
    BY DEF RoomsInv, TabsOK
  <2>2. /\ tabs[t].content = tabs[t].pass.content /\ tabs[t].pass.kind = "room"
        /\ tabs[u].content = tabs[u].pass.content /\ tabs[u].pass.kind = "room"
        /\ tabs[t].pass.room \in Rooms
    BY <2>1 DEF TabOK, PassOK, NoPass
  <2> QED BY <2>2 DEF RoomsInv, OneContent, Invited
<1> QED BY <1>1, RoomsInit, RoomsNext, PTL DEF BrowserSpec

-----------------------------------------------------------------------------
(* What a save supersedes.  The store of a tab's uploads is SaveStore's, so    *)
(* that its invariant is the first part of this one.                           *)

Save == [hash : Hashes, informed : BOOLEAN]
Asking == {"closed", "asks alone", "asks for a room"}

\* What a tab names are revisions; and before it opens a page it has none and
\* no saves.
NamesRevisions(t) ==
  LET tab == tabs[t]
  IN  /\ tab.base \in {NoRevision} \cup DOMAIN revisions
      /\ tab.pass.kind = "solo" => tab.pass.base \in {NoRevision} \cup DOMAIN revisions
      /\ tab.restore = [rev |-> tab.restore.rev, at |-> tab.restore.at]
      /\ tab.restore.at = "sent" => tab.restore.rev \in DOMAIN revisions
      /\ tab.restored \in BOOLEAN
      /\ tab.phase \in Asking \cup {"holds"} =>
           /\ tab.base = NoRevision /\ ~tab.restored
           /\ tab.queue = <<>> /\ tab.restore.at = "none"
      /\ tab.phase \in Asking => tab.pass = NoPass

\* The base of the next upload was loaded or uploaded by the player, unless it
\* has not heard yet of the work there is.
BaseIsSeen(t) ==
  \/ BaseSent(t) \in {NoRevision} \cup tabs[t].memory
  \/ ~tabs[t].restored /\ CurrentStreamRevision(Stream) # NoRevision

QueueOK(t) ==
  LET tab == tabs[t]
  IN  /\ tab.queue \in Seq(Save)
      /\ \A i \in DOMAIN tab.queue : tab.queue[i].informed => tab.restored

\* The upload under way is of the first save of the queue.
UploadOK(t) ==
  push[t].pc # "idle" =>
    /\ tabs[t].queue # <<>>
    /\ push[t].stream = Stream
    /\ tabs[t].queue[1].informed => push[t].base \in {NoRevision} \cup tabs[t].memory

WorkOK(t) == NamesRevisions(t) /\ BaseIsSeen(t) /\ QueueOK(t) /\ UploadOK(t)

WorkInv == RoomsInv /\ StoreInv /\ CallsDecide /\ \A t \in Tabs : WorkOK(t)

-----------------------------------------------------------------------------
(* The store moves as SaveStore says, but that a restart ends all its calls.   *)

CallsEnd == UNCHANGED revisions /\ push' = [h \in Handlers |-> NoPush]

LEMMA StreamIsOne == ASSUME BrowserAssumption PROVE Stream \in Streams
BY DEF BrowserAssumption, Stream

LEMMA CallKept ==
  ASSUME TypeOK, NEW h \in Handlers, push' = [push EXCEPT ![h] = NoPush], UNCHANGED revisions
  PROVE  [Next]_storeVars
<1>1. CASE push[h].pc # "idle"
  BY <1>1 DEF Next, RequestEnds
<1>2. CASE push[h].pc = "idle"
  <2>1. push[h] = NoPush
    BY <1>2 DEF TypeOK, PushCall, PushPC
  <2>2. push' = push
    BY <2>1 DEF TypeOK
  <2> QED BY <2>2 DEF storeVars
<1> QED BY <1>1, <1>2

LEMMA StoreMoves ==
  ASSUME BrowserAssumption, WorkInv, [BrowserNext]_browserVars
  PROVE  [Next]_storeVars \/ CallsEnd
<1>a. TypeOK /\ Stream \in Streams /\ CurrentStreamRevision(Stream) \in {NoRevision} \cup DOMAIN revisions
  BY StreamIsOne, QueryReturnsCurrent DEF WorkInv, StoreInv, TypeOK, StreamRevisions
<1>b. /\ \A t \in Tabs : t \in Handlers
      /\ Agent \in Handlers /\ Web \in Devices
  BY DEF BrowserAssumption
<1>1. ASSUME UNCHANGED <<revisions, push>> PROVE [Next]_storeVars
  BY <1>1 DEF storeVars
<1>2. ASSUME NEW t \in Tabs, TabStep(t) PROVE [Next]_storeVars
  <2>1. CASE SendUpload(t)
    <3>1. BaseSent(t) \in {NoRevision} \cup DOMAIN revisions
      BY DEF WorkInv, WorkOK, NamesRevisions, BaseSent
    <3>2. /\ tabs[t].queue \in Seq(Save) /\ tabs[t].queue # <<>>
          /\ UploadRevision(t) <=> /\ push[t].pc = "idle"
                                   /\ \E s \in Streams, d \in Devices, hash \in Hashes,
                                         base \in {NoRevision} \cup DOMAIN revisions :
                                        PushSet(t, s, d, base, hash)
                                   /\ UNCHANGED revisions
      BY <2>1 DEF SendUpload, WorkInv, WorkOK, QueueOK, UploadRevision
    <3>a. Head(tabs[t].queue) \in Save
      BY <3>2, HeadTailProperties
    <3>3. Head(tabs[t].queue).hash \in Hashes
      BY <3>a DEF Save
    <3>4. UploadRevision(t)
      BY <1>a, <1>b, <2>1, <3>1, <3>2, <3>3 DEF SendUpload
    <3> QED BY <1>b, <3>4 DEF Next
  <2>2. CASE StoreSave(t)
    BY <1>b, <2>2 DEF StoreSave, Next
  <2>3. CASE UploadAnswered(t) \/ UploadFails(t) \/ CloseTab(t)
    BY <1>a, <1>b, <2>3, CallKept DEF UploadAnswered, UploadFails, CloseTab
  <2>4. CASE \/ AskToPlayAlone(t) \/ AskForRoom(t) \/ SignSoloPass(t) \/ ExpireSoloPass(t)
             \/ \E r \in Rooms : CreateRoom(t, r) \/ JoinRoom(t, r)
             \/ OpenSoloPage(t) \/ OpenRoomPage(t) \/ StartGame(t)
             \/ RestoreSave(t) \/ ServeSave(t) \/ ApplyRestore(t) \/ RestoreFails(t)
             \/ \E hash \in Hashes : EmitSave(t, hash)
    BY <1>1, <2>4
       DEF AskToPlayAlone, AskForRoom, Asks, SignSoloPass, ExpireSoloPass, CreateRoom, JoinRoom,
           OpenSoloPage, OpenRoomPage, StartGame, RestoreSave, ServeSave, ApplyRestore,
           RestoreFails, EmitSave
  <2> QED BY <1>2, <2>1, <2>2, <2>3, <2>4 DEF TabStep
<1>3. CASE RoomStep \/ ChangeRom \/ UNCHANGED browserVars
  BY <1>1, <1>3 DEF RoomStep, CloseRoom, ExpireRoom, LookAtRoom, HostByAPI, JoinByAPI, ChangeRom,
                    browserVars
<1>4. CASE OtherUploads
  BY <1>a, <1>b, <1>4 DEF OtherUploads, Next, UploadRevision
<1>5. CASE OtherStep
  BY <1>b, <1>5 DEF OtherStep, Next
<1>6. CASE RestartService
  BY <1>6 DEF RestartService, CallsEnd
<1> QED BY <1>2, <1>3, <1>4, <1>5, <1>6 DEF BrowserNext

LEMMA CallsEndKeeps ==
  ASSUME StoreInv, CallsDecide, CallsEnd
  PROVE  StoreInv' /\ CallsDecide'
<1>1. \A h \in Handlers : push'[h] = NoPush
  BY DEF CallsEnd
<1>2. TypeOK'
  BY DEF CallsEnd, StoreInv, TypeOK
<1>3. ReadsHold' /\ ResultHoldsContent' /\ CallsDecide'
  BY <1>1 DEF ReadsHold, CallReads, ResultHoldsContent, CallsDecide, CallDecides, NoPush
<1> QED BY <1>2, <1>3, TableKept DEF CallsEnd, StoreInv

\* There are more revisions and never again none.
Grows == /\ DOMAIN revisions \subseteq DOMAIN revisions'
         /\ CurrentStreamRevision(Stream) # NoRevision =>
              CurrentStreamRevision(Stream)' # NoRevision

LEMMA StoreGrows ==
  ASSUME BrowserAssumption, WorkInv, [BrowserNext]_browserVars
  PROVE  StoreInv' /\ CallsDecide' /\ Grows
<1>1. StoreInv' /\ CallsDecide'
  BY StoreMoves, CallsEndKeeps, NextStoreInv, CallsDecideStep DEF WorkInv
<1>2. ASSUME UNCHANGED revisions PROVE Grows
  <2>1. {i \in StreamRevisions(Stream) : revisions[i].status = "current"}'
          = {i \in StreamRevisions(Stream) : revisions[i].status = "current"}
    BY <1>2 DEF StreamRevisions
  <2>2. CurrentStreamRevision(Stream)' = CurrentStreamRevision(Stream)
    BY <2>1 DEF CurrentStreamRevision
  <2>3. DOMAIN revisions' = DOMAIN revisions
    BY <1>2
  <2> QED BY <2>2, <2>3 DEF Grows
<1>3. ASSUME NEW h \in Handlers, AddSaveRevision(h) PROVE Grows
  <2>1. StoreInv /\ TypeOK /\ Stream \in Streams
    BY StreamIsOne DEF WorkInv, StoreInv
  <2>2. /\ Len(revisions) \in Nat /\ DOMAIN revisions = 1..Len(revisions)
        /\ DOMAIN revisions' = 1..(Len(revisions) + 1)
    BY <1>3, <2>1, AddSaveRevisionEffect
  <2>3. CurrentStreamRevision(Stream)' \in {Len(revisions) + 1, CurrentStreamRevision(Stream)}
    BY <1>3, <2>1, HeadMoves
  <2> QED BY <2>2, <2>3 DEF Grows, NoRevision
<1> QED BY <1>1, <1>2, <1>3, StoreMoves, OnlyAddWrites DEF CallsEnd

-----------------------------------------------------------------------------
(* One tab                                                                     *)

\* The tab stays in its phase, or leaves the phases in which it has no pass
\* and no page, and its pass is still what it was.
SamePass(t) ==
  /\ tabs'[t].pass.kind = tabs[t].pass.kind
  /\ tabs[t].pass.kind = "solo" => tabs'[t].pass.base = tabs[t].pass.base
  /\ tabs[t].pass = NoPass => tabs'[t].pass = NoPass
  /\ tabs'[t].phase \in Asking => tabs[t].phase \in Asking
  /\ tabs'[t].phase \in Asking \cup {"holds"} =>
       /\ tabs[t].phase \in Asking \cup {"holds"}
       /\ tabs'[t].restore.at \in {tabs[t].restore.at, "none"}

SameUpload(t) ==
  push'[t].pc # "idle" =>
    /\ push[t].pc # "idle"
    /\ push'[t].stream = push[t].stream
    /\ push'[t].base = push[t].base

\* A tab whose saves and what is known of them stay what they are.
LEMMA SameWork ==
  ASSUME NEW t \in Tabs, WorkOK(t), Grows, SamePass(t), SameUpload(t),
         tabs'[t].base = tabs[t].base, tabs'[t].restored = tabs[t].restored,
         tabs'[t].memory = tabs[t].memory, tabs'[t].queue = tabs[t].queue,
         tabs'[t].restore = [rev |-> tabs'[t].restore.rev, at |-> tabs'[t].restore.at],
         tabs'[t].restore.at = "sent" => tabs'[t].restore.rev \in DOMAIN revisions'
  PROVE  WorkOK(t)'
<1>1. NamesRevisions(t)'
  BY DEF WorkOK, NamesRevisions, Grows, SamePass
<1>2. BaseSent(t)' = BaseSent(t)
  BY DEF BaseSent, SamePass
<1>3. BaseIsSeen(t)'
  BY <1>2 DEF WorkOK, BaseIsSeen, Grows
<1>4. QueueOK(t)' /\ UploadOK(t)'
  BY DEF WorkOK, QueueOK, UploadOK, SameUpload
<1> QED BY <1>1, <1>3, <1>4 DEF WorkOK

LEMMA OtherTab ==
  ASSUME NEW t \in Tabs, WorkOK(t), Grows, tabs'[t] = tabs[t], push'[t] = push[t]
  PROVE  WorkOK(t)'
<1>1. /\ tabs[t].restore.at = "sent" => tabs[t].restore.rev \in DOMAIN revisions'
      /\ tabs[t].restore = [rev |-> tabs[t].restore.rev, at |-> tabs[t].restore.at]
  BY DEF WorkOK, NamesRevisions, Grows
<1> QED BY <1>1, SameWork DEF SamePass, SameUpload

\* A tab that is closed has no saves, and its request has ended.
LEMMA NoWork ==
  ASSUME NEW t \in Tabs, tabs'[t].base = NoRevision, tabs'[t].restored \in BOOLEAN, ~tabs'[t].restored,
         tabs'[t].restore = NoAnswer, tabs'[t].queue = <<>>, tabs'[t].pass = NoPass,
         push'[t].pc = "idle"
  PROVE  WorkOK(t)'
<1>1. NamesRevisions(t)'
  BY DEF NamesRevisions, NoPass, NoAnswer
<1>2. BaseIsSeen(t)'
  BY DEF BaseIsSeen, BaseSent, NoPass
<1>3. QueueOK(t)' /\ UploadOK(t)'
  BY DEF QueueOK, UploadOK
<1> QED BY <1>1, <1>2, <1>3 DEF WorkOK

LEMMA TailOK ==
  ASSUME NEW queue \in Seq(Save), NEW known, queue # <<>>,
         \A i \in DOMAIN queue : queue[i].informed => known
  PROVE  /\ Tail(queue) \in Seq(Save)
         /\ \A i \in DOMAIN Tail(queue) : Tail(queue)[i].informed => known
<1>1. /\ Tail(queue) \in Seq(Save) /\ Len(Tail(queue)) = Len(queue) - 1
      /\ Len(queue) \in Nat /\ DOMAIN queue = 1..Len(queue)
  BY HeadTailProperties, LenProperties
<1>2. DOMAIN Tail(queue) = 1..(Len(queue) - 1)
  BY <1>1, LenProperties
<1>3. \A i \in 1..(Len(queue) - 1) : Tail(queue)[i] = queue[i + 1] /\ i + 1 \in 1..Len(queue)
  BY <1>1
<1> QED BY <1>1, <1>2, <1>3

LEMMA AppendOK ==
  ASSUME NEW queue \in Seq(Save), NEW known, NEW save \in Save, save.informed => known,
         \A i \in DOMAIN queue : queue[i].informed => known
  PROVE  /\ Append(queue, save) \in Seq(Save)
         /\ \A i \in DOMAIN Append(queue, save) : Append(queue, save)[i].informed => known
         /\ queue # <<>> => Append(queue, save) # <<>> /\ Append(queue, save)[1] = queue[1]
<1>1. /\ Append(queue, save) \in Seq(Save) /\ Len(queue) \in Nat /\ DOMAIN queue = 1..Len(queue)
      /\ DOMAIN Append(queue, save) = 1..(Len(queue) + 1)
      /\ \A i \in 1..(Len(queue) + 1) :
           Append(queue, save)[i] = IF i = Len(queue) + 1 THEN save ELSE queue[i]
  OBVIOUS
<1>2. queue # <<>> => Len(queue) # 0
  OBVIOUS
<1> QED BY <1>1, <1>2

LEMMA SilencedOK ==
  ASSUME NEW queue \in Seq(Save)
  PROVE  LET silenced == [i \in DOMAIN queue |-> [queue[i] EXCEPT !.informed = FALSE]]
         IN  /\ silenced \in Seq(Save)
             /\ \A i \in DOMAIN silenced : ~silenced[i].informed
             /\ queue # <<>> => silenced # <<>> /\ ~silenced[1].informed
<1> DEFINE silenced == [i \in DOMAIN queue |-> [queue[i] EXCEPT !.informed = FALSE]]
<1>1. /\ Len(queue) \in Nat /\ DOMAIN queue = 1..Len(queue)
      /\ queue \in [1..Len(queue) -> Save]
  BY LenProperties
<1>2. ASSUME NEW save \in Save
      PROVE  [save EXCEPT !.informed = FALSE] \in Save /\ ~[save EXCEPT !.informed = FALSE].informed
  BY DEF Save
<1>3. /\ silenced \in [1..Len(queue) -> Save]
      /\ \A i \in 1..Len(queue) : ~silenced[i].informed
  BY <1>1, <1>2
<1>4. silenced \in Seq(Save)
  BY <1>1, <1>3, SeqDef
<1>5. queue # <<>> => Len(queue) # 0
  OBVIOUS
<1>6. DOMAIN silenced = 1..Len(queue)
  BY <1>1
<1> HIDE DEF silenced
<1>7. queue # <<>> => 1 \in 1..Len(queue)
  BY <1>1, <1>5
<1>8. queue # <<>> => silenced # <<>>
  BY <1>6, <1>7
<1> QED BY <1>3, <1>4, <1>6, <1>7, <1>8 DEF silenced

\* What a step of a tab leaves alone.
LEMMA OnlyTheTab ==
  ASSUME BrowserAssumption, WorkInv, NEW t \in Tabs, TabStep(t), NEW u \in Tabs, u # t
  PROVE  \/ tabs'[u] = tabs[u] /\ push'[u] = push[u]
<1>0. /\ tabs = [v \in Tabs |-> tabs[v]] /\ t \in Handlers /\ u \in Handlers
      /\ push = [h \in Handlers |-> push[h]]
  BY DEF WorkInv, RoomsInv, TabsOK, StoreInv, TypeOK, BrowserAssumption
<1>1. tabs'[u] = tabs[u]
  <2>1. CASE SendUpload(t) \/ StoreSave(t)
    BY <2>1 DEF SendUpload, StoreSave, playVars
  <2>2. ASSUME NEW tab, Set(t, tab) PROVE tabs'[u] = tabs[u]
    BY <1>0, <2>2 DEF Set
  <2>3. ASSUME NEW hash \in Hashes, EmitSave(t, hash) PROVE tabs'[u] = tabs[u]
    BY <2>2, <2>3 DEF EmitSave
  <2>4. CASE \/ AskToPlayAlone(t) \/ AskForRoom(t) \/ SignSoloPass(t) \/ ExpireSoloPass(t)
             \/ OpenSoloPage(t) \/ OpenRoomPage(t) \/ StartGame(t)
    BY <2>2, <2>4 DEF AskToPlayAlone, AskForRoom, Asks, SignSoloPass, ExpireSoloPass, OpenSoloPage,
                      OpenRoomPage, StartGame
  <2>5. CASE \/ RestoreSave(t) \/ ServeSave(t) \/ ApplyRestore(t) \/ RestoreFails(t)
             \/ UploadAnswered(t) \/ UploadFails(t) \/ CloseTab(t)
    BY <2>2, <2>5 DEF RestoreSave, ServeSave, ApplyRestore, RestoreFails, UploadAnswered,
                      UploadFails, CloseTab
  <2>6. ASSUME NEW r \in Rooms, CreateRoom(t, r) \/ JoinRoom(t, r) PROVE tabs'[u] = tabs[u]
    BY <2>2, <2>6 DEF CreateRoom, JoinRoom
  <2> QED BY <2>1, <2>3, <2>4, <2>5, <2>6 DEF TabStep
<1>2. push'[u] = push[u]
  <2>1. CASE UNCHANGED push
    BY <2>1
  <2>2. CASE SendUpload(t) \/ StoreSave(t) \/ UploadAnswered(t) \/ UploadFails(t) \/ CloseTab(t)
    BY <1>0, <2>2 DEF SendUpload, StoreSave, PushSet, PushStep, PushReadCurrent, PushFindExisting,
       AddSaveRevision, PushReturns, UploadAnswered, UploadFails, CloseTab
  <2> QED BY <2>1, <2>2
          DEF TabStep, AskToPlayAlone, AskForRoom, Asks, SignSoloPass, ExpireSoloPass, CreateRoom,
              JoinRoom, OpenSoloPage, OpenRoomPage, StartGame, RestoreSave, ServeSave,
              ApplyRestore, RestoreFails, EmitSave
<1> QED BY <1>1, <1>2

\* The steps to a page and its game.
LEMMA WorkBegins ==
  ASSUME BrowserAssumption, WorkInv, Grows, NEW t \in Tabs,
         \/ AskToPlayAlone(t) \/ AskForRoom(t) \/ SignSoloPass(t) \/ ExpireSoloPass(t)
         \/ \E r \in Rooms : CreateRoom(t, r) \/ JoinRoom(t, r)
         \/ OpenSoloPage(t) \/ OpenRoomPage(t) \/ StartGame(t) \/ CloseTab(t)
  PROVE  WorkOK(t)'
<1>0. /\ tabs = [v \in Tabs |-> tabs[v]] /\ t \in Handlers
      /\ push = [h \in Handlers |-> push[h]] /\ TypeOK
      /\ WorkOK(t) /\ TabOK(tabs[t])
  BY DEF WorkInv, RoomsInv, TabsOK, StoreInv, TypeOK, BrowserAssumption
<1>a. CurrentStreamRevision(Stream) \in {NoRevision} \cup DOMAIN revisions
  BY <1>0, StreamIsOne, QueryReturnsCurrent DEF TypeOK, StreamRevisions
<1>b. /\ tabs[t].restore.at = "sent" => tabs[t].restore.rev \in DOMAIN revisions'
      /\ tabs[t].restore = [rev |-> tabs[t].restore.rev, at |-> tabs[t].restore.at]
  BY <1>0 DEF WorkOK, NamesRevisions, Grows
<1>1. CASE AskToPlayAlone(t) \/ AskForRoom(t)
  <2>1. PICK phase \in {"asks alone", "asks for a room"} : Asks(t, phase)
    BY <1>1 DEF AskToPlayAlone, AskForRoom
  <2>2. /\ tabs'[t] = [tabs[t] EXCEPT !.phase = phase, !.content = rom.row]
        /\ push'[t] = push[t] /\ tabs[t].phase = "closed"
    BY <1>0, <2>1 DEF Asks, Set
  <2> QED BY <1>0, <1>b, <2>2, SameWork DEF SamePass, SameUpload, TabOK, TabFields, Asking
<1>2. CASE SignSoloPass(t)
  <2>1. PICK pass : pass = [kind |-> "solo", valid |-> TRUE, content |-> tabs[t].content,
                            base |-> CurrentStreamRevision(Stream)]
    OBVIOUS
  <2>2. tabs'[t] = [tabs[t] EXCEPT !.phase = "holds", !.pass = pass]
    BY <1>0, <1>2, <2>1 DEF SignSoloPass, Set
  <2>3. pass.kind = "solo" /\ pass.base = CurrentStreamRevision(Stream)
    BY <2>1
  <2>4. /\ tabs[t].phase = "asks alone" /\ tabs[t].base = NoRevision
        /\ tabs[t].restored \in BOOLEAN /\ ~tabs[t].restored
        /\ tabs[t].queue = <<>> /\ tabs[t].restore.at = "none"
        /\ UNCHANGED <<revisions, push>>
    BY <1>0, <1>2 DEF SignSoloPass, WorkOK, NamesRevisions, Asking
  <2>5. /\ tabs'[t].phase = "holds" /\ tabs'[t].pass = pass /\ tabs'[t].base = NoRevision
        /\ tabs'[t].restored = tabs[t].restored /\ tabs'[t].restore = tabs[t].restore
        /\ tabs'[t].memory = tabs[t].memory /\ tabs'[t].queue = tabs[t].queue
    BY <1>0, <2>2, <2>4 DEF TabOK, TabFields
  <2>6. NamesRevisions(t)'
    BY <1>a, <1>b, <2>3, <2>4, <2>5 DEF NamesRevisions, Asking
  <2>7. (CurrentStreamRevision(Stream) # NoRevision) => (CurrentStreamRevision(Stream)' # NoRevision)
    BY DEF Grows
  <2>8. BaseSent(t)' = CurrentStreamRevision(Stream)
    BY <2>3, <2>5 DEF BaseSent
  <2>9. BaseIsSeen(t)'
    BY <2>4, <2>5, <2>7, <2>8 DEF BaseIsSeen
  <2>10. QueueOK(t)' /\ UploadOK(t)'
    BY <1>0, <2>4, <2>5 DEF WorkOK, QueueOK, UploadOK
  <2> QED BY <2>6, <2>9, <2>10 DEF WorkOK
<1>3. CASE ExpireSoloPass(t)
  <2>1. PICK pass : pass = [tabs[t].pass EXCEPT !.valid = FALSE]
    OBVIOUS
  <2>2. /\ tabs'[t] = [tabs[t] EXCEPT !.pass = pass] /\ push'[t] = push[t]
        /\ tabs[t].pass.kind = "solo"
    BY <1>0, <1>3, <2>1 DEF ExpireSoloPass, Set
  <2>3. pass.kind = "solo" /\ pass.base = tabs[t].pass.base
    BY <1>0, <2>1, <2>2, ExpiredPass DEF TabOK
  <2>4. /\ tabs'[t].phase = tabs[t].phase /\ tabs'[t].pass = pass
        /\ tabs'[t].base = tabs[t].base /\ tabs'[t].restored = tabs[t].restored
        /\ tabs'[t].memory = tabs[t].memory /\ tabs'[t].queue = tabs[t].queue
        /\ tabs'[t].restore = tabs[t].restore
    BY <1>0, <2>2 DEF TabOK, TabFields
  <2>5. SamePass(t) /\ SameUpload(t)
    BY <2>2, <2>3, <2>4 DEF SamePass, SameUpload, NoPass
  <2> QED BY <1>0, <1>b, <2>4, <2>5, SameWork
<1>4. ASSUME NEW r \in Rooms, tabs[t].phase = "asks for a room", UNCHANGED <<revisions, push>>,
             Set(t, RoomPass(t, r))
      PROVE  WorkOK(t)'
  <2>1. PICK pass : pass = [kind |-> "room", valid |-> TRUE, room |-> r,
                            content |-> tabs[t].content]
    OBVIOUS
  <2>2. tabs'[t] = [tabs[t] EXCEPT !.phase = "holds", !.pass = pass]
    BY <1>0, <1>4, <2>1 DEF RoomPass, Set
  <2>3. pass.kind = "room"
    BY <2>1
  <2>4. /\ tabs[t].base = NoRevision
        /\ tabs[t].restored \in BOOLEAN /\ ~tabs[t].restored
        /\ tabs[t].queue = <<>> /\ tabs[t].restore.at = "none"
    BY <1>0, <1>4 DEF WorkOK, NamesRevisions, Asking
  <2>5. /\ tabs'[t].phase = "holds" /\ tabs'[t].pass = pass /\ tabs'[t].base = NoRevision
        /\ tabs'[t].restored = tabs[t].restored /\ tabs'[t].restore = tabs[t].restore
        /\ tabs'[t].memory = tabs[t].memory /\ tabs'[t].queue = tabs[t].queue
    BY <1>0, <2>2, <2>4 DEF TabOK, TabFields
  <2>6. NamesRevisions(t)'
    BY <1>b, <2>3, <2>4, <2>5 DEF NamesRevisions, Asking
  <2>9. BaseIsSeen(t)'
    BY <2>3, <2>5 DEF BaseIsSeen, BaseSent
  <2>10. QueueOK(t)' /\ UploadOK(t)'
    BY <1>0, <1>4, <2>5 DEF WorkOK, QueueOK, UploadOK
  <2> QED BY <2>6, <2>9, <2>10 DEF WorkOK
<1>5. ASSUME Set(t, ClosedTab), \/ push' = [push EXCEPT ![t] = NoPush]
                                \/ tabs[t].queue = <<>> /\ UNCHANGED push
      PROVE  WorkOK(t)'
  <2>1. tabs'[t] = ClosedTab
    BY <1>0, <1>5 DEF Set
  <2>2. push'[t].pc = "idle"
    BY <1>0, <1>5 DEF WorkOK, UploadOK, NoPush
  <2>3. ClosedTab.restored \in BOOLEAN /\ ~ClosedTab.restored
    BY DEF ClosedTab
  <2>4. /\ ClosedTab.base = NoRevision /\ ClosedTab.restore = NoAnswer
        /\ ClosedTab.queue = <<>> /\ ClosedTab.pass = NoPass
    BY DEF ClosedTab
  <2> QED BY <2>1, <2>2, <2>3, <2>4, NoWork
<1>6. ASSUME NEW r \in Rooms, CreateRoom(t, r) \/ JoinRoom(t, r) PROVE WorkOK(t)'
  <2>1. tabs[t].phase = "asks for a room" /\ tabs[t].queue = <<>>
    BY <1>0, <1>6 DEF CreateRoom, JoinRoom, WorkOK, NamesRevisions, Asking
  <2> QED BY <1>4, <1>5, <1>6, <2>1 DEF CreateRoom, JoinRoom
<1>7. CASE OpenSoloPage(t)
  <2>1. /\ tabs'[t] = [tabs[t] EXCEPT !.phase = "loads", !.page = "play",
                            !.base = IF tabs[t].pass.kind = "solo"
                                       THEN tabs[t].pass.base ELSE NoRevision]
        /\ tabs[t].phase = "holds" /\ UNCHANGED <<revisions, push>>
    BY <1>0, <1>7 DEF OpenSoloPage, Set
  <2>2. /\ tabs'[t].phase = "loads" /\ tabs'[t].pass = tabs[t].pass
        /\ tabs'[t].base = IF tabs[t].pass.kind = "solo" THEN tabs[t].pass.base ELSE NoRevision
        /\ tabs'[t].restored = tabs[t].restored /\ tabs'[t].restore = tabs[t].restore
        /\ tabs'[t].memory = tabs[t].memory /\ tabs'[t].queue = tabs[t].queue
    BY <1>0, <2>1 DEF TabOK, TabFields
  <2>3. tabs[t].base = NoRevision
    BY <1>0, <2>1 DEF WorkOK, NamesRevisions, Asking
  <2>4. BaseSent(t)' = BaseSent(t)
    BY <2>2, <2>3 DEF BaseSent
  <2>5. BaseIsSeen(t)'
    BY <1>0, <2>2, <2>4 DEF BaseIsSeen, WorkOK, Grows
  <2>6. NamesRevisions(t)'
    BY <1>0, <1>b, <2>1, <2>2 DEF WorkOK, NamesRevisions, Asking
  <2>7. QueueOK(t)' /\ UploadOK(t)'
    BY <1>0, <2>1, <2>2 DEF WorkOK, QueueOK, UploadOK
  <2> QED BY <2>5, <2>6, <2>7 DEF WorkOK
<1>8. CASE OpenRoomPage(t)
  <2>1. /\ tabs'[t] = [tabs[t] EXCEPT !.phase = "loads", !.page = "play-netplay"]
        /\ push'[t] = push[t]
    BY <1>0, <1>8 DEF OpenRoomPage, Set
  <2> QED BY <1>0, <1>b, <2>1, SameWork DEF SamePass, SameUpload, TabOK, TabFields, Asking
<1>9. CASE StartGame(t)
  <2>1. PICK at \in {"asked", "none"} :
          tabs'[t] = [tabs[t] EXCEPT !.phase = "plays", !.content = rom.file, !.restore.at = at]
    BY <1>0, <1>9 DEF StartGame, Set
  <2>2. /\ tabs'[t].phase = "plays" /\ tabs'[t].pass = tabs[t].pass /\ tabs'[t].base = tabs[t].base
        /\ tabs'[t].restored = tabs[t].restored /\ tabs'[t].memory = tabs[t].memory
        /\ tabs'[t].queue = tabs[t].queue /\ tabs'[t].restore = [tabs[t].restore EXCEPT !.at = at]
    BY <1>0, <2>1 DEF TabOK, TabFields
  <2>3. tabs'[t].restore = [rev |-> tabs[t].restore.rev, at |-> at]
    BY <1>b, <2>2
  <2>4. SamePass(t) /\ SameUpload(t)
    BY <1>9, <2>2 DEF StartGame, SamePass, SameUpload, Asking
  <2> QED BY <1>0, <2>2, <2>3, <2>4, SameWork
<1>10. CASE CloseTab(t)
  BY <1>5, <1>10 DEF CloseTab
<1> QED BY <1>1, <1>2, <1>3, <1>6, <1>7, <1>8, <1>9, <1>10

\* The steps of a game and its saves.
LEMMA WorkGoesOn ==
  ASSUME BrowserAssumption, WorkInv, Grows, StoreInv', NEW t \in Tabs,
         \/ RestoreSave(t) \/ ServeSave(t) \/ ApplyRestore(t) \/ RestoreFails(t)
         \/ \E hash \in Hashes : EmitSave(t, hash)
         \/ SendUpload(t) \/ StoreSave(t) \/ UploadAnswered(t) \/ UploadFails(t)
  PROVE  WorkOK(t)'
<1>0. /\ tabs = [v \in Tabs |-> tabs[v]] /\ t \in Handlers
      /\ push = [h \in Handlers |-> push[h]] /\ TypeOK
      /\ WorkOK(t) /\ TabOK(tabs[t])
  BY DEF WorkInv, RoomsInv, TabsOK, StoreInv, TypeOK, BrowserAssumption
<1>a. \/ CurrentStreamRevision(Stream) = NoRevision
      \/ CurrentStreamRevision(Stream) \in DOMAIN revisions
  BY <1>0, StreamIsOne, QueryReturnsCurrent DEF TypeOK, StreamRevisions
<1>b. /\ tabs[t].restore.at = "sent" => tabs[t].restore.rev \in DOMAIN revisions'
      /\ tabs[t].restore = [rev |-> tabs[t].restore.rev, at |-> tabs[t].restore.at]
      /\ tabs[t].queue \in Seq(Save)
      /\ \A i \in DOMAIN tabs[t].queue : tabs[t].queue[i].informed => tabs[t].restored
  BY <1>0 DEF WorkOK, NamesRevisions, QueueOK, Grows
<1>c. \A a : LET tab == [tabs[t] EXCEPT !.restore = a]
             IN  /\ tab.phase = tabs[t].phase /\ tab.pass = tabs[t].pass
                 /\ tab.base = tabs[t].base /\ tab.restored = tabs[t].restored
                 /\ tab.memory = tabs[t].memory /\ tab.queue = tabs[t].queue
                 /\ tab.restore = a
  BY <1>0 DEF TabOK, TabFields
<1>d. ASSUME NEW a, tabs'[t] = [tabs[t] EXCEPT !.restore = a], push'[t] = push[t],
             a = [rev |-> a.rev, at |-> a.at], a.at = "sent" => a.rev \in DOMAIN revisions',
             tabs[t].phase \notin Asking \cup {"holds"}
      PROVE  WorkOK(t)'
  <2>1. SamePass(t) /\ SameUpload(t)
    BY <1>c, <1>d DEF SamePass, SameUpload
  <2>2. /\ tabs'[t].base = tabs[t].base /\ tabs'[t].restored = tabs[t].restored
        /\ tabs'[t].memory = tabs[t].memory /\ tabs'[t].queue = tabs[t].queue
        /\ tabs'[t].restore = a
    BY <1>c, <1>d
  <2> QED BY <1>0, <1>d, <2>1, <2>2, SameWork
<1>1. CASE RestoreSave(t)
  <2>1. PICK a : a = [tabs[t].restore EXCEPT !.at = "asked"]
    OBVIOUS
  <2>2. tabs'[t] = [tabs[t] EXCEPT !.restore = a] /\ push'[t] = push[t]
    BY <1>0, <1>1, <2>1 DEF RestoreSave, Set
  <2>3. a = [rev |-> tabs[t].restore.rev, at |-> "asked"]
    BY <1>b, <2>1
  <2> QED BY <1>1, <1>d, <2>2, <2>3 DEF RestoreSave, Asking
<1>2. CASE ServeSave(t) /\ CurrentStreamRevision(Stream) # NoRevision
  <2>1. PICK a : a = [rev |-> CurrentStreamRevision(Stream), at |-> "sent"]
    OBVIOUS
  <2>2. tabs'[t] = [tabs[t] EXCEPT !.restore = a] /\ push'[t] = push[t] /\ revisions' = revisions
    BY <1>0, <1>2, <2>1 DEF ServeSave, Set
  <2>3. a.rev \in DOMAIN revisions' /\ a = [rev |-> a.rev, at |-> a.at]
    BY <1>a, <1>2, <2>1, <2>2
  <2>4. tabs[t].phase \notin Asking \cup {"holds"}
    BY <1>0, <1>2 DEF ServeSave, WorkOK, NamesRevisions
  <2> QED BY <1>d, <2>1, <2>2, <2>3, <2>4
<1>3. CASE ServeSave(t) /\ CurrentStreamRevision(Stream) = NoRevision
  <2>1. /\ tabs'[t] = [tabs[t] EXCEPT !.restore = NoAnswer, !.restored = TRUE]
        /\ push' = push /\ tabs[t].restore.at = "asked"
    BY <1>0, <1>3 DEF ServeSave, Set
  <2>2. /\ tabs'[t].phase = tabs[t].phase /\ tabs'[t].pass = tabs[t].pass
        /\ tabs'[t].base = tabs[t].base /\ tabs'[t].restored
        /\ tabs'[t].memory = tabs[t].memory /\ tabs'[t].queue = tabs[t].queue
        /\ tabs'[t].restore = NoAnswer
    BY <1>0, <2>1 DEF TabOK, TabFields
  <2>3. tabs[t].phase \notin Asking \cup {"holds"}
    BY <1>0, <1>3 DEF ServeSave, WorkOK, NamesRevisions
  <2>4. BaseSent(t)' = BaseSent(t)
    BY <2>2 DEF BaseSent
  <2>5. BaseIsSeen(t)'
    BY <1>0, <1>3, <2>2, <2>4 DEF WorkOK, BaseIsSeen
  <2>6. NamesRevisions(t)'
    BY <1>0, <2>1, <2>2, <2>3 DEF WorkOK, NamesRevisions, NoAnswer, Grows
  <2>7. QueueOK(t)' /\ UploadOK(t)'
    BY <1>0, <2>1, <2>2 DEF WorkOK, QueueOK, UploadOK
  <2> QED BY <2>5, <2>6, <2>7 DEF WorkOK
<1>4. CASE ApplyRestore(t)
  <2>1. PICK queue : queue = [i \in DOMAIN tabs[t].queue |->
                                [tabs[t].queue[i] EXCEPT !.informed = FALSE]]
    OBVIOUS
  <2>2. PICK rev : rev = tabs[t].restore.rev
    OBVIOUS
  <2>3. /\ tabs'[t] = [tabs[t] EXCEPT !.base = rev, !.restored = TRUE, !.memory = {rev},
                                      !.restore = NoAnswer, !.queue = queue]
        /\ push' = push /\ tabs[t].restore.at = "sent"
    BY <1>0, <1>4, <2>1, <2>2 DEF ApplyRestore, Set, TabOK, TabFields
  <2>4. /\ tabs'[t].phase = tabs[t].phase /\ tabs'[t].pass = tabs[t].pass
        /\ tabs'[t].base = rev /\ tabs'[t].restored
        /\ tabs'[t].memory = {rev} /\ tabs'[t].queue = queue
        /\ tabs'[t].restore = NoAnswer
    BY <1>0, <2>3 DEF TabOK, TabFields
  <2>5. rev \in DOMAIN revisions' /\ tabs[t].phase \notin Asking \cup {"holds"}
    BY <1>0, <1>b, <2>2, <2>3 DEF WorkOK, NamesRevisions
  <2>6. NamesRevisions(t)'
    BY <1>0, <2>4, <2>5 DEF WorkOK, NamesRevisions, NoAnswer, Grows
  <2>7. BaseIsSeen(t)'
    <3>1. rev # NoRevision
      BY <2>5 DEF StoreInv, TypeOK, NoRevision
    <3> QED BY <2>4, <3>1 DEF BaseIsSeen, BaseSent
  <2>8. /\ queue \in Seq(Save) /\ \A i \in DOMAIN queue : ~queue[i].informed
        /\ tabs[t].queue # <<>> => queue # <<>> /\ ~queue[1].informed
    BY <1>b, <2>1, SilencedOK
  <2>9. QueueOK(t)' /\ UploadOK(t)'
    BY <1>0, <2>3, <2>4, <2>8 DEF WorkOK, QueueOK, UploadOK
  <2> QED BY <2>6, <2>7, <2>9 DEF WorkOK
<1>5. CASE RestoreFails(t)
  <2>1. tabs'[t] = [tabs[t] EXCEPT !.restore = NoAnswer] /\ push'[t] = push[t]
    BY <1>0, <1>5 DEF RestoreFails, Set
  <2>2. NoAnswer = [rev |-> NoAnswer.rev, at |-> NoAnswer.at] /\ NoAnswer.at # "sent"
    BY DEF NoAnswer
  <2>3. tabs[t].phase \notin Asking \cup {"holds"}
    BY <1>0, <1>5 DEF RestoreFails, WorkOK, NamesRevisions
  <2> QED BY <1>d, <2>1, <2>2, <2>3
<1>e. ASSUME NEW queue \in Seq(Save), tabs'[t] = [tabs[t] EXCEPT !.queue = queue],
             tabs[t].phase \notin Asking \cup {"holds"}, UNCHANGED revisions,
             \A i \in DOMAIN queue : queue[i].informed => tabs[t].restored,
             push'[t].pc # "idle" => /\ push'[t] = push[t] /\ tabs[t].queue # <<>>
                                     /\ queue # <<>> /\ queue[1] = tabs[t].queue[1]
      PROVE  WorkOK(t)'
  <2>1. /\ tabs'[t].phase = tabs[t].phase /\ tabs'[t].pass = tabs[t].pass
        /\ tabs'[t].base = tabs[t].base /\ tabs'[t].restored = tabs[t].restored
        /\ tabs'[t].memory = tabs[t].memory /\ tabs'[t].queue = queue
        /\ tabs'[t].restore = tabs[t].restore
    BY <1>0, <1>e DEF TabOK, TabFields
  <2>2. NamesRevisions(t)'
    BY <1>0, <1>b, <1>e, <2>1 DEF WorkOK, NamesRevisions
  <2>3. BaseSent(t)' = BaseSent(t)
    BY <2>1 DEF BaseSent
  <2>4. BaseIsSeen(t)'
    BY <1>0, <2>1, <2>3 DEF WorkOK, BaseIsSeen, Grows
  <2>5. QueueOK(t)' /\ UploadOK(t)'
    BY <1>0, <1>e, <2>1 DEF WorkOK, QueueOK, UploadOK
  <2> QED BY <2>2, <2>4, <2>5 DEF WorkOK
<1>6. ASSUME NEW hash \in Hashes, EmitSave(t, hash) PROVE WorkOK(t)'
  <2>1. PICK save : save = [hash |-> hash, informed |-> tabs[t].restored]
    OBVIOUS
  <2>2. /\ tabs'[t] = [tabs[t] EXCEPT !.queue = Append(tabs[t].queue, save)]
        /\ push' = push /\ revisions' = revisions /\ tabs[t].phase = "plays"
    BY <1>0, <1>6, <2>1 DEF EmitSave, Set
  <2>a. tabs[t].restored \in BOOLEAN
    BY <1>0 DEF WorkOK, NamesRevisions
  <2>3. save \in Save /\ (save.informed => tabs[t].restored)
    BY <2>1, <2>a DEF Save
  <2>4. PICK queue : queue = Append(tabs[t].queue, save)
    OBVIOUS
  <2>5. /\ queue \in Seq(Save)
        /\ \A i \in DOMAIN queue : queue[i].informed => tabs[t].restored
        /\ tabs[t].queue # <<>> => queue # <<>> /\ queue[1] = tabs[t].queue[1]
    BY <1>b, <2>3, <2>4, AppendOK
  <2>6. push[t].pc # "idle" => tabs[t].queue # <<>>
    BY <1>0 DEF WorkOK, UploadOK
  <2> QED BY <1>e, <2>2, <2>4, <2>5, <2>6 DEF Asking
<1>7. CASE SendUpload(t)
  <2>1. /\ tabs' = tabs /\ revisions' = revisions /\ tabs[t].queue # <<>>
        /\ push'[t].stream = Stream /\ push'[t].base = BaseSent(t)
    BY <1>0, <1>7 DEF SendUpload, PushSet, playVars
  <2>2. 1 \in DOMAIN tabs[t].queue
    BY <1>b, <2>1, LenProperties, EmptySeq
  <2>3. UploadOK(t)'
    BY <1>0, <1>b, <2>1, <2>2 DEF UploadOK, WorkOK, BaseIsSeen
  <2>4. NamesRevisions(t)' /\ QueueOK(t)'
    BY <1>0, <1>b, <2>1 DEF WorkOK, NamesRevisions, QueueOK
  <2>5. BaseSent(t)' = BaseSent(t)
    BY <2>1 DEF BaseSent
  <2>6. BaseIsSeen(t)'
    BY <1>0, <2>1, <2>5 DEF WorkOK, BaseIsSeen, Grows
  <2> QED BY <2>3, <2>4, <2>6 DEF WorkOK
<1>8. CASE StoreSave(t)
  <2>1. tabs' = tabs
    BY <1>8 DEF StoreSave, playVars
  <2>2. push[t].pc # "idle" /\ push'[t].stream = push[t].stream /\ push'[t].base = push[t].base
    <3>1. /\ push[t].pc # "idle" /\ push[t] \in PushCall
      BY <1>0, <1>8, PushTyped DEF StoreSave, PushStep, PushReadCurrent, PushFindExisting, AddSaveRevision
    <3>2. CASE PushReadCurrent(t)
      BY <1>0, <3>1, <3>2 DEF PushReadCurrent, PushReturns, PushCall
    <3>3. CASE PushFindExisting(t)
      <4>1. \/ push' = [push EXCEPT ![t].pc = "add"]
            \/ \E i, b : PushReturns(t, i, b)
        BY <3>3 DEF PushFindExisting
      <4>2. ASSUME NEW i, NEW b, PushReturns(t, i, b)
            PROVE  push'[t].stream = push[t].stream /\ push'[t].base = push[t].base
        BY <1>0, <3>1, <4>2 DEF PushReturns, PushCall
      <4> QED BY <1>0, <3>1, <4>1, <4>2 DEF PushCall
    <3>4. CASE AddSaveRevision(t)
      BY <1>0, <3>1, <3>4 DEF AddSaveRevision, PushReturns, PushCall
    <3> QED BY <1>8, <3>1, <3>2, <3>3, <3>4 DEF StoreSave, PushStep
  <2>3. SamePass(t) /\ SameUpload(t)
    BY <2>1, <2>2 DEF SamePass, SameUpload
  <2> QED BY <1>0, <1>b, <2>1, <2>3, SameWork
<1>9. CASE UploadAnswered(t)
  <2>1. PICK rev : rev = push[t].result
    OBVIOUS
  <2>2. /\ tabs'[t] = [tabs[t] EXCEPT !.queue = Tail(@), !.base = rev, !.last = rev,
                                      !.memory = @ \cup {rev}]
        /\ push'[t] = NoPush /\ revisions' = revisions /\ push[t].pc = "done"
        /\ tabs[t].queue # <<>>
    BY <1>0, <1>9, <2>1 DEF UploadAnswered, Set
  <2>3. /\ tabs'[t].phase = tabs[t].phase /\ tabs'[t].pass = tabs[t].pass
        /\ tabs'[t].base = rev /\ tabs'[t].restored = tabs[t].restored
        /\ tabs'[t].memory = tabs[t].memory \cup {rev} /\ tabs'[t].queue = Tail(tabs[t].queue)
        /\ tabs'[t].restore = tabs[t].restore
    BY <1>0, <2>2 DEF TabOK, TabFields
  <2>4. rev \in DOMAIN revisions
    BY <1>0, <2>1, <2>2 DEF WorkInv, StoreInv, ResultHoldsContent, StreamRevisions
  <2>a. rev # NoRevision
    BY <1>0, <2>4 DEF TypeOK, NoRevision
  <2>5. tabs[t].phase \notin Asking \cup {"holds"}
    BY <1>0, <2>2 DEF WorkOK, NamesRevisions
  <2>6. NamesRevisions(t)'
    BY <1>0, <1>b, <2>2, <2>3, <2>4, <2>5 DEF WorkOK, NamesRevisions
  <2>7. BaseIsSeen(t)'
    BY <2>3, <2>a DEF BaseIsSeen, BaseSent
  <2>8. QueueOK(t)'
    BY <1>b, <2>2, <2>3, TailOK DEF QueueOK
  <2>9. UploadOK(t)'
    BY <2>2 DEF UploadOK, NoPush
  <2> QED BY <2>6, <2>7, <2>8, <2>9 DEF WorkOK
<1>10. CASE UploadFails(t)
  <2>1. PICK queue : queue = Tail(tabs[t].queue)
    OBVIOUS
  <2>2. /\ tabs'[t] = [tabs[t] EXCEPT !.queue = queue]
        /\ push'[t] = NoPush /\ revisions' = revisions /\ tabs[t].queue # <<>>
    BY <1>0, <1>10, <2>1 DEF UploadFails, Set
  <2>3. queue \in Seq(Save) /\ \A i \in DOMAIN queue : queue[i].informed => tabs[t].restored
    BY <1>b, <2>1, <2>2, TailOK
  <2>4. tabs[t].phase \notin Asking \cup {"holds"} /\ NoPush.pc = "idle"
    BY <1>0, <2>2 DEF WorkOK, NamesRevisions, NoPush
  <2> QED BY <1>e, <2>2, <2>3, <2>4
<1> QED BY <1>1, <1>2, <1>3, <1>4, <1>5, <1>6, <1>7, <1>8, <1>9, <1>10

LEMMA WorkRestarts ==
  ASSUME BrowserAssumption, WorkInv, Grows, RestartService, NEW t \in Tabs
  PROVE  WorkOK(t)'
<1>0. WorkOK(t) /\ TabOK(tabs[t]) /\ t \in Handlers
  BY DEF WorkInv, RoomsInv, TabsOK, BrowserAssumption
<1>1. push'[t] = NoPush /\ NoPush.pc = "idle" /\ revisions' = revisions
  BY <1>0 DEF RestartService, NoPush
<1>2. CASE tabs[t].phase \in {"asks alone", "asks for a room"}
  <2>1. tabs'[t] = ClosedTab
    BY <1>2 DEF RestartService
  <2>2. ClosedTab.restored \in BOOLEAN /\ ~ClosedTab.restored
    BY DEF ClosedTab
  <2>3. /\ ClosedTab.base = NoRevision /\ ClosedTab.restore = NoAnswer
        /\ ClosedTab.queue = <<>> /\ ClosedTab.pass = NoPass
    BY DEF ClosedTab
  <2> QED BY <1>1, <2>1, <2>2, <2>3, NoWork
<1>3. CASE /\ tabs[t].phase \notin {"asks alone", "asks for a room"}
           /\ tabs[t].pass.kind = "none"
  <2>1. tabs'[t] = tabs[t]
    BY <1>3 DEF RestartService
  <2>2. /\ tabs[t].restore.at = "sent" => tabs[t].restore.rev \in DOMAIN revisions'
        /\ tabs[t].restore = [rev |-> tabs[t].restore.rev, at |-> tabs[t].restore.at]
    BY <1>0, <1>1 DEF WorkOK, NamesRevisions
  <2>3. SamePass(t) /\ SameUpload(t)
    BY <1>1, <2>1 DEF SamePass, SameUpload
  <2> QED BY <1>0, <2>1, <2>2, <2>3, SameWork
<1>4. CASE /\ tabs[t].phase \notin {"asks alone", "asks for a room"}
           /\ tabs[t].pass.kind # "none"
  <2>1. PICK queue : queue = IF push[t].pc = "idle" THEN tabs[t].queue ELSE Tail(tabs[t].queue)
    OBVIOUS
  <2>2. tabs'[t] = [[tabs[t] EXCEPT !.restore = NoAnswer, !.queue = queue]
                      EXCEPT !.pass.valid = FALSE]
    BY <1>0, <1>4, <2>1 DEF RestartService, TabOK, TabFields
  <2>3. PICK pass : pass = [tabs[t].pass EXCEPT !.valid = FALSE]
    OBVIOUS
  <2>4. pass.kind = tabs[t].pass.kind /\ (pass.kind = "solo" => pass.base = tabs[t].pass.base)
    BY <1>0, <1>4, <2>3, ExpiredPass DEF TabOK
  <2>5. tabs'[t] = [tabs[t] EXCEPT !.restore = NoAnswer, !.queue = queue, !.pass = pass]
    BY <1>0, <2>2, <2>3 DEF TabOK, TabFields
  <2>6. /\ tabs'[t].phase = tabs[t].phase /\ tabs'[t].pass = pass
        /\ tabs'[t].base = tabs[t].base /\ tabs'[t].restored = tabs[t].restored
        /\ tabs'[t].memory = tabs[t].memory /\ tabs'[t].queue = queue
        /\ tabs'[t].restore = NoAnswer
    BY <1>0, <2>5 DEF TabOK, TabFields
  <2>7. tabs[t].queue \in Seq(Save)
        /\ \A i \in DOMAIN tabs[t].queue : tabs[t].queue[i].informed => tabs[t].restored
    BY <1>0 DEF WorkOK, QueueOK
  <2>8. /\ queue \in Seq(Save) /\ \A i \in DOMAIN queue : queue[i].informed => tabs[t].restored
        /\ tabs[t].queue = <<>> => queue = <<>>
    <3>1. CASE push[t].pc = "idle"
      BY <2>1, <2>7, <3>1
    <3>2. CASE push[t].pc # "idle"
      <4>1. tabs[t].queue # <<>>
        BY <1>0, <3>2 DEF WorkOK, UploadOK
      <4> QED BY <2>1, <2>7, <3>2, <4>1, TailOK
    <3> QED BY <3>1, <3>2
  <2>9. tabs[t].phase \notin Asking
    <3>1. NoPass.kind = "none"
      BY DEF NoPass
    <3>2. NamesRevisions(t)
      BY <1>0 DEF WorkOK
    <3> QED BY <1>4, <3>1, <3>2 DEF NamesRevisions
  <2>10. NamesRevisions(t)'
    BY <1>0, <1>1, <2>4, <2>6, <2>8, <2>9 DEF WorkOK, NamesRevisions, NoAnswer
  <2>11. BaseSent(t)' = BaseSent(t)
    BY <2>4, <2>6 DEF BaseSent
  <2>12. BaseIsSeen(t)'
    BY <1>0, <2>6, <2>11 DEF WorkOK, BaseIsSeen, Grows
  <2>13. QueueOK(t)' /\ UploadOK(t)'
    BY <1>1, <2>6, <2>8 DEF QueueOK, UploadOK
  <2> QED BY <2>10, <2>12, <2>13 DEF WorkOK
<1> QED BY <1>2, <1>3, <1>4

LEMMA WorkInit ==
  ASSUME BrowserAssumption, BrowserInit
  PROVE  WorkInv
<1>1. RoomsInv /\ StoreInv
  BY RoomsInit, InitStoreInv DEF BrowserInit
<1>2. CallsDecide
  BY DEF BrowserInit, Init, CallsDecide, CallDecides, NoPush
<1>3. ASSUME NEW t \in Tabs PROVE WorkOK(t)
  <2>1. tabs[t] = ClosedTab
    BY DEF BrowserInit
  <2>2. ClosedTab.restored \in BOOLEAN /\ ~ClosedTab.restored
    BY DEF ClosedTab
  <2>3. /\ ClosedTab.base = NoRevision /\ ClosedTab.restore = NoAnswer
        /\ ClosedTab.queue = <<>> /\ ClosedTab.pass = NoPass
    BY DEF ClosedTab
  <2>4. t \in Handlers => push[t].pc = "idle"
    BY DEF BrowserInit, Init, NoPush
  <2>5. NamesRevisions(t) /\ BaseIsSeen(t) /\ QueueOK(t)
    BY <2>1, <2>2, <2>3 DEF NamesRevisions, NoPass, NoAnswer, BaseIsSeen, BaseSent, QueueOK
  <2>6. UploadOK(t)
    BY <2>4 DEF BrowserAssumption, UploadOK
  <2> QED BY <2>5, <2>6 DEF WorkOK
<1> QED BY <1>1, <1>2, <1>3 DEF WorkInv

LEMMA WorkNext ==
  ASSUME BrowserAssumption, WorkInv, [BrowserNext]_browserVars
  PROVE  WorkInv'
<1>1. RoomsInv' /\ StoreInv' /\ CallsDecide' /\ Grows
  BY RoomsNext, StoreGrows DEF WorkInv
<1>2. ASSUME NEW t \in Tabs, TabStep(t), NEW u \in Tabs PROVE WorkOK(u)'
  <2>1. CASE u = t
    BY <1>1, <1>2, <2>1, WorkBegins, WorkGoesOn DEF TabStep
  <2>2. CASE u # t
    <3>1. tabs'[u] = tabs[u] /\ push'[u] = push[u] /\ WorkOK(u)
      BY <1>2, <2>2, OnlyTheTab DEF WorkInv
    <3> QED BY <1>1, <3>1, OtherTab
  <2> QED BY <2>1, <2>2
<1>3. ASSUME NEW u \in Tabs, tabs'[u] = tabs[u], push'[u] = push[u] PROVE WorkOK(u)'
  BY <1>1, <1>3, OtherTab DEF WorkInv
<1>4. ASSUME RoomStep, NEW u \in Tabs PROVE WorkOK(u)'
  <2>1. ASSUME NEW r \in Rooms, ExpireRoom(r) PROVE WorkOK(u)'
    <3>1. push' = push /\ WorkOK(u) /\ TabOK(tabs[u])
      BY <2>1 DEF ExpireRoom, WorkInv, RoomsInv, TabsOK
    <3>2. CASE ~(tabs[u].pass.kind = "room" /\ tabs[u].pass.room = r)
      <4>1. tabs'[u] = tabs[u]
        BY <2>1, <3>2 DEF ExpireRoom
      <4> QED BY <1>3, <3>1, <4>1
    <3>3. CASE tabs[u].pass.kind = "room" /\ tabs[u].pass.room = r
      <4>1. PICK pass : pass = [tabs[u].pass EXCEPT !.valid = FALSE]
        OBVIOUS
      <4>2. tabs'[u] = [tabs[u] EXCEPT !.pass = pass]
        BY <2>1, <3>3, <4>1 DEF ExpireRoom
      <4>3. pass.kind = "room"
        BY <3>1, <3>3, <4>1, ExpiredPass DEF TabOK
      <4>4. /\ tabs'[u].phase = tabs[u].phase /\ tabs'[u].pass = pass
            /\ tabs'[u].base = tabs[u].base /\ tabs'[u].restored = tabs[u].restored
            /\ tabs'[u].memory = tabs[u].memory /\ tabs'[u].queue = tabs[u].queue
            /\ tabs'[u].restore = tabs[u].restore
        BY <3>1, <4>2 DEF TabOK, TabFields
      <4>5. SamePass(u) /\ SameUpload(u)
        BY <3>1, <3>3, <4>3, <4>4 DEF SamePass, SameUpload, NoPass
      <4>6. /\ tabs[u].restore.at = "sent" => tabs[u].restore.rev \in DOMAIN revisions'
            /\ tabs[u].restore = [rev |-> tabs[u].restore.rev, at |-> tabs[u].restore.at]
        BY <1>1, <3>1 DEF WorkOK, NamesRevisions, Grows
      <4> QED BY <1>1, <3>1, <4>4, <4>5, <4>6, SameWork
    <3> QED BY <3>2, <3>3
  <2>2. CASE \E r \in Rooms : ExpireRoom(r)
    BY <2>1, <2>2
  <2>3. CASE ~\E r \in Rooms : ExpireRoom(r)
    BY <1>3, <1>4, <2>3 DEF RoomStep, CloseRoom, LookAtRoom, HostByAPI, JoinByAPI
  <2> QED BY <2>2, <2>3
<1>5. ASSUME OtherUploads \/ OtherStep, NEW u \in Tabs PROVE WorkOK(u)'
  <2>1. u # Agent /\ push = [h \in Handlers |-> push[h]] /\ u \in Handlers
    BY DEF BrowserAssumption, WorkInv, StoreInv, TypeOK
  <2>2. tabs' = tabs
    BY <1>5 DEF OtherUploads, OtherStep, playVars
  <2>3. push'[u] = push[u]
    BY ZenonT(40), <1>5, <2>1 DEF OtherUploads, OtherStep, PushSet, PushStep, PushReadCurrent, PushFindExisting,
       AddSaveRevision, PushReturns, RequestEnds
  <2> QED BY <1>3, <2>2, <2>3
<1>6. ASSUME ChangeRom \/ UNCHANGED browserVars, NEW u \in Tabs PROVE WorkOK(u)'
  BY <1>3, <1>6 DEF ChangeRom, browserVars
<1>7. \A u \in Tabs : WorkOK(u)'
  BY <1>1, <1>2, <1>4, <1>5, <1>6, WorkRestarts DEF BrowserNext
<1> QED BY <1>1, <1>7 DEF WorkInv

\* A save that follows the player's restore supersedes only what the player
\* loaded or uploaded itself.
THEOREM UnseenWorkIsKept ==
  ASSUME BrowserAssumption
  PROVE  BrowserSpec => UnseenWorkSurvives
<1>1. ASSUME WorkInv, [BrowserNext]_browserVars,
             NEW t \in Tabs, push[t].pc = "add", push'[t].pc = "done",
             Head(tabs[t].queue).informed,
             revisions'[Len(revisions')].status = "current"
      PROVE  push[t].latest \in {NoRevision} \cup tabs[t].memory
  <2>0. /\ TypeOK /\ t \in Handlers /\ WorkOK(t) /\ CallDecides(push[t])
        /\ push[t] \in PushCall
    BY <1>1, PushTyped DEF WorkInv, StoreInv, BrowserAssumption, CallsDecide
  <2>1. [Next]_storeVars
    BY <1>1, <2>0, StoreMoves DEF CallsEnd, NoPush
  <2>2. AddSaveRevision(t)
    <3>1. PICK h \in Handlers : UploadRevision(h) \/ PushStep(h) \/ RequestEnds(h)
      BY <1>1, <2>1 DEF Next, storeVars
    <3>2. h = t
      BY <1>1, <2>0, <3>1, OneCallMoves
    <3>3. ~UploadRevision(t) /\ ~RequestEnds(t) /\ ~PushReadCurrent(t) /\ ~PushFindExisting(t)
      BY <1>1, <2>0 DEF UploadRevision, RequestEnds, PushReadCurrent, PushFindExisting, TypeOK, NoPush
    <3> QED BY <3>1, <3>2, <3>3 DEF PushStep
  <2>3. ~push[t].conflict
    <3>1. PICK p : p = push[t]
      OBVIOUS
    <3>2. PICK n : n = Len(revisions)
      OBVIOUS
    <3>3. /\ n \in Nat /\ DOMAIN revisions' = 1..(n + 1)
          /\ revisions'[n + 1] = [stream |-> p.stream, device |-> p.device, parent |-> p.base,
                                  hash |-> p.hash,
                                  status |-> IF p.conflict THEN "conflict" ELSE "current"]
      BY <2>0, <2>2, <3>1, <3>2, AddSaveRevisionEffect
    <3>4. revisions' \in Seq(Revision)
      BY <1>1, StoreGrows DEF StoreInv, TypeOK
    <3>5. Len(revisions') = n + 1
      BY <3>3, <3>4, LenProperties
    <3> QED BY <1>1, <3>1, <3>3, <3>5
  <2>4. push[t].latest \in {NoRevision, push[t].base}
    BY <1>1, <2>0, <2>3 DEF CallDecides, PushCall
  <2>5. push[t].base \in {NoRevision} \cup tabs[t].memory
    <3>1. tabs[t].queue # <<>> /\ tabs[t].queue \in Seq(Save)
      BY <1>1, <2>0 DEF WorkOK, UploadOK, QueueOK
    <3>2. Head(tabs[t].queue) = tabs[t].queue[1]
      BY <3>1
    <3> QED BY <1>1, <2>0, <3>2 DEF WorkOK, UploadOK
  <2> QED BY <2>4, <2>5
<1>2. WorkInv /\ [BrowserNext]_browserVars =>
        [\A t \in Tabs :
           /\ push[t].pc = "add" /\ push'[t].pc = "done"
           /\ tabs[t].queue # <<>> /\ Head(tabs[t].queue).informed
           /\ push[t].latest = CurrentStreamRevision(Stream)
           /\ revisions'[Len(revisions')].status = "current"
           => push[t].latest \in {NoRevision} \cup tabs[t].memory]_browserVars
  BY <1>1
<1>3. WorkInv /\ [BrowserNext]_browserVars => WorkInv'
  BY WorkNext
<1>4. BrowserInit => WorkInv
  BY WorkInit
<1> QED BY <1>2, <1>3, <1>4, PTL DEF BrowserSpec, UnseenWorkSurvives

\* What tabs and rooms are doing is one of the things they can do, and the ROM's
\* row and file hold contents of ROMs.
Phases == {"closed", "asks alone", "asks for a room", "holds", "loads", "plays"}
PlayTyped == /\ rom \in [row : Roms, file : Roms]
             /\ \A t \in Tabs : tabs[t].phase \in Phases

LEMMA PlayStaysTyped ==
  ASSUME BrowserAssumption, WorkInv, PlayTyped, [BrowserNext]_browserVars
  PROVE  PlayTyped'
<1>1. /\ tabs = [t \in Tabs |-> tabs[t]] /\ \A t \in Tabs : TabOK(tabs[t])
      /\ ClosedTab.phase = "closed"
  BY DEF WorkInv, RoomsInv, TabsOK, ClosedTab
<1>2. ASSUME UNCHANGED <<rom, tabs>>
      PROVE  PlayTyped'
  BY <1>2 DEF PlayTyped
<1>3. ASSUME NEW t \in Tabs, NEW tab, Set(t, tab), tab.phase \in Phases, UNCHANGED rom
      PROVE  PlayTyped'
  BY <1>1, <1>3 DEF PlayTyped, Set
<1>4. ASSUME NEW t \in Tabs, TabStep(t)
      PROVE  PlayTyped'
  <2>1. TabOK(tabs[t]) /\ tabs[t].phase \in Phases
    BY <1>1 DEF PlayTyped
  <2>2. CASE AskToPlayAlone(t) \/ AskForRoom(t)
    BY <1>3, <2>1, <2>2 DEF AskToPlayAlone, AskForRoom, Asks, TabOK, TabFields, Phases
  <2>3. CASE SignSoloPass(t) \/ ExpireSoloPass(t)
    BY <1>3, <2>1, <2>3 DEF SignSoloPass, ExpireSoloPass, TabOK, TabFields, Phases
  <2>4. ASSUME NEW r \in Rooms, CreateRoom(t, r) \/ JoinRoom(t, r)
        PROVE  PlayTyped'
    <3>1. RoomPass(t, r).phase = "holds"
      BY <2>1 DEF RoomPass, TabOK, TabFields
    <3> QED BY <1>1, <1>3, <2>4, <3>1 DEF CreateRoom, JoinRoom, Phases
  <2>5. CASE OpenSoloPage(t) \/ OpenRoomPage(t) \/ StartGame(t)
    BY <1>3, <2>1, <2>5 DEF OpenSoloPage, OpenRoomPage, StartGame, TabOK, TabFields, Phases
  <2>6. CASE RestoreSave(t) \/ ServeSave(t)
    BY <1>3, <2>1, <2>6 DEF RestoreSave, ServeSave, TabOK, TabFields, Phases
  <2>7. CASE ApplyRestore(t) \/ RestoreFails(t)
    BY <1>3, <2>1, <2>7 DEF ApplyRestore, RestoreFails, TabOK, TabFields, Phases
  <2>8. ASSUME NEW hash \in Hashes, EmitSave(t, hash)
        PROVE  PlayTyped'
    BY <1>3, <2>1, <2>8 DEF EmitSave, TabOK, TabFields, Phases
  <2>9. CASE SendUpload(t) \/ StoreSave(t)
    BY <1>2, <2>9 DEF SendUpload, StoreSave, playVars
  <2>10. CASE UploadAnswered(t) \/ UploadFails(t)
    BY <1>3, <2>1, <2>10 DEF UploadAnswered, UploadFails, TabOK, TabFields, Phases
  <2>11. CASE CloseTab(t)
    BY <1>1, <1>3, <2>11 DEF CloseTab, Phases
  <2> QED BY <1>4, <2>2, <2>3, <2>4, <2>5, <2>6, <2>7, <2>8, <2>9, <2>10, <2>11 DEF TabStep
<1>5. ASSUME NEW r \in Rooms, ExpireRoom(r)
      PROVE  PlayTyped'
  <2>1. ASSUME NEW t \in Tabs PROVE tabs'[t].phase = tabs[t].phase
    BY <1>1, <1>5 DEF ExpireRoom, TabOK, TabFields
  <2> QED BY <1>5, <2>1 DEF ExpireRoom, PlayTyped
<1>6. ASSUME RoomStep, ~\E r \in Rooms : ExpireRoom(r)
      PROVE  PlayTyped'
  BY <1>2, <1>6 DEF RoomStep, CloseRoom, LookAtRoom, HostByAPI, JoinByAPI
<1>7. CASE OtherUploads \/ OtherStep \/ UNCHANGED browserVars
  BY <1>2, <1>7 DEF OtherUploads, OtherStep, playVars, browserVars
<1>8. CASE ChangeRom
  BY <1>8 DEF ChangeRom, PlayTyped
<1>9. CASE RestartService
  <2>1. ASSUME NEW t \in Tabs PROVE tabs'[t].phase \in Phases
    <3>1. tabs'[t].phase \in {tabs[t].phase, "closed"}
      BY <1>1, <1>9 DEF RestartService, TabOK, TabFields
    <3> QED BY <3>1 DEF PlayTyped, Phases
  <2> QED BY <1>9, <2>1 DEF RestartService, PlayTyped
<1> QED BY <1>4, <1>5, <1>6, <1>7, <1>8, <1>9 DEF BrowserNext, RoomStep

\* The store, the ROM, the rooms and the tabs stay well formed, and a tab sends
\* no base that is not a revision, through closed tabs, expired passes and
\* restarts of the service.
THEOREM PlayIsWellTyped ==
  ASSUME BrowserAssumption
  PROVE  BrowserSpec => []BrowserTypeOK
<1>1. BrowserInit => WorkInv /\ PlayTyped
  <2> SUFFICES ASSUME BrowserInit PROVE PlayTyped
    BY WorkInit
  <2>1. ClosedTab.phase = "closed"
    BY DEF ClosedTab
  <2>2. PICK content \in Roms : rom = [row |-> content, file |-> content]
    BY DEF BrowserInit
  <2>3. \A t \in Tabs : tabs[t] = ClosedTab
    BY DEF BrowserInit
  <2> QED BY <2>1, <2>2, <2>3 DEF PlayTyped, Phases
<1>2. WorkInv /\ PlayTyped /\ [BrowserNext]_browserVars => WorkInv' /\ PlayTyped'
  BY WorkNext, PlayStaysTyped
<1>3. WorkInv /\ PlayTyped => BrowserTypeOK
  <2> SUFFICES ASSUME WorkInv, PlayTyped PROVE BrowserTypeOK
    OBVIOUS
  <2>1. \A r \in Rooms : rooms[r].state \in {"absent", "waiting", "ready", "closed"}
    BY DEF WorkInv, RoomsInv, RoomsOK, RoomOK, NoRoom
  <2>2. \A t \in Tabs : /\ tabs[t].base \in {NoRevision} \cup DOMAIN revisions
                        /\ tabs[t].queue \in Seq([hash : Hashes, informed : BOOLEAN])
    BY DEF WorkInv, WorkOK, NamesRevisions, QueueOK, Save
  <2> QED BY <2>1, <2>2 DEF BrowserTypeOK, WorkInv, StoreInv, PlayTyped, Phases
<1> QED BY <1>1, <1>2, <1>3, PTL DEF BrowserSpec

\* What the store promises of its revisions it keeps under the uploads of the
\* browser, whose tabs close and whose service restarts halfway.
THEOREM PlayersKeepTheStore ==
  ASSUME BrowserAssumption
  PROVE  BrowserSpec => [](/\ CurrentIsNewestPublished /\ ParentIsOlderInStream
                           /\ ResultHoldsContent)
<1>1. WorkInv => CurrentIsNewestPublished /\ ParentIsOlderInStream /\ ResultHoldsContent
  BY DEF WorkInv, StoreInv
<1>2. BrowserInit => WorkInv
  BY WorkInit
<1>3. WorkInv /\ [BrowserNext]_browserVars => WorkInv'
  BY WorkNext
<1> QED BY <1>1, <1>2, <1>3, PTL DEF BrowserSpec

\* Whatever players and agents do, and whichever calls are given up halfway,
\* the revisions they write are a history.
THEOREM PlayersKeepHistory ==
  ASSUME BrowserAssumption
  PROVE  BrowserSpec => ImplementsHistory
<1>1. BrowserInit => WorkInv /\ History!Init
  BY WorkInit, HistoryStarts DEF BrowserInit
<1>2. ASSUME WorkInv, [BrowserNext]_browserVars
      PROVE  [History!Next]_(History!vars)
  <2>1. [Next]_storeVars \/ CallsEnd
    BY <1>2, StoreMoves
  <2>2. CASE [Next]_storeVars
    BY <1>2, <2>2, HistoryMoves DEF WorkInv
  <2>3. CASE CallsEnd
    BY <2>3, HistoryRests DEF CallsEnd
  <2> QED BY <2>1, <2>2, <2>3
<1>3. WorkInv /\ [BrowserNext]_browserVars => WorkInv'
  BY WorkNext
<1> QED BY <1>1, <1>2, <1>3, PTL DEF BrowserSpec, ImplementsHistory, History!Spec

-----------------------------------------------------------------------------
(* Source scans: the inductive invariant                                      *)

ScanCallFields == {"op", "step", "source", "row", "todo", "candidates", "scan", "token",
                   "chosen", "rows", "outcome"}
ScanFields == {"source", "expired", "status", "preview"}
IsScan(scan) == scan # NoScan /\ scan = [f \in ScanFields |-> scan[f]]
IsSeq(s) == s \in Seq(ToSet(s))

\* A row that a commit is about to write was shown as new by this preview.
Shown(row, preview) ==
  \E p \in ToSet(preview.candidates) :
    /\ p.path = row.source /\ p.status = "new"
    /\ preview.storage = "reference" => p.content = row.content

\* What is written is of the preview, signed with this key.
IngestFits(call, key) ==
  /\ call.token.boot = key /\ call.token.storage = call.row.storage
  /\ call.token.candidates = call.candidates
  /\ \A p \in Selected(call) : p.status = "new"
  /\ IsSeq(call.todo) /\ ToSet(call.todo) \subseteq ToSet(call.candidates)
  /\ \A row \in call.rows : Shown(row, call.token)

\* A commit holds the token of its scan until it finishes.
CommitFits(call, stored, key) ==
  /\ call.scan \in Scans /\ IsScan(stored[call.scan])
  /\ call.step # "finish" => call.token = stored[call.scan].preview
  /\ call.step = "ingest" => IngestFits(call, key)

ScanCallOK(call, stored, key) ==
  /\ call = [f \in ScanCallFields |-> call[f]]
  /\ IsSeq(call.candidates)
  /\ call.step \notin {"ingest", "finish"} => call.rows = {}
  /\ call.op = "commit" => CommitFits(call, stored, key)

ScansOK == /\ scans = [n \in Scans |-> scans[n]]
           /\ \A n \in Scans : scans[n] # NoScan => IsScan(scans[n])
ScanCallsOK == /\ calls = [c \in Callers |-> calls[c]]
               /\ \A c \in Callers : calls[c].op # "none" => ScanCallOK(calls[c], scans, boot)
ImportedOK == imported = [n \in Scans |-> imported[n]]

ScansInv == ScansOK /\ ScanCallsOK /\ ImportedOK

-----------------------------------------------------------------------------
(* Scans stay, and so do the previews of those that are stored.                *)

Stay(stored, later) ==
  \A n \in Scans : IsScan(stored[n]) => /\ IsScan(later[n])
                                        /\ later[n].preview = stored[n].preview

LEMMA CallStays ==
  ASSUME NEW stored, NEW later, Stay(stored, later), NEW key, NEW call,
         ScanCallOK(call, stored, key)
  PROVE  ScanCallOK(call, later, key)
BY DEF ScanCallOK, CommitFits, Stay

\* One request goes on, the others stay where they are.
LEMMA RequestMoves ==
  ASSUME ScansInv, NEW c \in Callers, NEW call, calls' = [calls EXCEPT ![c] = call],
         boot' = boot, Stay(scans, scans'), ScansOK', ImportedOK',
         call.op # "none" => ScanCallOK(call, scans, boot)
  PROVE  ScansInv'
<1>1. calls' = [d \in Callers |-> calls'[d]]
  BY DEF ScansInv, ScanCallsOK
<1>2. ASSUME NEW d \in Callers, calls'[d].op # "none" PROVE ScanCallOK(calls'[d], scans', boot')
  <2>1. calls'[d] = IF d = c THEN call ELSE calls[d]
    BY DEF ScansInv, ScanCallsOK
  <2>2. ScanCallOK(calls'[d], scans, boot)
    BY <1>2, <2>1 DEF ScansInv, ScanCallsOK
  <2> QED BY <2>2, CallStays
<1> QED BY <1>1, <1>2 DEF ScansInv, ScanCallsOK

LEMMA RequestGoesOn ==
  ASSUME ScansInv, NEW c \in Callers, NEW call, GoesOn(c, call),
         call.op # "none" => ScanCallOK(call, scans, boot)
  PROVE  ScansInv'
<1>1. Stay(scans, scans')
  BY DEF Stay, GoesOn
<1>2. ScansOK' /\ ImportedOK'
  BY DEF ScansInv, ScansOK, ImportedOK, GoesOn
<1> QED BY <1>1, <1>2, RequestMoves DEF GoesOn

\* Requests stay where they are.
LEMMA RequestsStay ==
  ASSUME ScansInv, calls' = calls, boot' = boot, Stay(scans, scans'), ScansOK',
         imported' = imported
  PROVE  ScansInv'
<1>1. ASSUME NEW d \in Callers, calls'[d].op # "none" PROVE ScanCallOK(calls'[d], scans', boot')
  <2>1. ScanCallOK(calls'[d], scans, boot)
    BY <1>1 DEF ScansInv, ScanCallsOK
  <2> QED BY <2>1, CallStays
<1> QED BY <1>1 DEF ScansInv, ScanCallsOK, ImportedOK

LEMMA ASeqIsSeq == ASSUME NEW S, NEW s \in Seq(S) PROVE IsSeq(s)
<1>1. Len(s) \in Nat /\ DOMAIN s = 1..Len(s) /\ s = [i \in 1..Len(s) |-> s[i]]
  OBVIOUS
<1>2. \A i \in 1..Len(s) : s[i] \in ToSet(s)
  BY <1>1 DEF ToSet
<1>3. s \in [1..Len(s) -> ToSet(s)]
  BY <1>1, <1>2
<1> QED BY <1>1, <1>3, SeqDef DEF IsSeq

LEMMA AppendIsSeq ==
  ASSUME NEW s, IsSeq(s), NEW x PROVE IsSeq(Append(s, x))
<1>1. s \in Seq(ToSet(s) \cup {x})
  BY DEF IsSeq
<1>2. Append(s, x) \in Seq(ToSet(s) \cup {x})
  BY <1>1
<1> QED BY <1>2, ASeqIsSeq

LEMMA TailIsSeq ==
  ASSUME NEW s, IsSeq(s), s # <<>>
  PROVE  /\ IsSeq(Tail(s)) /\ ToSet(Tail(s)) \subseteq ToSet(s)
         /\ Head(s) \in ToSet(s)
<1>1. s \in Seq(ToSet(s)) /\ s # <<>>
  BY DEF IsSeq
<1>2. Tail(s) \in Seq(ToSet(s)) /\ Head(s) \in ToSet(s)
  BY <1>1
<1>3. ToSet(Tail(s)) \subseteq ToSet(s)
  BY <1>2 DEF ToSet
<1> QED BY <1>2, <1>3, ASeqIsSeq


-----------------------------------------------------------------------------
(* The steps of a scan or a commit                                            *)

LEMMA ScansUntouched ==
  ASSUME ScansInv, UNCHANGED <<scans, imported, boot>>
  PROVE  Stay(scans, scans') /\ ScansOK' /\ ImportedOK'
BY DEF Stay, ScansInv, ScansOK, ImportedOK

\* What has the fields of a scan is not NoScan.
LEMMA HasFields ==
  ASSUME NEW scan, scan = [f \in ScanFields |-> scan[f]]
  PROVE  scan # NoScan
<1>1. DOMAIN scan = ScanFields /\ DOMAIN NoScan = {"status"}
  BY DEF NoScan
<1>2. "source" \in ScanFields /\ "source" \notin {"status"}
  BY DEF ScanFields
<1> QED BY <1>1, <1>2

LEMMA RequestsBegin ==
  ASSUME ScansInv, NEW c \in Callers,
         \/ \E s \in Sources : BeginSourceScan(c, s)
         \/ \E n \in Scans : \E token, picked : GetSourceScan(c, n, token, picked)
  PROVE  ScansInv'
<1>1. IsSeq(<<>>)
  BY DEF IsSeq
<1>2. ASSUME NEW s \in Sources, BeginSourceScan(c, s) PROVE ScansInv'
  <2>1. PICK call : call = AskScan("scan", s, sources[s], "adapter")
    OBVIOUS
  <2>2. ScanCallOK(call, scans, boot) /\ GoesOn(c, call)
    BY <1>1, <1>2, <2>1 DEF BeginSourceScan, AskScan, ScanCallOK, ScanCallFields
  <2> QED BY <2>2, RequestGoesOn
<1>3. ASSUME NEW n \in Scans, NEW token, NEW picked, GetSourceScan(c, n, token, picked)
      PROVE  ScansInv'
  <2>1. scans[n].status = "ready" /\ IsScan(scans[n])
    <3>1. NoScan.status = "none"
      BY DEF NoScan
    <3> QED BY <1>3, <3>1 DEF GetSourceScan, ScansInv, ScansOK
  <2>2. PICK stale : stale = (scans[n].expired \/ scans[n].preview # token)
    OBVIOUS
  <2>3. PICK step : step = IF stale THEN "finish" ELSE "source"
    OBVIOUS
  <2>4. PICK call : call = [AskScan("commit", scans[n].source, Gone, step)
                              EXCEPT !.scan = n, !.token = token, !.chosen = picked,
                                     !.outcome = "stale"]
    OBVIOUS
  <2>5. GoesOn(c, call)
    BY <1>3, <2>2, <2>3, <2>4 DEF GetSourceScan
  <2>6. call = [op |-> "commit", step |-> step, source |-> scans[n].source, row |-> Gone,
                todo |-> <<>>, candidates |-> <<>>, scan |-> n, token |-> token,
                chosen |-> picked, rows |-> {}, outcome |-> "stale"]
    BY <2>4 DEF AskScan
  <2>7. ScanCallOK(call, scans, boot)
    BY <1>1, <2>1, <2>2, <2>3, <2>6 DEF ScanCallOK, ScanCallFields, CommitFits
  <2> QED BY <2>5, <2>7, RequestGoesOn
<1> QED BY <1>2, <1>3

\* The steps that look at a source.
LEMMA RequestsLook ==
  ASSUME ScansInv, NEW c \in Callers,
         ValidateSourceAdapterForScan(c) \/ Walk(c) \/ Look(c) \/ GetLibrarySource(c)
  PROVE  ScansInv'
<1> DEFINE call == calls[c]
<1>0. ScanCallOK(call, scans, boot) /\ call.op # "none"
      /\ call.step \notin {"ingest", "finish"}
  BY DEF ScansInv, ScanCallsOK, ValidateSourceAdapterForScan, Walk, Look, GetLibrarySource
<1>1. CASE ValidateSourceAdapterForScan(c)
  <2>1. PICK step : step = IF adapter THEN "walk" ELSE "finish"
    OBVIOUS
  <2>2. PICK next : next = [call EXCEPT !.step = step, !.outcome = "failed"]
    OBVIOUS
  <2>3. GoesOn(c, next)
    BY <1>1, <2>1, <2>2 DEF ValidateSourceAdapterForScan
  <2>4. ScanCallOK(next, scans, boot)
    BY <1>0, <2>1, <2>2 DEF ScanCallOK, ScanCallFields, CommitFits
  <2> QED BY <2>3, <2>4, RequestGoesOn
<1>2. CASE Walk(c)
  <2>1. PICK todo : todo = SelectSeq(Below[call.row.root], LAMBDA p : files[p] # Gone)
    OBVIOUS
  <2>2. PICK next : next = [call EXCEPT !.step = "look", !.todo = todo]
    OBVIOUS
  <2>3. GoesOn(c, next)
    BY <1>2, <2>1, <2>2 DEF Walk
  <2>4. ScanCallOK(next, scans, boot)
    BY <1>0, <2>2 DEF ScanCallOK, ScanCallFields, CommitFits
  <2> QED BY <2>3, <2>4, RequestGoesOn
<1>3. CASE Look(c)
  <2>1. PICK more : more = Append(call.candidates, Candidate(Head(call.todo)))
    OBVIOUS
  <2>2. PICK next : next = [call EXCEPT !.todo = Tail(@), !.candidates = more]
    OBVIOUS
  <2>3. GoesOn(c, next)
    BY <1>0, <1>3, <2>1, <2>2 DEF Look, ScanCallOK, ScanCallFields
  <2>4. IsSeq(more)
    BY <1>0, <2>1, AppendIsSeq DEF ScanCallOK
  <2>5. ScanCallOK(next, scans, boot)
    BY <1>0, <2>2, <2>4 DEF ScanCallOK, ScanCallFields, CommitFits
  <2> QED BY <2>3, <2>5, RequestGoesOn
<1>4. CASE GetLibrarySource(c)
  <2>1. PICK next : next = [call EXCEPT !.step = "adapter", !.row = sources[call.source]]
    OBVIOUS
  <2>2. GoesOn(c, next)
    BY <1>4, <2>1 DEF GetLibrarySource
  <2>3. ScanCallOK(next, scans, boot)
    BY <1>0, <2>1 DEF ScanCallOK, ScanCallFields, CommitFits
  <2> QED BY <2>2, <2>3, RequestGoesOn
<1> QED BY <1>1, <1>2, <1>3, <1>4

LEMMA CommitVerifies ==
  ASSUME ScansInv, NEW c \in Callers, VerifyImportSelection(c)
  PROVE  ScansInv'
<1> DEFINE call == calls[c]
<1>0. ScanCallOK(call, scans, boot) /\ call.op = "commit" /\ call.step = "look"
  BY DEF ScansInv, ScanCallsOK, VerifyImportSelection
<1>1. PICK step : step = IF SamePreview(call) /\ \A p \in Selected(call) : p.status = "new"
                         THEN "ingest" ELSE "finish"
  OBVIOUS
<1>2. PICK outcome : outcome = IF SamePreview(call) THEN "failed" ELSE "stale"
  OBVIOUS
<1>3. PICK next : next = [call EXCEPT !.todo = call.candidates, !.step = step, !.outcome = outcome]
  OBVIOUS
<1>4. GoesOn(c, next)
  BY <1>1, <1>2, <1>3 DEF VerifyImportSelection
<1>5. next = [call EXCEPT !.todo = call.candidates, !.step = step, !.outcome = outcome]
      /\ next.step = step /\ next.todo = call.candidates /\ next.candidates = call.candidates
      /\ next.row = call.row /\ next.token = call.token /\ next.scan = call.scan
      /\ next.chosen = call.chosen /\ next.rows = {} /\ next.op = "commit"
  BY <1>0, <1>3 DEF ScanCallOK, ScanCallFields
<1>6. next = [f \in ScanCallFields |-> next[f]]
  BY <1>0, <1>5 DEF ScanCallOK, ScanCallFields
<1>7. step = "ingest" => IngestFits(next, boot)
  <2> SUFFICES ASSUME step = "ingest" PROVE IngestFits(next, boot)
    OBVIOUS
  <2>1. Preview(call) = call.token /\ \A p \in Selected(call) : p.status = "new"
    BY <1>1 DEF SamePreview
  <2>2. call.token.boot = boot /\ call.token.storage = call.row.storage
        /\ call.token.candidates = call.candidates
    BY <2>1 DEF Preview
  <2>3. Selected(next) = Selected(call)
    BY <1>5 DEF Selected
  <2> QED BY <1>0, <1>5, <2>1, <2>2, <2>3 DEF IngestFits, ScanCallOK
<1>8. ScanCallOK(next, scans, boot)
  <2>1. IsSeq(next.candidates) /\ next.rows = {} /\ next.op = "commit"
    BY <1>0, <1>5 DEF ScanCallOK
  <2>2. /\ next.scan \in Scans /\ IsScan(scans[next.scan])
        /\ next.token = scans[next.scan].preview
    BY <1>0, <1>5 DEF ScanCallOK, CommitFits
  <2>3. next.step = "ingest" => IngestFits(next, boot)
    BY <1>5, <1>7
  <2> QED BY <1>6, <2>1, <2>2, <2>3 DEF ScanCallOK, CommitFits
<1> QED BY <1>4, <1>8, RequestGoesOn

LEMMA CommitIngests ==
  ASSUME ScansInv, NEW c \in Callers, IngestGame(c)
  PROVE  ScansInv'
<1> DEFINE call == calls[c]
           p == Head(call.todo)
<1>0. ScanCallOK(call, scans, boot) /\ call.op = "commit" /\ call.step = "ingest"
      /\ call.todo # <<>>
  BY DEF ScansInv, ScanCallsOK, IngestGame
<1>1. IngestFits(call, boot)
  BY <1>0 DEF ScanCallOK, CommitFits
<1>2. /\ IsSeq(Tail(call.todo)) /\ ToSet(Tail(call.todo)) \subseteq ToSet(call.candidates)
      /\ p \in ToSet(call.candidates)
  BY <1>0, <1>1, TailIsSeq DEF IngestFits
<1>3. PICK content : content = IF call.row.storage = "copy" THEN files[p.path] ELSE p.content
  OBVIOUS
<1>4. CASE p \notin Selected(call)
  <2>1. PICK next : next = [call EXCEPT !.todo = Tail(call.todo)]
    OBVIOUS
  <2>2. GoesOn(c, next)
    BY <1>0, <1>4, <2>1 DEF IngestGame, ScanCallOK, ScanCallFields
  <2>3. ScanCallOK(next, scans, boot)
    BY <1>0, <1>1, <1>2, <2>1 DEF ScanCallOK, ScanCallFields, CommitFits, IngestFits, Selected
  <2> QED BY <2>2, <2>3, RequestGoesOn
<1>5. CASE p \in Selected(call) /\ content = Gone
  <2>1. PICK next : next = [call EXCEPT !.step = "finish"]
    OBVIOUS
  <2>2. GoesOn(c, next)
    BY <1>3, <1>5, <2>1 DEF IngestGame
  <2>3. ScanCallOK(next, scans, boot)
    BY <1>0, <2>1 DEF ScanCallOK, ScanCallFields, CommitFits
  <2> QED BY <2>2, <2>3, RequestGoesOn
<1>6. CASE p \in Selected(call) /\ content # Gone
  <2>1. PICK row : row = [source |-> p.path, content |-> content]
    OBVIOUS
  <2>2. PICK next : next = [call EXCEPT !.todo = Tail(call.todo), !.rows = call.rows \cup {row}]
    OBVIOUS
  <2>3. GoesOn(c, next)
    BY <1>0, <1>3, <1>6, <2>1, <2>2 DEF IngestGame, ScanCallOK, ScanCallFields
  <2>4. Shown(row, call.token)
    <3>1. p.path = row.source /\ p.status = "new" /\ p \in ToSet(call.token.candidates)
      BY <1>1, <1>2, <1>6, <2>1 DEF IngestFits
    <3>2. call.token.storage = "reference" => p.content = row.content
      BY <1>1, <1>3, <2>1 DEF IngestFits
    <3> QED BY <3>1, <3>2 DEF Shown
  <2>5. ScanCallOK(next, scans, boot)
    BY <1>0, <1>1, <1>2, <2>2, <2>4 DEF ScanCallOK, ScanCallFields, CommitFits, IngestFits, Selected
  <2> QED BY <2>3, <2>5, RequestGoesOn
<1> QED BY <1>4, <1>5, <1>6

\* The steps that write a scan or the library.
LEMMA RequestsWrite ==
  ASSUME ScansInv, NEW c \in Callers,
         \/ \E n \in Scans : CreateSourceScan(c, n)
         \/ ImportGamesAtomic(c) \/ UpdateSourceScanStatus(c)
  PROVE  ScansInv'
<1> DEFINE call == calls[c]
<1>1. ASSUME NEW n \in Scans, CreateSourceScan(c, n) PROVE ScansInv'
  <2>1. PICK scan : scan = [source |-> call.source, expired |-> FALSE,
                            status |-> IF call.step = "look" /\ call.todo = <<>> THEN "ready"
                                                                                ELSE "failed",
                            preview |-> IF call.step = "look" /\ call.todo = <<>>
                                        THEN Preview(call) ELSE Gone]
    OBVIOUS
  <2>2. scans[n] = NoScan /\ (scans' = scans \/ scans' = [scans EXCEPT ![n] = scan])
    BY <1>1, <2>1 DEF CreateSourceScan
  <2>3. IsScan(scan)
    <3>1. scan.status \in {"ready", "failed"} /\ NoScan.status = "none"
      BY <2>1 DEF NoScan
    <3>2. scan = [f \in ScanFields |-> scan[f]]
      BY <2>1 DEF ScanFields
    <3> QED BY <3>1, <3>2 DEF IsScan
  <2>4. Stay(scans, scans') /\ ScansOK'
    BY <2>2, <2>3 DEF Stay, ScansInv, ScansOK, IsScan
  <2>5. calls' = [calls EXCEPT ![c] = NoCall] /\ boot' = boot /\ imported' = imported
    BY <1>1 DEF CreateSourceScan
  <2>6. NoCall.op = "none" /\ ImportedOK'
    BY <2>5 DEF NoCall, ScansInv, ImportedOK
  <2>7. PICK next : next = NoCall
    OBVIOUS
  <2> QED BY <2>4, <2>5, <2>6, <2>7, RequestMoves
<1>2. CASE ImportGamesAtomic(c)
  <2>0. ScanCallOK(call, scans, boot) /\ call.op = "commit" /\ call.step = "ingest"
    BY <1>2 DEF ScansInv, ScanCallsOK, ImportGamesAtomic
  <2>1. PICK outcome : outcome = IF call.rows # {} /\ NoneImportedYet(call.rows)
                                 THEN "committed" ELSE "failed"
    OBVIOUS
  <2>2. PICK next : next = [call EXCEPT !.step = "finish", !.outcome = outcome]
    OBVIOUS
  <2>3. calls' = [calls EXCEPT ![c] = next] /\ UNCHANGED <<scans, boot>>
    BY <1>2, <2>1, <2>2 DEF ImportGamesAtomic
  <2>4. ScanCallOK(next, scans, boot)
    BY <2>0, <2>2 DEF ScanCallOK, ScanCallFields, CommitFits
  <2>5. Stay(scans, scans') /\ ScansOK'
    BY <2>3 DEF Stay, ScansInv, ScansOK
  <2>6. ImportedOK'
    BY <1>2 DEF ImportGamesAtomic, ScansInv, ImportedOK
  <2> QED BY <2>3, <2>4, <2>5, <2>6, RequestMoves
<1>3. CASE UpdateSourceScanStatus(c)
  <2>0. call.scan \in Scans /\ IsScan(scans[call.scan])
    BY <1>3 DEF ScansInv, ScanCallsOK, UpdateSourceScanStatus, ScanCallOK, CommitFits
  <2>1. PICK scan : scan = [scans[call.scan] EXCEPT !.status = call.outcome]
    OBVIOUS
  <2>2. scans' = [scans EXCEPT ![call.scan] = scan]
    BY <1>3, <2>1 DEF UpdateSourceScanStatus
  <2>3. scan = [f \in ScanFields |-> scan[f]] /\ scan.preview = scans[call.scan].preview
    BY <2>0, <2>1 DEF IsScan, ScanFields
  <2>4. IsScan(scan)
    BY <2>3, HasFields DEF IsScan
  <2>5. Stay(scans, scans') /\ ScansOK'
    BY <2>0, <2>2, <2>3, <2>4 DEF Stay, ScansInv, ScansOK
  <2>6. calls' = [calls EXCEPT ![c] = NoCall] /\ boot' = boot /\ imported' = imported
    BY <1>3 DEF UpdateSourceScanStatus
  <2>7. NoCall.op = "none" /\ ImportedOK'
    BY <2>6 DEF NoCall, ScansInv, ImportedOK
  <2>8. PICK next : next = NoCall
    OBVIOUS
  <2> QED BY <2>5, <2>6, <2>7, <2>8, RequestMoves
<1> QED BY <1>1, <1>2, <1>3

-----------------------------------------------------------------------------
(* Around the requests                                                        *)

LEMMA AroundRequests ==
  ASSUME ScansInv,
         \/ \E s \in Sources : \/ DeleteLibrarySource(s)
                               \/ \E row \in SourceRows : SaveLibrarySource(s, row)
         \/ SetSourceAdapter \/ Restart
         \/ \E p, content : WriteFile(p, content)
         \/ \E a \in artifacts : DeleteArtifact(a)
         \/ \E n \in Scans : ScanExpires(n)
         \/ UNCHANGED scanVars
  PROVE  ScansInv'
<1>1. CASE Restart
  <2>1. \A c \in Callers : calls'[c] = NoCall
    BY <1>1 DEF Restart
  <2>2. NoCall.op = "none"
    BY DEF NoCall
  <2> QED BY <1>1, <2>1, <2>2 DEF Restart, ScansInv, ScansOK, ScanCallsOK, ImportedOK
<1>2. ASSUME NEW n \in Scans, ScanExpires(n) PROVE ScansInv'
  <2>0. IsScan(scans[n])
    <3>1. NoScan.status = "none"
      BY DEF NoScan
    <3> QED BY <1>2, <3>1 DEF ScanExpires, ScansInv, ScansOK
  <2>1. PICK scan : scan = [scans[n] EXCEPT !.expired = TRUE]
    OBVIOUS
  <2>2. scans' = [scans EXCEPT ![n] = scan]
    BY <1>2, <2>1 DEF ScanExpires
  <2>3. scan = [f \in ScanFields |-> scan[f]] /\ scan.preview = scans[n].preview
    BY <2>0, <2>1 DEF IsScan, ScanFields
  <2>4. IsScan(scan)
    BY <2>3, HasFields DEF IsScan
  <2>5. Stay(scans, scans') /\ ScansOK'
    BY <2>0, <2>2, <2>3, <2>4 DEF Stay, ScansInv, ScansOK
  <2> QED BY <1>2, <2>5, RequestsStay DEF ScanExpires
<1>3. CASE UNCHANGED <<scans, imported, boot, calls>>
  BY <1>3, ScansUntouched, RequestsStay
<1>4. CASE UNCHANGED scanVars
  BY <1>3, <1>4 DEF scanVars
<1>5. CASE \/ \E s \in Sources : \/ DeleteLibrarySource(s)
                                 \/ \E row \in SourceRows : SaveLibrarySource(s, row)
           \/ SetSourceAdapter
           \/ \E p, content : WriteFile(p, content)
           \/ \E a \in artifacts : DeleteArtifact(a)
  BY <1>3, <1>5 DEF DeleteLibrarySource, SaveLibrarySource, SetSourceAdapter, WriteFile, DeleteArtifact
<1> QED BY <1>1, <1>2, <1>4, <1>5

LEMMA ScansNextInv == ScansInv /\ [ScansNext]_scanVars => ScansInv'
<1> SUFFICES ASSUME ScansInv, [ScansNext]_scanVars PROVE ScansInv'
  OBVIOUS
<1>1. ASSUME NEW c \in Callers,
             \/ \E s \in Sources : BeginSourceScan(c, s)
             \/ ValidateSourceAdapterForScan(c) \/ Walk(c)
             \/ Look(c) \/ IngestGame(c)
             \/ \E n \in Scans : CreateSourceScan(c, n)
             \/ \E n \in Scans, token \in Tokens : \E picked \in SUBSET ToSet(token.candidates) :
                  GetSourceScan(c, n, token, picked)
             \/ \E n \in Scans : GetSourceScan(c, n, Gone, {})
             \/ GetLibrarySource(c) \/ VerifyImportSelection(c)
             \/ ImportGamesAtomic(c) \/ UpdateSourceScanStatus(c)
      PROVE  ScansInv'
  BY <1>1, RequestsBegin, RequestsLook, CommitVerifies, CommitIngests, RequestsWrite
<1> QED BY <1>1, AroundRequests DEF ScansNext

-----------------------------------------------------------------------------
(* The theorem                                                                *)

\* What a commit imports was shown as new by its scan's preview, a referenced
\* file with the content that was shown, and nothing comes twice.
THEOREM ImportsAreOfTheirPreview == ScansSpec => ImportsWhatWasPreviewed
<1>1. ScansInit => ScansInv
  <2>1. NoCall.op = "none"
    BY DEF NoCall
  <2> QED BY <2>1 DEF ScansInit, ScansInv, ScansOK, ScanCallsOK, ImportedOK
<1>2. ASSUME ScansInv, [ScansNext]_scanVars, NEW n \in Scans, NEW r \in imported'[n] \ imported[n]
      PROVE  LET preview == scans[n].preview IN
             /\ preview.boot = boot
             /\ \E p \in ToSet(preview.candidates) :
                  /\ p.path = r.source /\ p.status = "new"
                  /\ preview.storage = "reference" => p.content = r.content
             /\ \A a \in artifacts : a.source # r.source /\ a.content # r.content
             /\ \A a \in artifacts' : a.content = r.content => a = r
  <2>1. PICK c \in Callers : ImportGamesAtomic(c)
    BY ZenonT(40), <1>2 DEF ScansNext, scanVars, GoesOn, BeginSourceScan, ValidateSourceAdapterForScan, Walk,
       Look, IngestGame, CreateSourceScan, GetSourceScan, GetLibrarySource, VerifyImportSelection,
       UpdateSourceScanStatus, DeleteLibrarySource, SaveLibrarySource, SetSourceAdapter, Restart,
       WriteFile, DeleteArtifact, ScanExpires
  <2>2. PICK call : call = calls[c]
    OBVIOUS
  <2>3. /\ call.rows # {} /\ NoneImportedYet(call.rows)
        /\ artifacts' = artifacts \cup call.rows
        /\ n = call.scan /\ r \in call.rows
    BY <1>2, <2>1, <2>2 DEF ImportGamesAtomic, ScansInv, ImportedOK
  <2>4. call.op = "commit" /\ call.step = "ingest" /\ ScanCallOK(call, scans, boot)
    BY <1>2, <2>1, <2>2 DEF ImportGamesAtomic, ScansInv, ScanCallsOK
  <2>5. IngestFits(call, boot) /\ call.token = scans[n].preview
    BY <2>3, <2>4 DEF ScanCallOK, CommitFits
  <2>6. Shown(r, scans[n].preview) /\ scans[n].preview.boot = boot
    BY <2>3, <2>5 DEF IngestFits
  <2>7. /\ \A a \in artifacts : a.source # r.source /\ a.content # r.content
        /\ \A a \in artifacts' : a.content = r.content => a = r
    BY <2>3 DEF NoneImportedYet, NoneKnown
  <2> QED BY <2>6, <2>7 DEF Shown
<1>3. ScansInv /\ [ScansNext]_scanVars =>
        [\A n \in Scans : \A r \in imported'[n] \ imported[n] :
           LET preview == scans[n].preview IN
           /\ preview.boot = boot
           /\ \E p \in ToSet(preview.candidates) :
                /\ p.path = r.source /\ p.status = "new"
                /\ preview.storage = "reference" => p.content = r.content
           /\ \A a \in artifacts : a.source # r.source /\ a.content # r.content
           /\ \A a \in artifacts' : a.content = r.content => a = r]_scanVars
  BY <1>2
<1> QED BY <1>1, <1>3, ScansNextInv, PTL DEF ScansSpec, ImportsWhatWasPreviewed

=============================================================================
