--------------------------- MODULE InventoryMatch ---------------------------
(* What a device has, matched with the editions of the library: the match of   *)
(* an item when its session is created, the review of an ambiguous one, the    *)
(* confirmation of a choice and its use in later sessions                      *)
(* (catalog/sync_session_store.go, server/inventory_match_api.go).  A session  *)
(* is one item here: the items of a session are matched one by one and stored  *)
(* together, and no item asks for another.                                     *)
EXTENDS Naturals, Sequences, FiniteSetsExt

CONSTANTS Editions, Platforms, Values, \* editions, their platforms, identifiers
          NoValue,                     \* an identifier that is not known
          Tiers,                       \* kinds of identifiers, the strongest first
          Reporters, Clients, Items,   \* devices, their ids of items, rows of items
          Rows,                        \* what the library may hold of an edition
          Reported,                    \* items devices may report
          Matchers,                    \* requests at a time
          MaxSigned,                   \* bound on the snapshots signed
          MaxEdits                     \* bound on the changes of the library

VARIABLES library,   \* editions with their platform and identifiers, NoValue before and after
          items,     \* inventory_items, each with the candidates it was matched among
          overrides, \* inventory_match_overrides, by device and item of the client
          signed,    \* snapshots signed for a reviewer
          chosen,    \* history: the snapshots reviewers have sent back
          requests,  \* requests under way
          edits      \* changes of the library so far
inventoryVars == <<library, items, overrides, signed, chosen, requests, edits>>

Methods == {Tiers[i] : i \in DOMAIN Tiers}
Identifiers == [Methods -> Values \cup {NoValue}]
(* What inventoryIdentityHash is the hash of, with whose item it is.           *)
Identity == [device : Reporters, client : Clients, platform : Platforms, ids : Identifiers]
Quiet == [op |-> "none"]
ASSUME InventoryAssumption ==
  /\ NoValue \notin Values /\ MaxEdits \in Nat /\ MaxSigned \in Nat
  /\ Rows \subseteq [platform : Platforms, ids : Identifiers]
  /\ Reported \subseteq Identity

Candidates(platform, method, value) ==
  {e \in Editions : /\ library[e] # NoValue
                    /\ library[e].platform = platform
                    /\ library[e].ids[method] = value}

-----------------------------------------------------------------------------
(* matchInventoryItemCanonical: one statement for each identifier the item has, *)
(* until one finds candidates.                                                 *)

Given(call) == {i \in call.tier..Len(Tiers) : call.identity.ids[Tiers[i]] # NoValue}
Found(call) == IF Given(call) = {} THEN {}
               ELSE LET method == Tiers[Min(Given(call))]
                    IN  Candidates(call.identity.platform, method, call.identity.ids[method])
Status(found) == IF found = {} THEN "unmatched"
                 ELSE IF Cardinality(found) = 1 THEN "matched" ELSE "ambiguous"

Ask(op, item, identity) ==
  [op |-> op, step |-> "match", item |-> item, identity |-> identity, tier |-> 1,
   status |-> "unmatched", method |-> NoValue, edition |-> NoValue, confirmed |-> FALSE,
   candidates |-> {}, wanted |-> NoValue, token |-> NoValue]

Becomes(h, call) ==
  /\ requests' = [requests EXCEPT ![h] = call]
  /\ UNCHANGED <<library, items, overrides, signed, chosen, edits>>

TierFindsNothing(h) ==
  LET call == requests[h] IN
  /\ call.op # "none" /\ call.step = "match"
  /\ Given(call) # {} /\ Found(call) = {}
  /\ Becomes(h, [call EXCEPT !.tier = Min(Given(call)) + 1])

(* A creation goes on with what it found; a review of what is no longer        *)
(* ambiguous in the same tier is stale (ReviewInventoryMatch).                 *)
MatchInventoryItemCanonical(h) ==
  LET call == requests[h]
      found == Found(call)
      method == IF found = {} THEN NoValue ELSE Tiers[Min(Given(call))]
      reviews == call.op # "create"
  IN
  /\ call.op # "none" /\ call.step = "match"
  /\ Given(call) = {} \/ found # {}
  /\ Becomes(h,
       IF reviews /\ (Status(found) # "ambiguous" \/ method # call.wanted) THEN Quiet
       ELSE [call EXCEPT !.status = Status(found), !.method = method, !.candidates = found,
                         !.edition = IF Status(found) = "matched"
                                     THEN CHOOSE e \in found : TRUE ELSE @,
                         !.step = IF reviews THEN "review"
                                  ELSE IF Status(found) = "ambiguous" THEN "override"
                                  ELSE "insert"])

-----------------------------------------------------------------------------
(* Sessions                                                                   *)

CreateSyncSession(h, i, identity) ==
  /\ requests[h] = Quiet
  /\ items[i] = NoValue /\ \A other \in Matchers : requests[other].op = "create" =>
                                                   requests[other].item # i
  /\ Becomes(h, Ask("create", i, identity))

(* A confirmation holds for the candidates it was made among, and no others.   *)
OverrideAmongAny(override, call) ==
  /\ override # NoValue
  /\ override.identity = call.identity
  /\ override.method = call.method
  /\ override.edition \in call.candidates
OverrideApplies(override, call) ==
  /\ override # NoValue
  /\ override.identity = call.identity
  /\ override.candidates = call.candidates
  /\ override.method = call.method
  /\ override.edition \in call.candidates

MatchInventoryItemForDevice(h) ==
  LET call == requests[h]
      override == overrides[<<call.identity.device, call.identity.client>>]
  IN
  /\ call.op = "create" /\ call.step = "override"
  /\ Becomes(h, IF OverrideApplies(override, call)
                THEN [call EXCEPT !.step = "insert", !.status = "matched",
                                  !.edition = override.edition, !.confirmed = TRUE]
                ELSE [call EXCEPT !.step = "insert"])

(* An edition deleted since is a reference to nothing, and the session fails.  *)
InsertInventoryItem(h) ==
  LET call == requests[h] IN
  /\ call.op = "create" /\ call.step = "insert"
  /\ requests' = [requests EXCEPT ![h] = Quiet]
  /\ items' = IF call.edition # NoValue /\ library[call.edition] = NoValue THEN items
              ELSE [items EXCEPT ![call.item] =
                      [identity |-> call.identity, status |-> call.status,
                       method |-> call.method, edition |-> call.edition,
                       confirmed |-> call.confirmed, among |-> call.candidates]]
  /\ UNCHANGED <<library, overrides, signed, chosen, edits>>

-----------------------------------------------------------------------------
(* Reviews: a preview signs what it showed, a commit looks again, compares     *)
(* tokens, and looks once more in the transaction that writes.                 *)

GetInventoryReviewItem(h, op, i, e, token) ==
  /\ requests[h] = Quiet
  /\ items[i] # NoValue /\ items[i].status = "ambiguous"
  /\ requests' = [requests EXCEPT ![h] =
                    [Ask(op, i, items[i].identity) EXCEPT !.edition = e, !.token = token,
                                                          !.wanted = items[i].method]]
  /\ chosen' = IF op = "commit" THEN chosen \cup {token} ELSE chosen
  /\ UNCHANGED <<library, items, overrides, signed, edits>>

(* Every candidate is read again, with its game, and the choice is one of them.*)
Reviewed(call) ==
  /\ \A e \in call.candidates : /\ library[e] # NoValue
                                /\ library[e].platform = call.identity.platform
  /\ call.edition \in call.candidates

Snapshot(call) == [item |-> call.item, identity |-> call.identity, method |-> call.method,
                   candidates |-> call.candidates, edition |-> call.edition]

PreviewInventoryMatch(h) ==
  LET call == requests[h] IN
  /\ call.op = "preview" /\ call.step = "review"
  /\ Reviewed(call) => Cardinality(signed) < MaxSigned
  /\ signed' = IF Reviewed(call) THEN signed \cup {Snapshot(call)} ELSE signed
  /\ requests' = [requests EXCEPT ![h] = Quiet]
  /\ UNCHANGED <<library, items, overrides, chosen, edits>>

CommitInventoryMatch(h) ==
  LET call == requests[h] IN
  /\ call.op = "commit" /\ call.step = "review"
  /\ Becomes(h, IF Reviewed(call) /\ Snapshot(call) = call.token
                THEN [call EXCEPT !.step = "confirm"] ELSE Quiet)

(* The row is still the one reviewed and its candidates are the same.          *)
StillAmbiguous(i, call) ==
  /\ items[i] # NoValue /\ items[i].status = "ambiguous"
  /\ items[i].identity = call.identity /\ items[i].method = call.method
AmongAny(i, call) ==
  LET now == Candidates(call.identity.platform, call.method, call.identity.ids[call.method])
  IN  StillAmbiguous(i, call) /\ Cardinality(now) > 1 /\ call.edition \in now
StillAsReviewed(i, call) ==
  /\ StillAmbiguous(i, call)
  /\ Candidates(call.identity.platform, call.method, call.identity.ids[call.method])
       = call.candidates

ConfirmInventoryMatchOverride(h) ==
  LET call == requests[h]
      i == call.item
      now == Candidates(call.identity.platform, call.method, call.identity.ids[call.method])
  IN
  /\ call.op = "commit" /\ call.step = "confirm"
  /\ requests' = [requests EXCEPT ![h] = Quiet]
  /\ IF StillAsReviewed(i, call)
     THEN /\ overrides' = [overrides EXCEPT
                             ![<<call.identity.device, call.identity.client>>] =
                               [identity |-> call.identity, method |-> call.method,
                                candidates |-> now, edition |-> call.edition]]
          /\ items' = [items EXCEPT ![i] = [@ EXCEPT !.status = "matched", !.confirmed = TRUE,
                                                     !.edition = call.edition, !.among = now]]
     ELSE UNCHANGED <<overrides, items>>
  /\ UNCHANGED <<library, signed, chosen, edits>>

RequestDies(h) == requests[h] # Quiet /\ Becomes(h, Quiet)

-----------------------------------------------------------------------------
(* The library changes: editions come, get other identifiers, and go, with the *)
(* overrides that name them.                                                   *)

SaveEdition(e, row) ==
  /\ edits < MaxEdits /\ edits' = edits + 1
  /\ library' = [library EXCEPT ![e] = row]
  /\ UNCHANGED <<items, overrides, signed, chosen, requests>>

DeleteEdition(e) ==
  /\ edits < MaxEdits /\ edits' = edits + 1
  /\ library[e] # NoValue
  /\ library' = [library EXCEPT ![e] = NoValue]
  /\ items' = [i \in Items |-> IF items[i] # NoValue /\ items[i].edition = e
                               THEN [items[i] EXCEPT !.edition = NoValue] ELSE items[i]]
  /\ overrides' = [k \in DOMAIN overrides |->
                     IF overrides[k] # NoValue /\ overrides[k].edition = e
                     THEN NoValue ELSE overrides[k]]
  /\ UNCHANGED <<signed, chosen, requests>>

InventoryInit ==
  /\ library \in [Editions -> Rows \cup {NoValue}]
  /\ items = [i \in Items |-> NoValue]
  /\ overrides = [k \in Reporters \X Clients |-> NoValue]
  /\ signed = {} /\ chosen = {}
  /\ requests = [h \in Matchers |-> Quiet]
  /\ edits = 0

InventoryNext ==
  \/ \E h \in Matchers :
       \/ \E i \in Items, identity \in Reported : CreateSyncSession(h, i, identity)
       \/ \E i \in Items, e \in Editions : GetInventoryReviewItem(h, "preview", i, e, NoValue)
       \/ \E token \in signed :
            GetInventoryReviewItem(h, "commit", token.item, token.edition, token)
       \/ TierFindsNothing(h) \/ MatchInventoryItemCanonical(h)
       \/ MatchInventoryItemForDevice(h) \/ InsertInventoryItem(h)
       \/ PreviewInventoryMatch(h) \/ CommitInventoryMatch(h)
       \/ ConfirmInventoryMatchOverride(h)
       \/ RequestDies(h)
  \/ \E e \in Editions : DeleteEdition(e) \/ \E row \in Rows : SaveEdition(e, row)

InventorySpec == InventoryInit /\ [][InventoryNext]_inventoryVars

-----------------------------------------------------------------------------
(* An item counts as matched by a person only when one chose that edition for  *)
(* that item of that device, with those identifiers, in that tier and among    *)
(* just these candidates, however the library changed since and whatever else  *)
(* was reviewed meanwhile (MatchInventoryItemForDevice: "only when the same    *)
(* opaque client item, exact inventory identity, platform, match tier, and     *)
(* candidate set are still valid").                                            *)
ConfirmedMatchesAreConfirmed ==
  \A i \in Items :
    items[i] # NoValue /\ items[i].confirmed =>
      \E p \in chosen : /\ p.identity = items[i].identity
                        /\ p.method = items[i].method
                        /\ p.candidates = items[i].among
                        /\ items[i].edition \in {p.edition, NoValue}
=============================================================================
