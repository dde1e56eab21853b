---------------------------- MODULE MCSaveStore ----------------------------
(* What reaches the database from outside, on small instances: uploads to   *)
(* the save store from any route, uploads from tabs of the browser, items   *)
(* devices report and scans of library sources.  Only the first two share   *)
(* state, the store, so one of the four runs in each behaviour and what the *)
(* others keep rests.                                                       *)
EXTENDS BrowserPlay, InventoryMatch, SourceScans, TLC

CONSTANTS Pad, MaxTabRevisions,    \* SaveStore, BrowserPlay
          Platform, Value, Client, \* InventoryMatch
          q1, q2                   \* SourceScans
VARIABLE service

(* Uploads from any route: two requests of one device under way at a time,    *)
(* except that the first upload of all starts alone, and so does one that      *)
(* would be the last; those in between race on both streams.                   *)
Alone == Len(revisions) \in {0, MaxRevisions - 1}
StoreBound ==
  \A h \in Handlers : push'[h] # NoPush =>
    /\ h # Agent /\ push'[h].device = Pad
    /\ push[h] = NoPush /\ Alone => \A g \in Handlers : push[g] = NoPush

(* Uploads from tabs: two revisions, and what people do in between.          *)
TabsBound == Len(revisions) <= MaxTabRevisions

(* The items devices report have two identifiers, editions one or both.      *)
MCTiers == <<"sha256", "serial">>
MCIds(sha256, serial) == ("sha256" :> sha256) @@ ("serial" :> serial)
MCRows == [platform : {Platform}, ids : {MCIds(NoValue, Value), MCIds(Value, Value)}]
MCReported == [device : Reporters, client : {Client}, platform : {Platform},
               ids : {MCIds(Value, Value)}]

(* One source's root is below the other's.                                   *)
MCBelow == ("all" :> <<q1, q2>>) @@ ("second" :> <<q2>>)
MCSourceRow(root, storage, enabled) ==
  [root |-> root, storage |-> storage, enabled |-> enabled]
MCSourceRows == {MCSourceRow("all", "reference", TRUE), MCSourceRow("all", "copy", TRUE),
                 MCSourceRow("second", "reference", FALSE)}

StoreInit ==
  /\ service \in {"store", "browser", "inventory", "scanning"}
  /\ BrowserInit
  /\ service # "browser" => rom.row = CHOOSE content \in Roms : TRUE
  /\ InventoryInit
  /\ service # "inventory" => library = [e \in Editions |-> NoValue]
  /\ ScansInit
  /\ IF service = "scanning"
     THEN /\ \A q \in {q1, q2} : files[q] # Gone
          /\ \A s \in Sources : sources[s] # Gone /\ sources[s].enabled
     ELSE /\ files = [q \in {q1, q2} |-> Gone]
          /\ sources = [s \in Sources |-> Gone]

StoreNext ==
  /\ UNCHANGED service
  /\ \/ /\ service = "store" /\ Next /\ StoreBound
        /\ UNCHANGED <<playVars, inventoryVars, scanVars>>
     \/ /\ service = "browser" /\ BrowserNext /\ TabsBound'
        /\ UNCHANGED <<inventoryVars, scanVars>>
     \/ /\ service = "inventory" /\ InventoryNext
        /\ UNCHANGED <<browserVars, scanVars>>
     \/ /\ service = "scanning" /\ ScansNext
        /\ UNCHANGED <<browserVars, inventoryVars>>

StoreSpec ==
  StoreInit /\ [][StoreNext]_<<service, browserVars, inventoryVars, scanVars>>

(* The cfg takes the same two values for tabs and other requests and for       *)
(* contents and two of the editions: they are of different parts and one       *)
(* permutation serves both.                                                    *)
Symmetry == Permutations(Items) \cup Permutations(Hashes) \cup Permutations(Tabs)
=============================================================================
