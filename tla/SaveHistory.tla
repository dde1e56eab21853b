---------------------------- MODULE SaveHistory ----------------------------
(***************************************************************************)
(* What the save store promises its clients: every upload it accepts stays *)
(* in a log for good, as a published save or as one preserved beside the   *)
(* line, and every stream has one head, the last save published to it.     *)
(* How a revision is found to be one or the other is left to SaveStore.    *)
(***************************************************************************)
EXTENDS Naturals, Sequences

CONSTANTS Streams, Hashes

VARIABLES log,     \* every accepted save, oldest first
          head     \* head[s]: place in the log of the save clients download

vars == <<log, head>>

Entry == [stream : Streams, hash : Hashes, kind : {"published", "preserved"}]

TypeOK ==
  /\ log \in Seq(Entry)
  /\ head \in [Streams -> Nat]

Init ==
  /\ log = <<>>
  /\ head = [s \in Streams |-> 0]

Accept(s, c, kind) == log' = Append(log, [stream |-> s, hash |-> c, kind |-> kind])

Publish(s, c) ==
  /\ Accept(s, c, "published")
  /\ head' = [head EXCEPT ![s] = Len(log) + 1]

\* Only an upload that diverged from a head is kept beside the line.
Preserve(s, c) ==
  /\ head[s] # 0
  /\ Accept(s, c, "preserved")
  /\ UNCHANGED head

Next == \E s \in Streams, c \in Hashes : Publish(s, c) \/ Preserve(s, c)

Spec == Init /\ [][Next]_vars
=============================================================================
