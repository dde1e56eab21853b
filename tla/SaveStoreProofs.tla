-------------------------- MODULE SaveStoreProofs --------------------------
(***************************************************************************)
(* Theorems about SaveStore, for any number of streams, contents, requests *)
(* and revisions.                                                          *)
(***************************************************************************)
EXTENDS SaveStore, SequenceTheorems, WellFoundedInduction, TLAPS

-----------------------------------------------------------------------------
(* The newest of a set of revision ids *)

\* Newest returns a newest member if there is one.
LEMMA NewestChosen ==
  ASSUME NEW S, NEW i, IsNewestOf(i, S)
  PROVE  IsNewestOf(Newest(S), S)
<1>1. i \in S
  BY DEF IsNewestOf
<1>2. Newest(S) = CHOOSE j \in S : IsNewestOf(j, S)
  BY <1>1 DEF Newest
<1>3. \E j \in S : IsNewestOf(j, S)
  BY <1>1
<1>4. IsNewestOf(CHOOSE j \in S : IsNewestOf(j, S), S)
  BY <1>3, Zenon
<1> QED BY <1>2, <1>4

\* The newest member is unique, so any member no other exceeds is it.
LEMMA NewestIs ==
  ASSUME NEW S \in SUBSET Nat, NEW i, IsNewestOf(i, S)
  PROVE  Newest(S) = i
<1>1. IsNewestOf(Newest(S), S)
  BY NewestChosen
<1>2. /\ Newest(S) \in S /\ i \in S
      /\ Newest(S) <= i /\ i <= Newest(S)
  BY <1>1 DEF IsNewestOf
<1>3. \A x, y \in Nat : x <= y /\ y <= x => x = y
  OBVIOUS
<1> QED BY <1>2, <1>3

\* A non-empty set of positions of a finite sequence has a newest member:
\* what ORDER BY ... DESC LIMIT 1 returns is a row of the table.
LEMMA NewestOfPositions ==
  ASSUME NEW n \in Nat, NEW S \in SUBSET (1..n), S # {}
  PROVE  IsNewestOf(Newest(S), S)
<1> DEFINE T == {n - i : i \in S}
<1>1. T \in SUBSET Nat
  <2>1. \A i \in S : n - i \in Nat
    OBVIOUS
  <2> QED BY <2>1
<1>2. T # {}
  OBVIOUS
<1> HIDE DEF T
<1>3. PICK x \in T : \A y \in T : ~ (<<y, x>> \in OpToRel(<, Nat))
  <2>1. IsWellFoundedOn(OpToRel(<, Nat), Nat)
    BY NatLessThanWellFounded
  <2> QED BY <1>1, <1>2, <2>1, WFMin
<1>4. \A y \in T : ~ (y < x)
  <2>1. TAKE y \in T
  <2>2. y \in Nat /\ x \in Nat
    BY <1>1
  <2>3. y < x => <<y, x>> \in OpToRel(<, Nat)
    BY <2>2 DEF OpToRel
  <2> QED BY <2>3, <1>3
<1>5. PICK i \in S : x = n - i
  BY DEF T
<1>6. IsNewestOf(i, S)
  <2>1. ASSUME NEW j \in S PROVE j <= i
    <3>1. n - j \in T
      BY DEF T
    <3>2. ~ (n - j < n - i)
      BY <1>4, <1>5, <3>1
    <3> QED BY <3>2
  <2> QED BY <2>1 DEF IsNewestOf
<1> QED BY <1>6, NewestChosen

LEMMA NewestOfNone == Newest({}) = NoRevision
BY DEF Newest
-----------------------------------------------------------------------------
(* The transaction of AddSaveRevision *)

\* What a revision becomes when another one is appended to stream s.
AfterAppend(r, s, conflict) ==
  IF ~conflict /\ r.stream = s /\ r.status = "current"
    THEN [r EXCEPT !.status = "superseded"]
    ELSE r

\* Superseding a revision touches its status and nothing else.
LEMMA AfterAppendProperties ==
  ASSUME NEW r \in Revision, NEW s \in Streams, NEW conflict \in BOOLEAN
  PROVE  LET a == AfterAppend(r, s, conflict)
         IN  /\ a \in Revision
             /\ a.stream = r.stream /\ a.hash = r.hash /\ a.parent = r.parent
             /\ a.status = IF ~conflict /\ r.stream = s /\ r.status = "current"
                             THEN "superseded" ELSE r.status
             /\ a # r => /\ r.status = "current"
                         /\ a = [r EXCEPT !.status = "superseded"]
<1>1. CASE ~conflict /\ r.stream = s /\ r.status = "current"
  BY <1>1 DEF AfterAppend, Revision, RevisionStatus
<1>2. CASE ~(~conflict /\ r.stream = s /\ r.status = "current")
  <2>1. AfterAppend(r, s, conflict) = r
    BY <1>2 DEF AfterAppend
  <2> QED BY <2>1, <1>2
<1> QED BY <1>1, <1>2

LEMMA WithRevisionProperties ==
  ASSUME revisions \in Seq(Revision),
         NEW s \in Streams, NEW d \in Devices, NEW base \in Nat,
         NEW hash \in Hashes, NEW conflict \in BOOLEAN
  PROVE  LET new == WithRevision(s, d, base, hash, conflict)
             n == Len(revisions)
         IN  /\ new \in Seq(Revision)
             /\ n \in Nat
             /\ DOMAIN revisions = 1..n
             /\ DOMAIN new = 1..(n + 1)
             /\ Len(new) = n + 1
             /\ \A i \in 1..n : new[i] = AfterAppend(revisions[i], s, conflict)
             /\ new[n + 1] = [stream |-> s, device |-> d, parent |-> base,
                              hash |-> hash,
                              status |-> IF conflict THEN "conflict" ELSE "current"]
<1> DEFINE n == Len(revisions)
           old == [i \in DOMAIN revisions |-> AfterAppend(revisions[i], s, conflict)]
           last == [stream |-> s, device |-> d, parent |-> base, hash |-> hash,
                    status |-> IF conflict THEN "conflict" ELSE "current"]
<1>1. n \in Nat /\ DOMAIN revisions = 1..n
  OBVIOUS
<1>2. last \in Revision
  BY DEF Revision, RevisionStatus
<1>3. \A i \in 1..n : AfterAppend(revisions[i], s, conflict) \in Revision
  BY <1>1, AfterAppendProperties
<1>4. old \in Seq(Revision) /\ Len(old) = n
  BY <1>1, <1>3
<1>5. WithRevision(s, d, base, hash, conflict) = Append(old, last)
  BY DEF WithRevision, AfterAppend
<1> HIDE DEF old, last
<1>6. /\ Append(old, last) \in Seq(Revision)
      /\ Len(Append(old, last)) = n + 1
      /\ \A i \in 1..n : Append(old, last)[i] = old[i]
      /\ Append(old, last)[n + 1] = last
  BY <1>1, <1>2, <1>4
<1>7. DOMAIN Append(old, last) = 1..(n + 1)
  BY <1>6
<1> QED BY <1>1, <1>5, <1>6, <1>7 DEF old, last

-----------------------------------------------------------------------------
(* Types *)

\* The current revision is 0 or one of the stream asked about.
LEMMA QueryReturnsCurrent ==
  ASSUME revisions \in Seq(Revision), NEW s \in Streams
  PROVE  \/ CurrentStreamRevision(s) = NoRevision
         \/ /\ CurrentStreamRevision(s) \in StreamRevisions(s)
            /\ revisions[CurrentStreamRevision(s)].status = "current"
<1> DEFINE C == {i \in StreamRevisions(s) : revisions[i].status = "current"}
<1>1. Len(revisions) \in Nat /\ C \in SUBSET (1..Len(revisions))
  BY DEF StreamRevisions
<1>2. ASSUME NEW S \in SUBSET (1..Len(revisions))
      PROVE  Newest(S) = NoRevision \/ Newest(S) \in S
  <2>1. CASE S = {}
    BY <2>1, NewestOfNone
  <2>2. CASE S # {}
    BY <1>1, <2>2, NewestOfPositions DEF IsNewestOf
  <2> QED BY <2>1, <2>2
<1>3. Newest(C) = NoRevision \/ Newest(C) \in C
  BY <1>1, <1>2
<1> QED BY <1>3 DEF CurrentStreamRevision

\* A request in a call of PushSet has the locals of one.
LEMMA PushTyped ==
  ASSUME TypeOK, NEW h \in Handlers, push[h].pc # "idle"
  PROVE  push[h] \in PushCall
BY DEF TypeOK, NoPush

LEMMA InitTypeOK == Init => TypeOK
BY DEF Init, TypeOK

LEMMA NextTypeOK == TypeOK /\ [Next]_storeVars => TypeOK'
<1> SUFFICES ASSUME TypeOK, [Next]_storeVars PROVE TypeOK'
  OBVIOUS
<1>1. CASE UNCHANGED storeVars
  BY <1>1 DEF TypeOK, storeVars
<1>2. ASSUME NEW h \in Handlers, UploadRevision(h) PROVE TypeOK'
  <2>1. PICK s \in Streams, d \in Devices, hash \in Hashes,
             base \in {NoRevision} \cup DOMAIN revisions :
               PushSet(h, s, d, base, hash)
    BY <1>2 DEF UploadRevision
  <2>2. base \in Nat
    BY DEF TypeOK, NoRevision
  <2>3. [pc |-> "read", stream |-> s, device |-> d, base |-> base,
         hash |-> hash, latest |-> NoRevision, result |-> NoRevision,
         conflict |-> FALSE] \in PushCall
    BY <2>2 DEF PushCall, PushPC, NoRevision
  <2> QED BY <1>2, <2>1, <2>3 DEF UploadRevision, PushSet, TypeOK
<1>3. ASSUME NEW h \in Handlers, PushReadCurrent(h) PROVE TypeOK'
  <2>1. push[h] \in PushCall
    BY <1>3, PushTyped DEF PushReadCurrent
  <2>2. CurrentStreamRevision(push[h].stream) \in Nat
    BY <2>1, QueryReturnsCurrent DEF TypeOK, PushCall, StreamRevisions, NoRevision
  <2> QED BY <1>3, <2>1, <2>2 DEF PushReadCurrent, PushReturns, TypeOK, PushCall, PushPC
<1>4. ASSUME NEW h \in Handlers, PushFindExisting(h) PROVE TypeOK'
  <2>1. push[h] \in PushCall
    BY <1>4, PushTyped DEF PushFindExisting
  <2>2. CASE push' = [push EXCEPT ![h].pc = "add"]
    BY <1>4, <2>1, <2>2 DEF PushFindExisting, TypeOK, PushCall, PushPC
  <2>3. ASSUME NEW i \in DOMAIN revisions,
               PushReturns(h, i, revisions[i].status = "conflict")
        PROVE  TypeOK'
    <3>1. i \in Nat /\ (revisions[i].status = "conflict") \in BOOLEAN
      BY DEF TypeOK
    <3> QED BY <1>4, <2>1, <2>3, <3>1
            DEF PushFindExisting, PushReturns, TypeOK, PushCall, PushPC
  <2> QED BY <1>4, <2>2, <2>3
          DEF PushFindExisting, FindStreamRevisionByContentHash, StreamRevisions
<1>5. ASSUME NEW h \in Handlers, AddSaveRevision(h) PROVE TypeOK'
  <2>1. push[h] \in PushCall
    BY <1>5, PushTyped DEF AddSaveRevision
  <2>2. revisions' \in Seq(Revision)
    BY <1>5, <2>1, WithRevisionProperties DEF AddSaveRevision, TypeOK, PushCall
  <2>3. Len(revisions) + 1 \in Nat
    BY DEF TypeOK
  <2> QED BY <1>5, <2>1, <2>2, <2>3 DEF AddSaveRevision, PushReturns, TypeOK, PushCall, PushPC
<1>6. ASSUME NEW h \in Handlers, RequestEnds(h) PROVE TypeOK'
  BY <1>6 DEF RequestEnds, TypeOK
<1> QED BY <1>1, <1>2, <1>3, <1>4, <1>5, <1>6 DEF Next, PushStep

\* The tables and the calls in flight keep their types: in particular a call
\* that has read a row holds the id of a row.
THEOREM TypeCorrect == Spec => []TypeOK
BY InitTypeOK, NextTypeOK, PTL DEF Spec

-----------------------------------------------------------------------------
(* What a step does to the table *)

LEMMA AddSaveRevisionEffect ==
  ASSUME TypeOK, NEW h \in Handlers, AddSaveRevision(h)
  PROVE  LET n == Len(revisions)
             p == push[h]
         IN  /\ n \in Nat
             /\ p \in PushCall
             /\ DOMAIN revisions = 1..n
             /\ DOMAIN revisions' = 1..(n + 1)
             /\ \A i \in 1..n :
                  /\ revisions[i] \in Revision
                  /\ revisions'[i] = AfterAppend(revisions[i], p.stream, p.conflict)
             /\ revisions'[n + 1] =
                  [stream |-> p.stream, device |-> p.device, parent |-> p.base,
                   hash |-> p.hash,
                   status |-> IF p.conflict THEN "conflict" ELSE "current"]
             /\ push' = [push EXCEPT ![h].pc = "done", ![h].result = n + 1,
                                      ![h].conflict = p.conflict]
<1>1. push[h] \in PushCall
  BY PushTyped DEF AddSaveRevision
<1>2. /\ push[h].stream \in Streams /\ push[h].device \in Devices
      /\ push[h].base \in Nat /\ push[h].hash \in Hashes
      /\ push[h].conflict \in BOOLEAN
  BY <1>1 DEF PushCall
<1>3. revisions \in Seq(Revision)
  BY DEF TypeOK
<1>4. revisions' = WithRevision(push[h].stream, push[h].device, push[h].base,
                                push[h].hash, push[h].conflict)
  BY DEF AddSaveRevision
<1>5. \A i \in 1..Len(revisions) : revisions[i] \in Revision
  BY <1>3
<1> QED
  BY <1>1, <1>2, <1>3, <1>4, <1>5, WithRevisionProperties
     DEF AddSaveRevision, PushReturns

\* A revision keeps everything but its status, and only the appending request
\* adds a row to its stream.
LEMMA StreamsGrow ==
  ASSUME TypeOK, NEW h \in Handlers, AddSaveRevision(h)
  PROVE  LET n == Len(revisions)
             p == push[h]
         IN  /\ \A i \in 1..n :
                  /\ revisions'[i].stream = revisions[i].stream
                  /\ revisions'[i].hash = revisions[i].hash
                  /\ revisions'[i].parent = revisions[i].parent
                  /\ revisions'[i].status =
                       IF ~p.conflict /\ revisions[i].stream = p.stream
                            /\ revisions[i].status = "current"
                         THEN "superseded" ELSE revisions[i].status
             /\ \A s \in Streams : StreamRevisions(s) \subseteq 1..n
             /\ \A s \in Streams :
                  StreamRevisions(s)' =
                    StreamRevisions(s) \cup (IF s = p.stream THEN {n + 1} ELSE {})
             /\ \A s \in Streams :
                  Published(s)' =
                    Published(s) \cup
                      (IF s = p.stream /\ ~p.conflict THEN {n + 1} ELSE {})
<1> DEFINE n == Len(revisions)
           p == push[h]
<1>1. /\ n \in Nat /\ p \in PushCall
      /\ DOMAIN revisions = 1..n /\ DOMAIN revisions' = 1..(n + 1)
      /\ \A i \in 1..n :
           /\ revisions[i] \in Revision
           /\ revisions'[i] = AfterAppend(revisions[i], p.stream, p.conflict)
      /\ revisions'[n + 1] =
           [stream |-> p.stream, device |-> p.device, parent |-> p.base,
            hash |-> p.hash,
            status |-> IF p.conflict THEN "conflict" ELSE "current"]
  BY AddSaveRevisionEffect
<1>a. /\ revisions'[n + 1].stream = p.stream
      /\ revisions'[n + 1].status = IF p.conflict THEN "conflict" ELSE "current"
  <2> HIDE DEF n, p
  <2> QED BY <1>1
<1>2. p.stream \in Streams /\ p.conflict \in BOOLEAN
  BY <1>1 DEF PushCall
<1> HIDE DEF n, p
<1>3. \A i \in 1..n :
        /\ revisions'[i].stream = revisions[i].stream
        /\ revisions'[i].hash = revisions[i].hash
        /\ revisions'[i].parent = revisions[i].parent
        /\ revisions'[i].status =
             IF ~p.conflict /\ revisions[i].stream = p.stream
                  /\ revisions[i].status = "current"
               THEN "superseded" ELSE revisions[i].status
  <2> TAKE i \in 1..n
  <2>1. revisions[i] \in Revision
    BY <1>1
  <2> QED BY <1>1, <1>2, <2>1, AfterAppendProperties
<1>4. ASSUME NEW s \in Streams
      PROVE  /\ StreamRevisions(s) \subseteq 1..n
             /\ StreamRevisions(s)' =
                  StreamRevisions(s) \cup (IF s = p.stream THEN {n + 1} ELSE {})
  BY <1>1, <1>a, <1>3 DEF StreamRevisions
<1>5. ASSUME NEW s \in Streams
      PROVE  Published(s)' =
               Published(s) \cup
                 (IF s = p.stream /\ ~p.conflict THEN {n + 1} ELSE {})
  <2>1. \A i \in StreamRevisions(s) :
          revisions'[i].status = "conflict" <=> revisions[i].status = "conflict"
    BY <1>3, <1>4
  <2>2. \A i \in StreamRevisions(s) : i # n + 1
    BY <1>1, <1>4
  <2> QED BY <1>1, <1>a, <1>2, <1>4, <2>1, <2>2 DEF Published
<1> QED BY <1>3, <1>4, <1>5 DEF n, p

\* AddSaveRevision is the only step that writes the table.
LEMMA OnlyAddWrites ==
  ASSUME [Next]_storeVars
  PROVE  UNCHANGED revisions \/ \E h \in Handlers : AddSaveRevision(h)
BY ZenonT(40) DEF Next, PushStep, UploadRevision, PushReadCurrent, PushFindExisting,
       RequestEnds, storeVars

-----------------------------------------------------------------------------
(* The invariant of the store.  CurrentIsNewestPublished is not inductive    *)
(* alone: a conflict is appended on the strength of a read made steps ago,   *)
(* so what that read established has to last until the append.               *)

\* What a call has read stays true until it appends: its base is still a
\* revision of its stream, and a stream it diverged from still has a line.
CallReads(p) ==
  p.pc \in {"find", "add"} =>
    /\ p.base = NoRevision \/ p.base \in StreamRevisions(p.stream)
    /\ p.conflict => Published(p.stream) # {}

ReadsHold == \A h \in Handlers : CallReads(push[h])

StoreInv == /\ TypeOK
            /\ ReadsHold
            /\ CurrentIsNewestPublished
            /\ ParentIsOlderInStream
            /\ ResultHoldsContent

LEMMA InitStoreInv == Init => StoreInv
<1> SUFFICES ASSUME Init PROVE StoreInv
  OBVIOUS
<1>1. TypeOK
  BY InitTypeOK
<1>2. ReadsHold /\ ResultHoldsContent
  BY DEF Init, ReadsHold, CallReads, ResultHoldsContent, NoPush
<1>3. CurrentIsNewestPublished /\ ParentIsOlderInStream
  BY DEF Init, CurrentIsNewestPublished, ParentIsOlderInStream, StreamRevisions
<1> QED BY <1>1, <1>2, <1>3 DEF StoreInv

\* A step that leaves the table alone keeps what is said of the table only.
LEMMA TableKept ==
  ASSUME UNCHANGED revisions
  PROVE  /\ CurrentIsNewestPublished => CurrentIsNewestPublished'
         /\ ParentIsOlderInStream => ParentIsOlderInStream'
         /\ \A s : StreamRevisions(s)' = StreamRevisions(s)
         /\ \A s : Published(s)' = Published(s)
BY DEF CurrentIsNewestPublished, ParentIsOlderInStream, StreamRevisions, Published,
       IsNewestOf

\* A request that is not the one stepping keeps its call.
LEMMA OneCallMoves ==
  ASSUME TypeOK, NEW h \in Handlers,
         UploadRevision(h) \/ PushStep(h) \/ RequestEnds(h)
  PROVE  \A g \in Handlers : g # h => push'[g] = push[g]
BY DEF TypeOK, UploadRevision, PushSet, PushStep, PushReadCurrent, PushFindExisting,
       AddSaveRevision, RequestEnds, PushReturns

\* What was read of a stream is kept by whatever the table goes through.
LEMMA ReadsLast ==
  ASSUME TypeOK, NEW p \in PushCall, CallReads(p),
         UNCHANGED revisions \/ \E h \in Handlers : AddSaveRevision(h)
  PROVE  CallReads(p)'
<1>1. p.stream \in Streams
  BY DEF PushCall
<1>2. CASE UNCHANGED revisions
  BY <1>2 DEF CallReads, StreamRevisions, Published
<1>3. ASSUME NEW h \in Handlers, AddSaveRevision(h) PROVE CallReads(p)'
  <2>1. /\ StreamRevisions(p.stream) \subseteq StreamRevisions(p.stream)'
        /\ Published(p.stream) \subseteq Published(p.stream)'
    BY <1>1, <1>3, StreamsGrow
  <2> QED BY <2>1 DEF CallReads
<1> QED BY <1>2, <1>3

LEMMA ReadsHoldStep == StoreInv /\ [Next]_storeVars => ReadsHold'
<1> SUFFICES ASSUME StoreInv, [Next]_storeVars, NEW g \in Handlers
             PROVE  CallReads(push[g])'
  BY DEF ReadsHold
<1>a. TypeOK /\ CallReads(push[g])
  BY DEF StoreInv, ReadsHold
<1>b. ASSUME NEW p \in PushCall, CallReads(p),
             push'[g].pc \in {"find", "add"} =>
               /\ p.pc \in {"find", "add"}
               /\ push'[g].base = p.base /\ push'[g].stream = p.stream
               /\ push'[g].conflict = p.conflict
      PROVE  CallReads(push[g])'
  <2>1. CallReads(p)'
    BY <1>a, <1>b, ReadsLast, OnlyAddWrites
  <2> QED BY <1>b, <2>1 DEF CallReads, StreamRevisions, Published
<1>c. ASSUME push'[g] = push[g] PROVE CallReads(push[g])'
  <2>1. CASE push[g].pc = "idle"
    BY <1>c, <2>1 DEF CallReads
  <2>2. CASE push[g].pc # "idle"
    BY <1>a, <1>b, <1>c, <2>2, PushTyped
  <2> QED BY <2>1, <2>2
<1>1. CASE UNCHANGED storeVars
  BY <1>1, <1>c DEF storeVars
<1>2. ASSUME NEW h \in Handlers, UploadRevision(h) PROVE CallReads(push[g])'
  <2>1. CASE g = h
    BY <1>2, <1>a, <2>1 DEF UploadRevision, PushSet, TypeOK, CallReads
  <2> QED BY <1>2, <2>1, <1>a, <1>c, OneCallMoves
<1>3. ASSUME NEW h \in Handlers, PushReadCurrent(h) PROVE CallReads(push[g])'
  <2>1. CASE g = h
    <3> DEFINE p == push[g]
               latest == CurrentStreamRevision(p.stream)
    <3>1. p \in PushCall /\ p.stream \in Streams /\ p.hash \in Hashes
      BY <1>3, <2>1, <1>a, PushTyped DEF PushReadCurrent, PushCall
    <3>2. latest # NoRevision => latest \in Published(p.stream)
      BY <1>a, <3>1, QueryReturnsCurrent DEF TypeOK, Published
    <3>3. push'[g].pc \in {"find", "add"} =>
            /\ p.base = NoRevision \/ BelongsTo(p.base, p.stream)
            /\ push'[g].base = p.base /\ push'[g].stream = p.stream
            /\ push'[g].conflict = (latest # NoRevision /\ p.base # latest)
      BY <1>3, <2>1, <1>a, <3>1 DEF PushReadCurrent, PushReturns, PushCall, TypeOK
    <3>4. UNCHANGED revisions
      BY <1>3 DEF PushReadCurrent
    <3> HIDE DEF p, latest
    <3> QED BY <3>2, <3>3, <3>4
            DEF BelongsTo, CallReads, StreamRevisions, Published
  <2> QED BY <1>3, <2>1, <1>a, <1>c, OneCallMoves DEF PushStep
<1>4. ASSUME NEW h \in Handlers, PushFindExisting(h) PROVE CallReads(push[g])'
  <2>1. CASE g = h
    <3>1. push[g] \in PushCall
      BY <1>4, <2>1, <1>a, PushTyped DEF PushFindExisting
    <3>2. push'[g].pc \in {"find", "add"} =>
            /\ push[g].pc = "find"
            /\ push'[g].base = push[g].base /\ push'[g].stream = push[g].stream
            /\ push'[g].conflict = push[g].conflict
      <4>1. CASE push' = [push EXCEPT ![h].pc = "add"]
        BY <1>4, <2>1, <1>a, <3>1, <4>1 DEF PushFindExisting, PushCall, TypeOK
      <4>2. ASSUME NEW i \in DOMAIN revisions,
                   PushReturns(h, i, revisions[i].status = "conflict")
            PROVE  push'[g].pc = "done"
        BY <2>1, <1>a, <4>2 DEF PushReturns, TypeOK
      <4> QED BY <1>4, <4>1, <4>2
              DEF PushFindExisting, FindStreamRevisionByContentHash, StreamRevisions
    <3> QED BY <1>a, <1>b, <3>1, <3>2
  <2> QED BY <1>4, <2>1, <1>a, <1>c, OneCallMoves DEF PushStep
<1>5. ASSUME NEW h \in Handlers, AddSaveRevision(h) PROVE CallReads(push[g])'
  <2>1. CASE g = h
    BY <1>5, <1>a, <2>1, PushTyped
       DEF AddSaveRevision, PushReturns, TypeOK, CallReads, PushCall
  <2> QED BY <1>5, <2>1, <1>a, <1>c, OneCallMoves DEF PushStep
<1>6. ASSUME NEW h \in Handlers, RequestEnds(h) PROVE CallReads(push[g])'
  <2>1. CASE g = h
    BY <1>6, <1>a, <2>1 DEF RequestEnds, TypeOK, NoPush, CallReads
  <2> QED BY <1>6, <2>1, <1>a, <1>c, OneCallMoves
<1> QED BY <1>1, <1>2, <1>3, <1>4, <1>5, <1>6 DEF Next, PushStep

\* The append of a call: the row it adds becomes the newest published one, or
\* the line it diverged from keeps its current revision.
LEMMA CurrentStep ==
  ASSUME StoreInv, [Next]_storeVars
  PROVE  CurrentIsNewestPublished'
<1>1. CASE UNCHANGED revisions
  BY <1>1, TableKept DEF StoreInv
<1>2. ASSUME NEW h \in Handlers, AddSaveRevision(h)
      PROVE  CurrentIsNewestPublished'
  <2> DEFINE n == Len(revisions)
             p == push[h]
  <2>1. /\ TypeOK /\ CurrentIsNewestPublished
        /\ p.conflict => Published(p.stream) # {}
    BY <1>2 DEF StoreInv, ReadsHold, CallReads, AddSaveRevision
  <2>2. /\ n \in Nat /\ p \in PushCall /\ p.stream \in Streams /\ p.conflict \in BOOLEAN
        /\ revisions'[n + 1] =
             [stream |-> p.stream, device |-> p.device, parent |-> p.base,
              hash |-> p.hash,
              status |-> IF p.conflict THEN "conflict" ELSE "current"]
    BY <1>2, <2>1, AddSaveRevisionEffect DEF PushCall
  <2>a. revisions'[n + 1].status = IF p.conflict THEN "conflict" ELSE "current"
    <3> HIDE DEF n, p
    <3> QED BY <2>2
  <2>3. /\ \A i \in 1..n :
             /\ revisions'[i].stream = revisions[i].stream
             /\ revisions'[i].status =
                  IF ~p.conflict /\ revisions[i].stream = p.stream
                       /\ revisions[i].status = "current"
                    THEN "superseded" ELSE revisions[i].status
        /\ \A s \in Streams : StreamRevisions(s) \subseteq 1..n
        /\ \A s \in Streams :
             StreamRevisions(s)' =
               StreamRevisions(s) \cup (IF s = p.stream THEN {n + 1} ELSE {})
        /\ \A s \in Streams :
             Published(s)' =
               Published(s) \cup (IF s = p.stream /\ ~p.conflict THEN {n + 1} ELSE {})
    BY <1>2, <2>1, StreamsGrow
  <2>4. \A s \in Streams : \A i \in Published(s) :
          i \in 1..n /\ revisions[i].stream = s
    BY <2>3 DEF Published, StreamRevisions
  <2> HIDE DEF n, p
  <2> SUFFICES ASSUME NEW s \in Streams, StreamRevisions(s)' # {}
               PROVE  \E i \in Published(s)' :
                         /\ \A j \in Published(s)' : j <= i
                         /\ \A j \in Published(s)' :
                              revisions'[j].status = "current" <=> j = i
    BY DEF CurrentIsNewestPublished, IsNewestOf
  <2>5. CASE s = p.stream /\ ~p.conflict
    <3>1. /\ Published(s)' = Published(s) \cup {n + 1}
          /\ \A j \in Published(s) : j \in 1..n /\ revisions'[j].status # "current"
          /\ revisions'[n + 1].status = "current"
      BY <2>2, <2>a, <2>3, <2>4, <2>5
    <3> QED BY <2>2, <3>1
  <2>6. CASE s # p.stream \/ p.conflict
    <3>1. /\ Published(s)' = Published(s)
          /\ \A j \in Published(s) : revisions'[j].status = revisions[j].status
      <4>1. Published(s)' = Published(s)
        <5>1. Published(s)' = Published(s) \cup {}
          BY <2>2, <2>3, <2>6
        <5> QED BY <5>1
      <4>2. ASSUME NEW j \in Published(s)
            PROVE  revisions'[j].status = revisions[j].status
        <5>1. j \in 1..n /\ revisions[j].stream = s
          BY <2>4
        <5> QED BY <5>1, <2>2, <2>3, <2>6
      <4> QED BY <4>1, <4>2
    <3>2. StreamRevisions(s) # {}
      <4>1. CASE s # p.stream
        BY <4>1, <2>3
      <4>2. CASE s = p.stream /\ p.conflict
        BY <4>2, <2>1 DEF p, Published
      <4> QED BY <4>1, <4>2, <2>6
    <3>3. PICK i \in Published(s) :
            /\ \A j \in Published(s) : j <= i
            /\ \A j \in Published(s) : revisions[j].status = "current" <=> j = i
      BY <2>1, <3>2 DEF CurrentIsNewestPublished, IsNewestOf
    <3> QED BY <3>1, <3>3
  <2> QED BY <2>5, <2>6
<1> QED BY <1>1, <1>2, OnlyAddWrites

LEMMA ParentStep ==
  ASSUME StoreInv, [Next]_storeVars
  PROVE  ParentIsOlderInStream'
<1>1. CASE UNCHANGED revisions
  BY <1>1, TableKept DEF StoreInv
<1>2. ASSUME NEW h \in Handlers, AddSaveRevision(h)
      PROVE  ParentIsOlderInStream'
  <2> DEFINE n == Len(revisions)
             p == push[h]
  <2>1. /\ TypeOK /\ ParentIsOlderInStream
        /\ p.base = NoRevision \/ p.base \in StreamRevisions(p.stream)
    BY <1>2 DEF StoreInv, ReadsHold, CallReads, AddSaveRevision
  <2>2. /\ n \in Nat /\ p.stream \in Streams
        /\ DOMAIN revisions = 1..n /\ DOMAIN revisions' = 1..(n + 1)
        /\ revisions'[n + 1] =
             [stream |-> p.stream, device |-> p.device, parent |-> p.base,
              hash |-> p.hash,
              status |-> IF p.conflict THEN "conflict" ELSE "current"]
    BY <1>2, <2>1, AddSaveRevisionEffect DEF PushCall
  <2>a. revisions'[n + 1].stream = p.stream /\ revisions'[n + 1].parent = p.base
    <3> HIDE DEF n, p
    <3> QED BY <2>2
  <2>3. \A i \in 1..n : /\ revisions'[i].stream = revisions[i].stream
                        /\ revisions'[i].parent = revisions[i].parent
    BY <1>2, <2>1, StreamsGrow
  <2>4. p.base # NoRevision => p.base \in 1..n /\ revisions[p.base].stream = p.stream
    BY <2>1, <2>2 DEF StreamRevisions
  <2>5. \A i \in 1..n : revisions[i].parent # NoRevision =>
          /\ revisions[i].parent < i /\ revisions[i].parent \in 1..n
          /\ revisions[revisions[i].parent].stream = revisions[i].stream
    <3> SUFFICES ASSUME NEW i \in 1..n, revisions[i].parent # NoRevision
                 PROVE  /\ revisions[i].parent < i /\ revisions[i].parent \in 1..n
                        /\ revisions[revisions[i].parent].stream = revisions[i].stream
      OBVIOUS
    <3>1. revisions[i].parent \in Nat
      <4>1. revisions[i] \in Revision
        BY <1>2, <2>1, AddSaveRevisionEffect
      <4> QED BY <4>1 DEF Revision
    <3> QED BY <2>1, <2>2, <3>1 DEF ParentIsOlderInStream, NoRevision
  <2> HIDE DEF n, p
  <2> SUFFICES ASSUME NEW i \in 1..(n + 1), revisions'[i].parent # NoRevision
               PROVE  /\ revisions'[i].parent < i
                      /\ revisions'[revisions'[i].parent].stream = revisions'[i].stream
    BY <2>2 DEF ParentIsOlderInStream
  <2>6. CASE i \in 1..n
    BY <2>3, <2>5, <2>6
  <2>7. CASE i = n + 1
    BY <2>2, <2>a, <2>3, <2>4, <2>7
  <2> QED BY <2>2, <2>6, <2>7
<1> QED BY <1>1, <1>2, OnlyAddWrites

\* A finished call and the row it names.
ResultHolds(p) ==
  p.pc = "done" =>
    /\ p.result \in StreamRevisions(p.stream)
    /\ revisions[p.result].hash = p.hash
    /\ p.conflict <=> revisions[p.result].status = "conflict"

LEMMA ResultLasts ==
  ASSUME TypeOK, NEW p \in PushCall, ResultHolds(p), p.pc = "done",
         UNCHANGED revisions \/ \E h \in Handlers : AddSaveRevision(h)
  PROVE  ResultHolds(p)'
<1>1. CASE UNCHANGED revisions
  BY <1>1 DEF ResultHolds, StreamRevisions
<1>2. ASSUME NEW h \in Handlers, AddSaveRevision(h) PROVE ResultHolds(p)'
  <2>1. p.stream \in Streams
    BY DEF PushCall
  <2>2. /\ p.result \in StreamRevisions(p.stream)
        /\ p.result \in 1..Len(revisions)
        /\ p.result \in StreamRevisions(p.stream)'
    BY <1>2, <2>1, StreamsGrow DEF ResultHolds
  <2>3. /\ revisions'[p.result].hash = revisions[p.result].hash
        /\ revisions'[p.result].status = "conflict"
             <=> revisions[p.result].status = "conflict"
    BY <1>2, <2>2, StreamsGrow
  <2> QED BY <2>2, <2>3 DEF ResultHolds
<1> QED BY <1>1, <1>2

LEMMA ResultStep ==
  ASSUME StoreInv, [Next]_storeVars
  PROVE  ResultHoldsContent'
<1> SUFFICES ASSUME NEW g \in Handlers PROVE ResultHolds(push[g])'
  BY DEF ResultHoldsContent, ResultHolds
<1>a. TypeOK /\ ResultHolds(push[g])
  BY DEF StoreInv, ResultHoldsContent, ResultHolds
<1>b. ASSUME push'[g] = push[g] PROVE ResultHolds(push[g])'
  <2>1. CASE push[g].pc # "done"
    BY <1>b, <2>1 DEF ResultHolds
  <2>2. CASE push[g].pc = "done"
    <3>1. push[g] \in PushCall
      BY <1>a, <2>2, PushTyped
    <3>2. PICK p \in PushCall : p = push[g]
      BY <3>1
    <3>3. ResultHolds(p)'
      BY <1>a, <2>2, <3>2, ResultLasts, OnlyAddWrites
    <3> QED BY <1>b, <3>2, <3>3 DEF ResultHolds, StreamRevisions
  <2> QED BY <2>1, <2>2
<1>1. CASE UNCHANGED storeVars
  BY <1>1, <1>b DEF storeVars
<1>2. ASSUME NEW h \in Handlers, UploadRevision(h) PROVE ResultHolds(push[g])'
  <2>1. CASE g = h
    BY <1>2, <1>a, <2>1 DEF UploadRevision, PushSet, TypeOK, ResultHolds
  <2> QED BY <1>2, <2>1, <1>a, <1>b, OneCallMoves
<1>3. ASSUME NEW h \in Handlers, PushReadCurrent(h) PROVE ResultHolds(push[g])'
  <2>1. CASE g = h
    <3> DEFINE p == push[g]
               latest == CurrentStreamRevision(p.stream)
    <3>1. p \in PushCall /\ p.stream \in Streams /\ p.hash \in Hashes
      BY <1>3, <2>1, <1>a, PushTyped DEF PushReadCurrent, PushCall
    <3>2. latest # NoRevision => /\ latest \in StreamRevisions(p.stream)
                                 /\ revisions[latest].status = "current"
      BY <1>a, <3>1, QueryReturnsCurrent DEF TypeOK
    <3>3. push'[g].pc = "done" =>
            /\ latest # NoRevision /\ revisions[latest].hash = p.hash
            /\ push'[g].result = latest /\ push'[g].stream = p.stream
            /\ push'[g].hash = p.hash /\ push'[g].conflict = FALSE
      BY <1>3, <2>1, <1>a, <3>1 DEF PushReadCurrent, PushReturns, PushCall, TypeOK
    <3>4. UNCHANGED revisions
      BY <1>3 DEF PushReadCurrent
    <3> HIDE DEF p, latest
    <3> QED BY <3>2, <3>3, <3>4 DEF ResultHolds, StreamRevisions
  <2> QED BY <1>3, <2>1, <1>a, <1>b, OneCallMoves DEF PushStep
<1>4. ASSUME NEW h \in Handlers, PushFindExisting(h) PROVE ResultHolds(push[g])'
  <2>1. CASE g = h
    <3> DEFINE p == push[g]
               found == FindStreamRevisionByContentHash(p.stream, p.hash)
    <3>1. p \in PushCall /\ p.stream \in Streams /\ p.hash \in Hashes
      BY <1>4, <2>1, <1>a, PushTyped DEF PushFindExisting, PushCall
    <3>2. \A i \in found : /\ i \in StreamRevisions(p.stream)
                           /\ revisions[i].hash = p.hash
      BY DEF FindStreamRevisionByContentHash
    <3>3. push'[g].pc = "done" =>
            \E existing \in found :
              /\ push'[g].result = existing /\ push'[g].stream = p.stream
              /\ push'[g].hash = p.hash
              /\ push'[g].conflict = (revisions[existing].status = "conflict")
      <4>1. CASE push' = [push EXCEPT ![h].pc = "add"]
        BY <1>4, <2>1, <1>a, <3>1, <4>1 DEF PushCall, TypeOK
      <4>2. ASSUME NEW i \in found,
                   PushReturns(h, i, revisions[i].status = "conflict")
            PROVE  /\ push'[g].result = i /\ push'[g].stream = p.stream
                   /\ push'[g].hash = p.hash
                   /\ push'[g].conflict = (revisions[i].status = "conflict")
        BY <2>1, <1>a, <3>1, <4>2 DEF PushReturns, TypeOK, PushCall
      <4> QED BY <1>4, <2>1, <4>1, <4>2 DEF PushFindExisting
    <3>4. UNCHANGED revisions
      BY <1>4 DEF PushFindExisting
    <3> HIDE DEF p, found
    <3> QED BY <3>2, <3>3, <3>4 DEF ResultHolds, StreamRevisions
  <2> QED BY <1>4, <2>1, <1>a, <1>b, OneCallMoves DEF PushStep
<1>5. ASSUME NEW h \in Handlers, AddSaveRevision(h) PROVE ResultHolds(push[g])'
  <2>1. CASE g = h
    <3> DEFINE p == push[g]
               n == Len(revisions)
    <3>1. /\ n \in Nat /\ p \in PushCall
          /\ p.stream \in Streams /\ p.conflict \in BOOLEAN
          /\ revisions'[n + 1] =
               [stream |-> p.stream, device |-> p.device, parent |-> p.base,
                hash |-> p.hash,
                status |-> IF p.conflict THEN "conflict" ELSE "current"]
          /\ push' = [push EXCEPT ![h].pc = "done", ![h].result = n + 1,
                                  ![h].conflict = p.conflict]
          /\ DOMAIN revisions' = 1..(n + 1)
      BY <1>5, <2>1, <1>a, AddSaveRevisionEffect DEF PushCall
    <3>2. /\ push'[g].result = n + 1 /\ push'[g].stream = p.stream
          /\ push'[g].hash = p.hash /\ push'[g].conflict = p.conflict
      BY <2>1, <1>a, <3>1 DEF PushCall, TypeOK
    <3> HIDE DEF p, n
    <3>3. /\ revisions'[n + 1].hash = p.hash /\ revisions'[n + 1].stream = p.stream
          /\ revisions'[n + 1].status = IF p.conflict THEN "conflict" ELSE "current"
      BY <3>1
    <3> QED BY <3>1, <3>2, <3>3 DEF ResultHolds, StreamRevisions
  <2> QED BY <1>5, <2>1, <1>a, <1>b, OneCallMoves DEF PushStep
<1>6. ASSUME NEW h \in Handlers, RequestEnds(h) PROVE ResultHolds(push[g])'
  <2>1. CASE g = h
    BY <1>6, <1>a, <2>1 DEF RequestEnds, TypeOK, NoPush, ResultHolds
  <2> QED BY <1>6, <2>1, <1>a, <1>b, OneCallMoves
<1> QED BY <1>1, <1>2, <1>3, <1>4, <1>5, <1>6 DEF Next, PushStep

LEMMA NextStoreInv == StoreInv /\ [Next]_storeVars => StoreInv'
BY NextTypeOK, ReadsHoldStep, CurrentStep, ParentStep, ResultStep DEF StoreInv

-----------------------------------------------------------------------------
(* Theorems *)

\* The calls of PushSet and the table satisfy the store's invariant however
\* the calls interleave.
THEOREM StoreInvariance == Spec => []StoreInv
BY InitStoreInv, NextStoreInv, PTL DEF Spec

\* A stream with revisions has exactly one current revision, the newest ever
\* published to it: no interleaving of PushSet calls loses the line, splits
\* it, or moves it back.
THEOREM OneCurrentRevision == Spec => []CurrentIsNewestPublished
<1>1. StoreInv => CurrentIsNewestPublished
  BY DEF StoreInv
<1> QED BY <1>1, StoreInvariance, PTL

\* The parents of a stream's revisions lead back in time and never out of it.
THEOREM Ancestry == Spec => []ParentIsOlderInStream
<1>1. StoreInv => ParentIsOlderInStream
  BY DEF StoreInv
<1> QED BY <1>1, StoreInvariance, PTL

\* An upload that returned success returned a stored row with its content.
THEOREM UploadsAreKept == Spec => []ResultHoldsContent
<1>1. StoreInv => ResultHoldsContent
  BY DEF StoreInv
<1> QED BY <1>1, StoreInvariance, PTL

\* No step of the store drops a revision or rewrites one: rows are appended,
\* and a current one becomes superseded.
THEOREM RevisionsAppendOnly == Spec => AppendOnly
<1>1. ASSUME StoreInv, [Next]_storeVars
      PROVE  [\A i \in DOMAIN revisions :
                /\ i \in DOMAIN revisions'
                /\ revisions'[i] # revisions[i] =>
                     /\ revisions[i].status = "current"
                     /\ revisions'[i] = [revisions[i] EXCEPT !.status = "superseded"]
             ]_revisions
  <2>1. TypeOK
    BY <1>1 DEF StoreInv
  <2>2. CASE UNCHANGED revisions
    BY <2>2
  <2>3. ASSUME NEW h \in Handlers, AddSaveRevision(h), NEW i \in DOMAIN revisions
        PROVE  /\ i \in DOMAIN revisions'
               /\ revisions'[i] # revisions[i] =>
                    /\ revisions[i].status = "current"
                    /\ revisions'[i] = [revisions[i] EXCEPT !.status = "superseded"]
    <3>1. /\ i \in 1..Len(revisions) /\ Len(revisions) \in Nat
          /\ DOMAIN revisions' = 1..(Len(revisions) + 1)
          /\ revisions[i] \in Revision /\ push[h] \in PushCall
          /\ revisions'[i] =
               AfterAppend(revisions[i], push[h].stream, push[h].conflict)
      BY <2>1, <2>3, AddSaveRevisionEffect
    <3>2. push[h].stream \in Streams /\ push[h].conflict \in BOOLEAN
      BY <3>1 DEF PushCall
    <3> QED BY <3>1, <3>2, AfterAppendProperties
  <2> QED BY <1>1, <2>2, <2>3, OnlyAddWrites
<1> QED BY <1>1, StoreInvariance, PTL DEF Spec, AppendOnly

-----------------------------------------------------------------------------
(* What a call decided on *)

\* What a call made of the current revision it read: it diverged from one that
\* is not its base, and a stream without one takes no base at all.
CallDecides(p) ==
  p.pc \in {"find", "add"} =>
    /\ p.conflict <=> p.latest # NoRevision /\ p.base # p.latest
    /\ p.latest = NoRevision => p.base = NoRevision

CallsDecide == \A h \in Handlers : CallDecides(push[h])

\* A stream without a current revision has no revision.
LEMMA NoCurrentNoRevisions ==
  ASSUME TypeOK, CurrentIsNewestPublished, NEW s \in Streams
  PROVE  CurrentStreamRevision(s) = NoRevision => StreamRevisions(s) = {}
<1> SUFFICES ASSUME StreamRevisions(s) # {} PROVE CurrentStreamRevision(s) # NoRevision
  OBVIOUS
<1> DEFINE C == {i \in StreamRevisions(s) : revisions[i].status = "current"}
<1>1. C \in SUBSET (1..Len(revisions)) /\ Len(revisions) \in Nat
  BY DEF TypeOK, StreamRevisions
<1>2. C # {}
  BY DEF CurrentIsNewestPublished, Published
<1>3. Newest(C) \in C
  BY <1>1, <1>2, NewestOfPositions DEF IsNewestOf
<1> QED BY <1>1, <1>3 DEF CurrentStreamRevision, NoRevision

LEMMA CallsDecideStep == StoreInv /\ CallsDecide /\ [Next]_storeVars => CallsDecide'
<1> SUFFICES ASSUME StoreInv, CallsDecide, [Next]_storeVars, NEW g \in Handlers
             PROVE  CallDecides(push[g])'
  BY DEF CallsDecide
<1>a. TypeOK /\ CurrentIsNewestPublished /\ CallDecides(push[g])
  BY DEF StoreInv, CallsDecide
<1>b. ASSUME push'[g].pc \in {"find", "add"} =>
               /\ push[g].pc \in {"find", "add"}
               /\ push'[g].base = push[g].base /\ push'[g].latest = push[g].latest
               /\ push'[g].conflict = push[g].conflict
      PROVE  CallDecides(push[g])'
  BY <1>a, <1>b DEF CallDecides
<1>1. CASE UNCHANGED storeVars
  BY <1>1, <1>b DEF storeVars
<1>2. ASSUME NEW h \in Handlers, UploadRevision(h) PROVE CallDecides(push[g])'
  <2>1. CASE g = h
    BY <1>2, <1>a, <2>1 DEF UploadRevision, PushSet, TypeOK, CallDecides
  <2> QED BY <1>2, <2>1, <1>a, <1>b, OneCallMoves
<1>3. ASSUME NEW h \in Handlers, PushReadCurrent(h) PROVE CallDecides(push[g])'
  <2>1. CASE g = h
    <3> DEFINE p == push[g]
               latest == CurrentStreamRevision(p.stream)
    <3>1. p \in PushCall /\ p.stream \in Streams
      BY <1>3, <2>1, <1>a, PushTyped DEF PushReadCurrent, PushCall
    <3>2. latest = NoRevision => ~BelongsTo(p.base, p.stream)
      BY <1>a, <3>1, NoCurrentNoRevisions DEF BelongsTo
    <3>3. push'[g].pc \in {"find", "add"} =>
            /\ p.base = NoRevision \/ BelongsTo(p.base, p.stream)
            /\ push'[g].base = p.base /\ push'[g].latest = latest
            /\ push'[g].conflict = (latest # NoRevision /\ p.base # latest)
      BY <1>3, <2>1, <1>a, <3>1 DEF PushReadCurrent, PushReturns, PushCall, TypeOK
    <3> HIDE DEF p, latest
    <3> QED BY <3>2, <3>3 DEF CallDecides
  <2> QED BY <1>3, <2>1, <1>a, <1>b, OneCallMoves DEF PushStep
<1>4. ASSUME NEW h \in Handlers, PushFindExisting(h) PROVE CallDecides(push[g])'
  <2>1. CASE g = h
    <3>1. push[g] \in PushCall
      BY <1>4, <2>1, <1>a, PushTyped DEF PushFindExisting
    <3>2. CASE push' = [push EXCEPT ![h].pc = "add"]
      BY <1>4, <1>b, <2>1, <1>a, <3>1, <3>2 DEF PushFindExisting, PushCall, TypeOK
    <3>3. ASSUME NEW i \in DOMAIN revisions,
                 PushReturns(h, i, revisions[i].status = "conflict")
          PROVE  push'[g].pc = "done"
      BY <2>1, <1>a, <3>3 DEF PushReturns, TypeOK
    <3> QED BY <1>4, <1>b, <3>2, <3>3
            DEF PushFindExisting, FindStreamRevisionByContentHash, StreamRevisions
  <2> QED BY <1>4, <2>1, <1>a, <1>b, OneCallMoves DEF PushStep
<1>5. ASSUME NEW h \in Handlers, AddSaveRevision(h) PROVE CallDecides(push[g])'
  <2>1. CASE g = h
    BY <1>5, <1>a, <2>1, PushTyped
       DEF AddSaveRevision, PushReturns, TypeOK, CallDecides, PushCall
  <2> QED BY <1>5, <2>1, <1>a, <1>b, OneCallMoves DEF PushStep
<1>6. ASSUME NEW h \in Handlers, RequestEnds(h) PROVE CallDecides(push[g])'
  <2>1. CASE g = h
    BY <1>6, <1>a, <2>1 DEF RequestEnds, TypeOK, NoPush, CallDecides
  <2> QED BY <1>6, <2>1, <1>a, <1>b, OneCallMoves
<1> QED BY <1>1, <1>2, <1>3, <1>4, <1>5, <1>6 DEF Next, PushStep

\* A push supersedes the revision it read, its own base, unless another one
\* was published since.
THEOREM SupersedesItsBase == Spec => SupersedesWhatItRead
<1>1. Init => CallsDecide
  BY DEF Init, CallsDecide, CallDecides, NoPush
<1>2. ASSUME StoreInv, CallsDecide, [Next]_storeVars
      PROVE  [\A h \in Handlers :
                LET p == push[h]
                IN  \A i \in DOMAIN revisions' \ DOMAIN revisions :
                      /\ p.pc = "add" /\ push'[h].pc = "done"
                      /\ p.latest = CurrentStreamRevision(p.stream)
                      /\ revisions'[i].status = "current"
                      => revisions'[i].parent = p.latest]_storeVars
  <2>1. TypeOK
    BY <1>2 DEF StoreInv
  <2>2. CASE UNCHANGED revisions
    BY <2>2
  <2>3. ASSUME NEW g \in Handlers, AddSaveRevision(g),
               NEW h \in Handlers, push[h].pc = "add", push'[h].pc = "done",
               NEW i \in DOMAIN revisions' \ DOMAIN revisions,
               revisions'[i].status = "current"
        PROVE  revisions'[i].parent = push[h].latest
    <3> DEFINE n == Len(revisions)
               p == push[g]
    <3>1. h = g
      BY <2>1, <2>3, OneCallMoves DEF PushStep
    <3>2. /\ n \in Nat /\ DOMAIN revisions = 1..n /\ DOMAIN revisions' = 1..(n + 1)
          /\ revisions'[n + 1] =
               [stream |-> p.stream, device |-> p.device, parent |-> p.base,
                hash |-> p.hash,
                status |-> IF p.conflict THEN "conflict" ELSE "current"]
      BY <2>1, <2>3, AddSaveRevisionEffect
    <3>3. i = n + 1
      BY <2>3, <3>2
    <3>4. CallDecides(p) /\ p.pc = "add"
      BY <1>2, <2>3 DEF CallsDecide, AddSaveRevision
    <3>5. revisions'[i].parent = p.base
          /\ revisions'[i].status = IF p.conflict THEN "conflict" ELSE "current"
      <4> HIDE DEF n, p
      <4> QED BY <3>2, <3>3
    <3> QED BY <2>3, <3>1, <3>4, <3>5 DEF CallDecides
  <2> QED BY <1>2, <2>2, <2>3, OnlyAddWrites
<1> QED BY <1>1, <1>2, InitStoreInv, NextStoreInv, CallsDecideStep, PTL
        DEF Spec, SupersedesWhatItRead

-----------------------------------------------------------------------------
(* SaveStore implements SaveHistory *)

\* What an append does to what CurrentStreamRevision returns for each stream.
LEMMA HeadMoves ==
  ASSUME StoreInv, NEW h \in Handlers, AddSaveRevision(h), NEW s \in Streams
  PROVE  LET p == push[h]
         IN  /\ CurrentStreamRevision(s)' =
                  IF s = p.stream /\ ~p.conflict THEN Len(revisions) + 1
                                                 ELSE CurrentStreamRevision(s)
             /\ s = p.stream /\ p.conflict => CurrentStreamRevision(s) # NoRevision
<1> DEFINE n == Len(revisions)
           p == push[h]
           C == {i \in StreamRevisions(s) : revisions[i].status = "current"}
           D == {i \in StreamRevisions(s)' : revisions'[i].status = "current"}
<1>1. /\ TypeOK /\ CurrentIsNewestPublished
      /\ p.conflict => Published(p.stream) # {}
  BY DEF StoreInv, ReadsHold, CallReads, AddSaveRevision
<1>2. /\ n \in Nat /\ p \in PushCall /\ p.stream \in Streams /\ p.conflict \in BOOLEAN
      /\ revisions'[n + 1] =
           [stream |-> p.stream, device |-> p.device, parent |-> p.base,
            hash |-> p.hash,
            status |-> IF p.conflict THEN "conflict" ELSE "current"]
  BY <1>1, AddSaveRevisionEffect DEF PushCall
<1>3. revisions'[n + 1].status = IF p.conflict THEN "conflict" ELSE "current"
  <2> HIDE DEF n, p
  <2> QED BY <1>2
<1>4. /\ \A i \in 1..n :
           revisions'[i].status =
             IF ~p.conflict /\ revisions[i].stream = p.stream
                  /\ revisions[i].status = "current"
               THEN "superseded" ELSE revisions[i].status
      /\ StreamRevisions(s) \subseteq 1..n
      /\ StreamRevisions(s)' =
           StreamRevisions(s) \cup (IF s = p.stream THEN {n + 1} ELSE {})
  BY <1>1, StreamsGrow
<1>5. \A i \in StreamRevisions(s) : revisions[i].stream = s
  BY DEF StreamRevisions
<1>6. CurrentStreamRevision(s) = Newest(C) /\ CurrentStreamRevision(s)' = Newest(D)
  BY DEF CurrentStreamRevision, Newest, IsNewestOf
<1> HIDE DEF n, p, C, D
<1>7. CASE s = p.stream /\ ~p.conflict
  <2>1. D = {n + 1}
    BY <1>2, <1>3, <1>4, <1>5, <1>7 DEF D
  <2>2. IsNewestOf(n + 1, D) /\ D \in SUBSET Nat
    BY <1>2, <2>1 DEF IsNewestOf
  <2>3. Newest(D) = n + 1
    BY <2>2, NewestIs
  <2> QED BY <1>6, <1>7, <2>3 DEF n, p
<1>8. CASE s # p.stream \/ p.conflict
  <2>1. D = C
    <3>1. ASSUME NEW i \in StreamRevisions(s)
          PROVE  i \in StreamRevisions(s)' /\ revisions'[i].status = revisions[i].status
      BY <1>2, <1>4, <1>5, <1>8, <3>1
    <3>2. ASSUME NEW i \in D PROVE i \in StreamRevisions(s)
      BY <1>2, <1>3, <1>4, <1>8, <3>2 DEF D
    <3> QED BY <3>1, <3>2 DEF C, D
  <2>2. s = p.stream /\ p.conflict => CurrentStreamRevision(s) # NoRevision
    BY <1>1, NoCurrentNoRevisions DEF Published
  <2> QED BY <1>6, <1>8, <2>1, <2>2 DEF p
<1> QED BY <1>2, <1>7, <1>8 DEF p

\* How a revision reads in the history.
EntryOf(r) == [stream |-> r.stream, hash |-> r.hash,
               kind |-> IF r.status = "conflict" THEN "preserved" ELSE "published"]

LEMMA AppendIs ==
  ASSUME NEW S, NEW n, NEW log \in Seq(S), Len(log) = n, NEW e \in S
  PROVE  /\ Append(log, e) \in Seq(S)
         /\ Len(Append(log, e)) = n + 1
         /\ \A i \in 1..n : Append(log, e)[i] = log[i]
         /\ Append(log, e)[n + 1] = e
OBVIOUS

\* What an append does to the history: the log grows by the row appended.
LEMMA LogGrows ==
  ASSUME TypeOK, NEW h \in Handlers, AddSaveRevision(h)
  PROVE  LET p == push[h]
         IN  /\ Len(HistoryLog) = Len(revisions)
             /\ HistoryLog' = Append(HistoryLog,
                  [stream |-> p.stream, hash |-> p.hash,
                   kind |-> IF p.conflict THEN "preserved" ELSE "published"])
<1> DEFINE n == Len(revisions)
           p == push[h]
           new == [stream |-> p.stream, hash |-> p.hash,
                   kind |-> IF p.conflict THEN "preserved" ELSE "published"]
           Entries == {EntryOf(r) : r \in Revision} \cup {new}
<1>1. /\ n \in Nat /\ p \in PushCall /\ DOMAIN revisions = 1..n
      /\ DOMAIN revisions' = 1..(n + 1)
      /\ \A i \in 1..n : revisions[i] \in Revision
      /\ revisions'[n + 1] =
           [stream |-> p.stream, device |-> p.device, parent |-> p.base,
            hash |-> p.hash,
            status |-> IF p.conflict THEN "conflict" ELSE "current"]
  BY AddSaveRevisionEffect
<1>2. EntryOf(revisions'[n + 1]) = new
  <2>1. /\ revisions'[n + 1].stream = p.stream /\ revisions'[n + 1].hash = p.hash
        /\ revisions'[n + 1].status = IF p.conflict THEN "conflict" ELSE "current"
    <3> HIDE DEF n, p
    <3> QED BY <1>1
  <2> QED BY <1>1, <2>1 DEF EntryOf, PushCall
<1>3. ASSUME NEW i \in 1..n PROVE EntryOf(revisions'[i]) = EntryOf(revisions[i])
  <2>1. /\ revisions'[i].stream = revisions[i].stream
        /\ revisions'[i].hash = revisions[i].hash
        /\ revisions'[i].status = "conflict" <=> revisions[i].status = "conflict"
    BY <1>3, StreamsGrow
  <2> QED BY <2>1 DEF EntryOf
<1>4. /\ HistoryLog = [i \in 1..n |-> EntryOf(revisions[i])]
      /\ HistoryLog' = [i \in 1..(n + 1) |-> EntryOf(revisions'[i])]
  BY <1>1 DEF HistoryLog, EntryOf
<1>5. HistoryLog \in Seq(Entries) /\ Len(HistoryLog) = n
  <2>1. \A i \in 1..n : EntryOf(revisions[i]) \in Entries
    BY <1>1
  <2> QED BY <1>1, <1>4, <2>1
<1> HIDE DEF n, p, new, Entries
<1>6. /\ Append(HistoryLog, new) \in Seq(Entries)
      /\ Len(Append(HistoryLog, new)) = n + 1
      /\ \A i \in 1..n : Append(HistoryLog, new)[i] = EntryOf(revisions[i])
      /\ Append(HistoryLog, new)[n + 1] = new
  <2>1. new \in Entries
    BY DEF Entries
  <2>2. /\ Append(HistoryLog, new) \in Seq(Entries)
        /\ Len(Append(HistoryLog, new)) = n + 1
        /\ \A i \in 1..n : Append(HistoryLog, new)[i] = HistoryLog[i]
        /\ Append(HistoryLog, new)[n + 1] = new
    BY <1>5, <2>1, AppendIs
  <2>3. \A i \in 1..n : HistoryLog[i] = EntryOf(revisions[i])
    BY <1>4
  <2> QED BY <2>2, <2>3
<1>7. /\ HistoryLog' \in Seq(Entries)
      /\ Len(HistoryLog') = n + 1
      /\ \A i \in 1..(n + 1) : HistoryLog'[i] = Append(HistoryLog, new)[i]
  <2>1. \A i \in 1..(n + 1) :
          EntryOf(revisions'[i]) = IF i = n + 1 THEN new ELSE EntryOf(revisions[i])
    BY <1>1, <1>2, <1>3
  <2>2. \A i \in 1..(n + 1) : EntryOf(revisions'[i]) \in Entries
    BY <1>1, <2>1 DEF Entries
  <2>3. HistoryLog' \in Seq(Entries) /\ Len(HistoryLog') = n + 1
    BY <1>1, <1>4, <2>2
  <2>4. \A i \in 1..(n + 1) : HistoryLog'[i] = EntryOf(revisions'[i])
    BY <1>4
  <2>5. \A i \in 1..(n + 1) : i = n + 1 \/ i \in 1..n
    BY <1>1
  <2>6. ASSUME NEW i \in 1..(n + 1)
        PROVE  HistoryLog'[i] = Append(HistoryLog, new)[i]
    <3>1. CASE i = n + 1
      <4>1. HistoryLog'[i] = new
        BY <2>1, <2>4, <3>1
      <4>2. Append(HistoryLog, new)[i] = new
        BY <1>6, <3>1
      <4> QED BY <4>1, <4>2
    <3>2. CASE i # n + 1
      <4>1. i \in 1..n
        BY <2>5, <3>2
      <4>2. HistoryLog'[i] = EntryOf(revisions[i])
        BY <2>1, <2>4, <3>2
      <4>3. Append(HistoryLog, new)[i] = EntryOf(revisions[i])
        BY <1>6, <4>1
      <4> QED BY <4>2, <4>3
    <3> QED BY <3>1, <3>2
  <2> QED BY <2>3, <2>6
<1>8. HistoryLog' = Append(HistoryLog, new)
  BY <1>1, <1>6, <1>7, SeqEqual
<1> QED BY <1>5, <1>8 DEF n, p, new

\* The history starts empty, with no head.
LEMMA HistoryStarts == Init => History!Init
<1> SUFFICES ASSUME Init PROVE HistoryLog = <<>>
                               /\ HistoryHead = [s \in Streams |-> 0]
  BY DEF History!Init
<1>1. DOMAIN revisions = {}
  BY DEF Init
<1>2. \A s \in Streams : CurrentStreamRevision(s) = 0
  BY <1>1, NewestOfNone DEF CurrentStreamRevision, StreamRevisions, NoRevision
<1>3. HistoryLog = <<>>
  BY <1>1 DEF HistoryLog, Init
<1> QED BY <1>2, <1>3 DEF HistoryHead

\* Whatever leaves the revisions alone leaves the history alone.
LEMMA HistoryRests ==
  ASSUME UNCHANGED revisions
  PROVE  UNCHANGED History!vars
BY DEF History!vars, HistoryLog, HistoryHead, CurrentStreamRevision, StreamRevisions,
       Newest, IsNewestOf

\* Each step of the store appends one accepted save, published at the head of
\* its stream or preserved beside a head that is there, or changes nothing of
\* the history.
LEMMA HistoryMoves ==
  ASSUME StoreInv, [Next]_storeVars
  PROVE  [History!Next]_(History!vars)
<1>1. CASE UNCHANGED revisions
  BY <1>1, HistoryRests
<1>2. ASSUME NEW h \in Handlers, AddSaveRevision(h) PROVE History!Next
  <2> DEFINE p == push[h]
  <2>1. TypeOK /\ p \in PushCall
    BY <1>2, PushTyped DEF StoreInv, AddSaveRevision
  <2>2. p.stream \in Streams /\ p.hash \in Hashes /\ p.conflict \in BOOLEAN
    BY <2>1 DEF PushCall
  <2>3. /\ Len(HistoryLog) = Len(revisions)
        /\ HistoryLog' = Append(HistoryLog,
             [stream |-> p.stream, hash |-> p.hash,
              kind |-> IF p.conflict THEN "preserved" ELSE "published"])
    BY <1>2, <2>1, LogGrows
  <2>4. \A s \in Streams :
          CurrentStreamRevision(s)' =
            IF s = p.stream /\ ~p.conflict THEN Len(revisions) + 1
                                           ELSE CurrentStreamRevision(s)
    BY <1>2, HeadMoves
  <2>5. p.conflict => CurrentStreamRevision(p.stream) # NoRevision
    BY <1>2, <2>2, HeadMoves
  <2> HIDE DEF p
  <2>6. CASE ~p.conflict
    <3>1. HistoryHead' = [HistoryHead EXCEPT ![p.stream] = Len(HistoryLog) + 1]
      BY <2>2, <2>3, <2>4, <2>6 DEF HistoryHead
    <3>2. History!Publish(p.stream, p.hash)
      BY <2>3, <2>6, <3>1 DEF History!Publish, History!Accept
    <3> QED BY <2>2, <3>2 DEF History!Next
  <2>7. CASE p.conflict
    <3>1. HistoryHead' = HistoryHead /\ HistoryHead[p.stream] # 0
      BY <2>2, <2>4, <2>5, <2>7 DEF HistoryHead, NoRevision
    <3>2. History!Preserve(p.stream, p.hash)
      BY <2>3, <2>7, <3>1 DEF History!Preserve, History!Accept
    <3> QED BY <2>2, <3>2 DEF History!Next
  <2> QED BY <2>2, <2>6, <2>7
<1> QED BY <1>1, <1>2, OnlyAddWrites

\* The revisions of the store are a history.
THEOREM StoreImplementsHistory == Spec => ImplementsHistory
BY HistoryStarts, HistoryMoves, StoreInvariance, PTL DEF Spec, ImplementsHistory, History!Spec
=============================================================================
