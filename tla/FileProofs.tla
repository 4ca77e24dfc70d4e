----------------------------- MODULE FileProofs -----------------------------
(***************************************************************************)
(* What the server writes to files: recordings, and logs that rotate.      *)
(*                                                                         *)
(* Recorder, for any number of ports, recordings and pieces of data, and   *)
(* buffers of any size: what web clients were sent while a recording was   *)
(* active is in its file, once and in order, and no piece of data is in    *)
(* two files.                                                              *)
(* The argument is about the line of a recording, that is what is in its   *)
(* file followed by what is in its buffer.  A flush, complete or not, only *)
(* moves records along the line; a new record is put at its end or left    *)
(* out; closing the file, and a crash, cut its end off.                    *)
(*                                                                         *)
(* LogRotation, for any number and size of files and whatever fails: what  *)
(* is kept and what a query answers.  The argument is about the files one  *)
(* by one (LogInv); that Results goes through them as it should is proved  *)
(* by induction on the lines of a file and on the files.                   *)
(***************************************************************************)
EXTENDS Recorder, LogRotation, FiniteSetTheorems, SequenceTheorems, WellFoundedInduction, TLAPS

-----------------------------------------------------------------------------
(* Recorder                                                                *)

Line(r) == recs[r].disk \o recs[r].buffer

\* No record twice, and what the device sent in the order of its numbers.
Sorted(s) ==
    \A i, j \in 1..Len(s) :
       i < j => s[i] # s[j] /\ (s[i].dir = "o" /\ s[j].dir = "o" => s[i].no < s[j].no)

LinesSorted == \A r \in Rec : Sorted(Line(r))

LinesPast == \A r \in Rec : \A i \in 1..Len(Line(r)) : Line(r)[i].no <= events

LinesApart ==
    \A r, q \in Rec : r # q =>
       \A i \in 1..Len(Line(r)), j \in 1..Len(Line(q)) : Line(r)[i] # Line(q)[j]

\* What waits to be broadcast is in order, and newer than all that was recorded.
PendingSorted ==
    \A i \in 1..Len(pending) :
       /\ pending[i].event.dir = "o" /\ pending[i].event.no <= events
       /\ \A j \in 1..Len(pending) : i < j => pending[i].event.no < pending[j].event.no

PendingLater ==
    \A i \in 1..Len(pending) : \A r \in Rec : \A k \in 1..Len(Line(r)) :
       Line(r)[k].dir = "o" => Line(r)[k].no < pending[i].event.no

PassedOK == \A r \in Rec : passed[r] \subseteq Written(r)

\* The files that are open are the active recordings.
Files ==
    /\ \A r \in Rec : /\ recs[r].file = "open" =>
                            recs[r].port \in Port /\ active[recs[r].port] = r
                      /\ r > made => recs[r] = Unborn
    /\ \A p \in Port : active[p] # 0 =>
          /\ active[p] \in 1..made
          /\ recs[active[p]].file = "open" /\ recs[active[p]].port = p

\* The inductive invariant.
IInv == /\ TypeOK /\ Files /\ PassedOK
        /\ LinesSorted /\ LinesPast /\ LinesApart /\ PendingSorted /\ PendingLater

Recording == [port : Port \cup {NoPort}, file : {"none", "open", "closed"},
              disk : Seq(Event), buffer : Seq(Event), named : BOOLEAN]

-----------------------------------------------------------------------------
(* Lines                                                                   *)

IsPrefixOf(s, t) == Len(s) <= Len(t) /\ \A i \in 1..Len(s) : s[i] = t[i]

LEMMA LineType ==
    ASSUME NEW rec \in Recording
    PROVE  /\ rec.disk \in Seq(Event) /\ rec.buffer \in Seq(Event)
           /\ rec.disk \o rec.buffer \in Seq(Event)
           /\ IsPrefixOf(rec.disk, rec.disk \o rec.buffer)
<1>1. rec.disk \in Seq(Event) /\ rec.buffer \in Seq(Event)
  BY DEF Recording
<1> DEFINE d == rec.disk  b == rec.buffer
<1>2. d \in Seq(Event) /\ b \in Seq(Event)
  BY <1>1
<1> HIDE DEF d, b
<1>3. /\ d \o b \in Seq(Event) /\ Len(d \o b) = Len(d) + Len(b)
      /\ \A i \in 1..Len(d) + Len(b) : (d \o b)[i] = IF i <= Len(d) THEN d[i] ELSE b[i - Len(d)]
  BY <1>2, ConcatProperties
<1>4. Len(d) \in Nat /\ Len(b) \in Nat
  BY <1>2
<1>5. IsPrefixOf(d, d \o b)
  BY <1>3, <1>4 DEF IsPrefixOf
<1> QED BY <1>1, <1>3, <1>5 DEF d, b

\* A record that is appended to the buffer is appended to the line.
LEMMA AppendToLine ==
    ASSUME NEW d \in Seq(Event), NEW b \in Seq(Event), NEW e \in Event
    PROVE  d \o Append(b, e) = Append(d \o b, e)
<1>1. Append(b, e) = b \o <<e>> /\ <<e>> \in Seq(Event)
  BY AppendIsConcat
<1>2. d \o b \in Seq(Event)
  BY ConcatProperties
<1>3. (d \o b) \o <<e>> = Append(d \o b, e)
  BY <1>2, AppendIsConcat
<1>4. (d \o b) \o <<e>> = d \o (b \o <<e>>)
  BY <1>1, ConcatAssociative
<1> QED BY <1>1, <1>3, <1>4

\* A flush that stops after n records leaves the line as it is.
LEMMA FlushKeepsLine ==
    ASSUME NEW d \in Seq(Event), NEW all \in Seq(Event), NEW n \in 0..Len(all)
    PROVE  /\ SubSeq(all, 1, n) \in Seq(Event) /\ SubSeq(all, n + 1, Len(all)) \in Seq(Event)
           /\ d \o SubSeq(all, 1, n) \in Seq(Event)
           /\ (d \o SubSeq(all, 1, n)) \o SubSeq(all, n + 1, Len(all)) = d \o all
<1>1. Len(all) \in Nat /\ n \in Int /\ \A i \in 1..Len(all) : all[i] \in Event
  BY LenProperties, ElementOfSeq
<1>2. SubSeq(all, 1, n) \in Seq(Event) /\ SubSeq(all, n + 1, Len(all)) \in Seq(Event)
  BY <1>1, SubSeqProperties
<1>3. SubSeq(all, 1, n) \o SubSeq(all, n + 1, Len(all)) = all
  <2>1. /\ 1 \in 1..Len(all) + 1 /\ n \in (1 - 1)..Len(all)
        /\ Len(all) \in n..Len(all)
    BY <1>1
  <2>2. SubSeq(all, 1, n) \o SubSeq(all, n + 1, Len(all)) = SubSeq(all, 1, Len(all))
    BY <2>1, ConcatAdjacentSubSeq
  <2> QED BY <2>2, SubSeqFull
<1> DEFINE h == SubSeq(all, 1, n)  t == SubSeq(all, n + 1, Len(all))
<1>4. h \in Seq(Event) /\ t \in Seq(Event) /\ h \o t = all
  BY <1>2, <1>3
<1> HIDE DEF h, t
<1>5. d \o h \in Seq(Event)
  BY <1>4, ConcatProperties
<1>6. (d \o h) \o t = d \o (h \o t)
  <2>1. d \in Seq(Event) /\ h \in Seq(Event) /\ t \in Seq(Event)
    BY <1>4
  <2> QED BY ONLY <2>1, ConcatAssociative
<1>7. (d \o h) \o t = d \o all
  BY <1>4, <1>6
<1> QED BY <1>4, <1>5, <1>7 DEF h, t

\* Closing the file cuts the end of the line off.
LEMMA CloseCutsLine ==
    ASSUME NEW d \in Seq(Event), NEW b \in Seq(Event), NEW n \in 0..Len(b)
    PROVE  /\ d \o SubSeq(b, 1, n) \in Seq(Event)
           /\ (d \o SubSeq(b, 1, n)) \o <<>> = d \o SubSeq(b, 1, n)
           /\ IsPrefixOf(d \o SubSeq(b, 1, n), d \o b)
<1> DEFINE t == SubSeq(b, 1, n)
<1>1. Len(b) \in Nat /\ Len(d) \in Nat /\ n \in Int /\ \A i \in 1..Len(b) : b[i] \in Event
  BY LenProperties, ElementOfSeq
<1>2. t \in Seq(Event) /\ Len(t) = n /\ \A i \in 1..n : t[i] = b[i]
  <2>1. \A i \in 1..n : b[i] \in Event
    BY <1>1
  <2>2. /\ t \in Seq(Event) /\ Len(t) = IF 1 <= n THEN n - 1 + 1 ELSE 0
        /\ \A i \in 1..n - 1 + 1 : t[i] = b[1 + i - 1]
    BY <1>1, <2>1, SubSeqProperties
  <2> QED BY <1>1, <2>2
<1> HIDE DEF t
<1>3. /\ d \o t \in Seq(Event) /\ Len(d \o t) = Len(d) + n
      /\ \A i \in 1..Len(d) + n : (d \o t)[i] = IF i <= Len(d) THEN d[i] ELSE t[i - Len(d)]
  BY <1>2, ConcatProperties
<1>4. /\ Len(d \o b) = Len(d) + Len(b)
      /\ \A i \in 1..Len(d) + Len(b) : (d \o b)[i] = IF i <= Len(d) THEN d[i] ELSE b[i - Len(d)]
  BY ConcatProperties
<1>5. IsPrefixOf(d \o t, d \o b)
  BY <1>1, <1>2, <1>3, <1>4 DEF IsPrefixOf
<1>6. (d \o t) \o <<>> = d \o t
  BY <1>3, ConcatEmptySeq
<1> QED BY <1>3, <1>5, <1>6 DEF t

LEMMA LinesAreSequences ==
    ASSUME TypeOK, NEW r \in Rec
    PROVE  /\ recs[r] \in Recording /\ Line(r) \in Seq(Event)
           /\ IsPrefixOf(recs[r].disk, Line(r))
<1>1. recs[r] \in Recording
  BY DEF TypeOK, Recording
<1> QED BY <1>1, LineType DEF Line

LEMMA PendingItems ==
    ASSUME TypeOK, NEW i \in 1..Len(pending)
    PROVE  pending[i].port \in Port /\ pending[i].event \in Event
<1> DEFINE Item == [port : Port, event : Event]
<1>1. pending \in Seq(Item)
  BY DEF TypeOK
<1> HIDE DEF Item
<1>2. pending[i] \in Item
  BY <1>1, ElementOfSeq
<1> QED BY <1>2 DEF Item

\* Lines that lose their ends keep what was said of them.
LEMMA LinesCut ==
    ASSUME IInv, events' \in Nat, events' >= events,
           \A r \in Rec : Line(r)' \in Seq(Event) /\ IsPrefixOf(Line(r)', Line(r))
    PROVE  /\ LinesSorted' /\ LinesPast' /\ LinesApart'
           /\ pending' = pending => PendingSorted' /\ PendingLater'
<1>1. /\ events \in Nat
      /\ \A r \in Rec : Line(r) \in Seq(Event) /\ Len(Line(r)) \in Nat /\ Len(Line(r)') \in Nat
  BY LinesAreSequences DEF IInv, TypeOK
<1>2. \A r \in Rec : \A i \in 1..Len(Line(r)') : i \in 1..Len(Line(r)) /\ Line(r)'[i] = Line(r)[i]
  BY <1>1 DEF IsPrefixOf
<1>3. LinesSorted'
  <2> SUFFICES ASSUME NEW r \in Rec, NEW i \in 1..Len(Line(r)'), NEW j \in 1..Len(Line(r)'), i < j
               PROVE  /\ Line(r)'[i] # Line(r)'[j]
                      /\ Line(r)'[i].dir = "o" /\ Line(r)'[j].dir = "o" =>
                            Line(r)'[i].no < Line(r)'[j].no
    BY DEF LinesSorted, Sorted
  <2>1. Sorted(Line(r))
    BY DEF IInv, LinesSorted
  <2> QED BY <1>2, <2>1 DEF Sorted
<1>4. LinesPast'
  <2> SUFFICES ASSUME NEW r \in Rec, NEW i \in 1..Len(Line(r)') PROVE Line(r)'[i].no <= events'
    BY DEF LinesPast
  <2>1. i \in 1..Len(Line(r)) /\ Line(r)'[i] = Line(r)[i]
    BY <1>2
  <2>2. Line(r)[i].no <= events
    BY <2>1 DEF IInv, LinesPast
  <2>3. Line(r)[i] \in Event
    BY <1>1, <2>1
  <2> QED BY <1>1, <2>1, <2>2, <2>3 DEF Event
<1>5. LinesApart'
  BY <1>2 DEF IInv, LinesApart
<1>6. ASSUME pending' = pending PROVE PendingSorted' /\ PendingLater'
  <2>1. PendingSorted'
    <3> SUFFICES ASSUME NEW i \in 1..Len(pending)
                 PROVE  /\ pending[i].event.dir = "o" /\ pending[i].event.no <= events'
                        /\ \A j \in 1..Len(pending) :
                              i < j => pending[i].event.no < pending[j].event.no
      BY <1>6 DEF PendingSorted
    <3>1. pending[i].event \in Event
      BY PendingItems DEF IInv
    <3>2. /\ pending[i].event.dir = "o" /\ pending[i].event.no <= events
          /\ \A j \in 1..Len(pending) : i < j => pending[i].event.no < pending[j].event.no
      BY DEF IInv, PendingSorted
    <3> QED BY <1>1, <3>1, <3>2 DEF Event
  <2>2. PendingLater'
    BY <1>2, <1>6 DEF IInv, PendingLater
  <2> QED BY <2>1, <2>2
<1> QED BY <1>3, <1>4, <1>5, <1>6

\* A piece of data that is nowhere yet is put at the end of one line.
LEMMA LineGrows ==
    ASSUME IInv, events' \in Nat, events' >= events,
           NEW r0 \in Rec, NEW e \in Event, e.no <= events',
           Line(r0)' = Append(Line(r0), e), \A r \in Rec \ {r0} : Line(r)' = Line(r),
           \A r \in Rec : \A k \in 1..Len(Line(r)) :
              Line(r)[k] # e /\ (Line(r)[k].dir = "o" /\ e.dir = "o" => Line(r)[k].no < e.no)
    PROVE  LinesSorted' /\ LinesPast' /\ LinesApart'
<1>1. events \in Nat /\ \A r \in Rec : Line(r) \in Seq(Event) /\ Len(Line(r)) \in Nat
  BY LinesAreSequences DEF IInv, TypeOK
<1> DEFINE t == Append(Line(r0), e)
<1>2. Len(t) = Len(Line(r0)) + 1 /\ t[Len(Line(r0)) + 1] = e
      /\ \A i \in 1..Len(Line(r0)) : t[i] = Line(r0)[i]
  BY <1>1, AppendProperties
<1>3. Line(r0)' = t
  OBVIOUS
<1> HIDE DEF t
<1>4. LinesSorted'
  <2> SUFFICES ASSUME NEW r \in Rec PROVE Sorted(Line(r)')
    BY DEF LinesSorted, Sorted
  <2>1. CASE r # r0
    BY <2>1 DEF IInv, LinesSorted
  <2>2. CASE r = r0
    <3> SUFFICES ASSUME NEW i \in 1..Len(t), NEW j \in 1..Len(t), i < j
                 PROVE  t[i] # t[j] /\ (t[i].dir = "o" /\ t[j].dir = "o" => t[i].no < t[j].no)
      BY <1>3, <2>2 DEF Sorted
    <3>1. i \in 1..Len(Line(r0)) /\ t[i] = Line(r0)[i]
      BY <1>1, <1>2
    <3>2. CASE j = Len(Line(r0)) + 1
      BY <1>2, <3>1, <3>2
    <3>3. CASE j # Len(Line(r0)) + 1
      <4>1. j \in 1..Len(Line(r0)) /\ t[j] = Line(r0)[j]
        BY <1>1, <1>2, <3>3
      <4>2. Sorted(Line(r0))
        BY DEF IInv, LinesSorted
      <4> QED BY <3>1, <4>1, <4>2 DEF Sorted
    <3> QED BY <3>2, <3>3
  <2> QED BY <2>1, <2>2
<1>5. LinesPast'
  <2> SUFFICES ASSUME NEW r \in Rec, NEW i \in 1..Len(Line(r)') PROVE Line(r)'[i].no <= events'
    BY DEF LinesPast
  <2>1. ASSUME NEW k \in 1..Len(Line(r)) PROVE Line(r)[k].no <= events'
    <3>1. Line(r)[k].no <= events
      BY DEF IInv, LinesPast
    <3>2. Line(r)[k] \in Event
      BY <1>1
    <3> QED BY <3>1, <3>2, <1>1 DEF Event
  <2>2. CASE r # r0
    BY <2>1, <2>2
  <2>3. CASE r = r0
    <3>1. i \in 1..Len(t) /\ Line(r)' = t
      BY <1>3, <2>3
    <3>2. CASE i = Len(Line(r0)) + 1
      BY <1>2, <3>1, <3>2
    <3>3. CASE i # Len(Line(r0)) + 1
      <4>1. i \in 1..Len(Line(r)) /\ t[i] = Line(r)[i]
        BY <1>1, <1>2, <2>3, <3>1, <3>3
      <4> QED BY <2>1, <3>1, <4>1
    <3> QED BY <3>2, <3>3
  <2> QED BY <2>2, <2>3
<1>6. LinesApart'
  <2>1. ASSUME NEW q \in Rec \ {r0}, NEW i \in 1..Len(t), NEW j \in 1..Len(Line(q))
        PROVE  t[i] # Line(q)[j]
    <3>1. CASE i = Len(Line(r0)) + 1
      BY <1>2, <3>1
    <3>2. CASE i # Len(Line(r0)) + 1
      <4>1. i \in 1..Len(Line(r0)) /\ t[i] = Line(r0)[i]
        BY <1>1, <1>2, <3>2
      <4> QED BY <4>1 DEF IInv, LinesApart
    <3> QED BY <3>1, <3>2
  <2> SUFFICES ASSUME NEW r \in Rec, NEW q \in Rec, r # q,
                      NEW i \in 1..Len(Line(r)'), NEW j \in 1..Len(Line(q)')
               PROVE  Line(r)'[i] # Line(q)'[j]
    BY DEF LinesApart
  <2>2. CASE r = r0
    BY <1>3, <2>1, <2>2
  <2>3. CASE q = r0
    BY <1>3, <2>1, <2>3
  <2>4. CASE r # r0 /\ q # r0
    BY <2>4 DEF IInv, LinesApart
  <2> QED BY <2>2, <2>3, <2>4
<1> QED BY <1>4, <1>5, <1>6

-----------------------------------------------------------------------------
(* record_data                                                             *)

Elements(s) == {s[i] : i \in DOMAIN s}

LEMMA ElementsOfConcat ==
    ASSUME NEW s \in Seq(Event), NEW t \in Seq(Event)
    PROVE  Elements(s) \subseteq Elements(s \o t) /\ Elements(t) \subseteq Elements(s \o t)
<1>1. /\ s \o t \in Seq(Event) /\ Len(s \o t) = Len(s) + Len(t)
      /\ \A i \in 1..Len(s) + Len(t) : (s \o t)[i] = IF i <= Len(s) THEN s[i] ELSE t[i - Len(s)]
  BY ConcatProperties
<1>2. /\ Len(s) \in Nat /\ Len(t) \in Nat
      /\ DOMAIN s = 1..Len(s) /\ DOMAIN t = 1..Len(t) /\ DOMAIN (s \o t) = 1..Len(s) + Len(t)
  BY <1>1, LenProperties
<1>3. ASSUME NEW i \in DOMAIN s PROVE s[i] \in Elements(s \o t)
  <2>1. i \in DOMAIN (s \o t) /\ (s \o t)[i] = s[i]
    BY <1>1, <1>2
  <2> QED BY <2>1 DEF Elements
<1>4. ASSUME NEW i \in DOMAIN t PROVE t[i] \in Elements(s \o t)
  <2>1. Len(s) + i \in DOMAIN (s \o t) /\ (s \o t)[Len(s) + i] = t[i]
    BY <1>1, <1>2
  <2> QED BY <2>1 DEF Elements
<1> QED BY <1>3, <1>4 DEF Elements

LEMMA SetLine ==
    ASSUME TypeOK, NEW r0 \in Rec, NEW d \in Seq(Event), NEW b \in Seq(Event),
           recs' = [recs EXCEPT ![r0].disk = d, ![r0].buffer = b]
    PROVE  /\ recs' \in [Rec -> Recording]
           /\ recs'[r0].disk = d /\ Line(r0)' = d \o b
           /\ \A r \in Rec \ {r0} : recs'[r] = recs[r] /\ Line(r)' = Line(r)
           /\ \A r \in Rec : recs'[r].port = recs[r].port /\ recs'[r].file = recs[r].file
<1>1. recs \in [Rec -> Recording] /\ recs[r0] \in Recording
  BY DEF TypeOK, Recording
<1> DEFINE new == [[recs[r0] EXCEPT !.disk = d] EXCEPT !.buffer = b]
<1>2. /\ new \in Recording /\ new.disk = d /\ new.buffer = b
      /\ new.port = recs[r0].port /\ new.file = recs[r0].file
  BY <1>1 DEF Recording
<1>3. recs' = [recs EXCEPT ![r0] = new]
  BY <1>1
<1> HIDE DEF new
<1>4. /\ recs' \in [Rec -> Recording] /\ recs'[r0] = new
      /\ \A r \in Rec \ {r0} : recs'[r] = recs[r]
  BY <1>1, <1>2, <1>3
<1> QED BY <1>2, <1>4 DEF Line

\* Whether the flush succeeds or not, the piece of data is put at the end of the
\* line or left out, and what the caller passes on is in the file.
LEMMA RecordDataGrows ==
    ASSUME IInv, NEW p \in Port, NEW e \in Event, RecordData(p, e)
    PROVE  /\ recs' \in [Rec -> Recording] /\ passed' \in [Rec -> SUBSET Event] /\ PassedOK'
           /\ \A r \in Rec : /\ recs'[r].port = recs[r].port /\ recs'[r].file = recs[r].file
                             /\ r # active[p] => recs'[r] = recs[r]
           /\ \/ \A r \in Rec : Line(r)' = Line(r)
              \/ \E r0 \in Rec : /\ Line(r0)' = Append(Line(r0), e)
                                 /\ \A r \in Rec \ {r0} : Line(r)' = Line(r)
<1>1. /\ recs \in [Rec -> Recording] /\ passed \in [Rec -> SUBSET Event] /\ TypeOK
      /\ active[p] \in 0..MaxRecs /\ BufferSize \in Nat /\ MaxRecs \in Nat
  BY RecorderAssumption DEF IInv, TypeOK, Recording
<1>2. CASE active[p] = 0
  <2>1. recs' = recs /\ passed' = passed
    BY <1>2 DEF RecordData
  <2> QED BY <1>1, <2>1 DEF IInv, PassedOK, Written, Line
<1>3. CASE active[p] # 0
  <2>0. PICK r0 \in Rec : r0 = active[p]
    BY <1>1, <1>3 DEF Rec
  <2> DEFINE d == recs[r0].disk  b == recs[r0].buffer
  <2>1. r0 \in Rec /\ (Recorded(r0, e) \/ RecordFails(r0, e))
    BY <1>3, <2>0 DEF RecordData
  <2>2. /\ d \in Seq(Event) /\ b \in Seq(Event) /\ Line(r0) = d \o b
        /\ d = recs[r0].disk
    BY <1>1, <2>1 DEF Recording, Line
  <2>3. Recorded(r0, e) =>
           /\ recs' = [recs EXCEPT ![r0].disk = d \o Append(b, e), ![r0].buffer = <<>>]
           /\ passed' = [passed EXCEPT ![r0] = @ \cup {e}]
    BY DEF Recorded
  <2>4. RecordFails(r0, e) =>
           /\ \E all \in {Append(b, e), b} : \E n \in 0..(Len(all) - 1) :
                 recs' = [recs EXCEPT ![r0].disk = d \o SubSeq(all, 1, n),
                                      ![r0].buffer = SubSeq(all, n + 1, Len(all))]
           /\ passed' = passed
    <3>1. Taken(r0, e) \subseteq {Append(b, e), b}
      BY DEF Taken
    <3> QED BY <3>1 DEF RecordFails
  <2> HIDE DEF d, b
  <2>5. ASSUME NEW f \in Seq(Event), NEW c \in Seq(Event),
               recs' = [recs EXCEPT ![r0].disk = d \o f, ![r0].buffer = c],
               \/ passed' = passed
               \/ passed' = [passed EXCEPT ![r0] = @ \cup {e}] /\ e \in Elements(f)
        PROVE  /\ recs' \in [Rec -> Recording] /\ Line(r0)' = (d \o f) \o c
               /\ \A r \in Rec \ {r0} : recs'[r] = recs[r] /\ Line(r)' = Line(r)
               /\ \A r \in Rec : recs'[r].port = recs[r].port /\ recs'[r].file = recs[r].file
               /\ passed' \in [Rec -> SUBSET Event] /\ PassedOK'
    <3>1. d \o f \in Seq(Event)
      BY <2>2, ConcatProperties
    <3>2. /\ recs' \in [Rec -> Recording]
          /\ recs'[r0].disk = d \o f /\ Line(r0)' = (d \o f) \o c
          /\ \A r \in Rec \ {r0} : recs'[r] = recs[r] /\ Line(r)' = Line(r)
          /\ \A r \in Rec : recs'[r].port = recs[r].port /\ recs'[r].file = recs[r].file
      <4> DEFINE g == d \o f
      <4>1. g \in Seq(Event) /\ recs' = [recs EXCEPT ![r0].disk = g, ![r0].buffer = c]
        BY <2>5, <3>1
      <4> HIDE DEF g
      <4>2. /\ recs' \in [Rec -> Recording]
            /\ recs'[r0].disk = g /\ Line(r0)' = g \o c
            /\ \A r \in Rec \ {r0} : recs'[r] = recs[r] /\ Line(r)' = Line(r)
            /\ \A r \in Rec : recs'[r].port = recs[r].port /\ recs'[r].file = recs[r].file
        BY <1>1, <2>1, <4>1, SetLine
      <4> QED BY <4>2 DEF g
    <3>3. passed' \in [Rec -> SUBSET Event]
      BY <1>1, <2>5
    <3>4. ASSUME NEW r \in Rec PROVE passed'[r] \subseteq Elements(recs'[r].disk)
      <4>1. passed[r] \subseteq Elements(recs[r].disk)
        BY DEF IInv, PassedOK, Written, Elements
      <4>2. CASE r = r0
        <5>1. Elements(d) \subseteq Elements(d \o f) /\ Elements(f) \subseteq Elements(d \o f)
          BY <2>2, <2>5, ElementsOfConcat
        <5>2. passed[r0] \subseteq Elements(d)
          BY <4>1, <4>2, <2>2
        <5>3. passed'[r0] \subseteq passed[r0] \cup Elements(f)
          BY <1>1, <2>1, <2>5
        <5> QED BY <3>2, <4>2, <5>1, <5>2, <5>3
      <4>3. CASE r # r0
        <5>1. passed'[r] = passed[r] /\ recs'[r] = recs[r]
          BY <1>1, <2>5, <3>2, <4>3
        <5> QED BY <4>1, <5>1
      <4> QED BY <4>2, <4>3
    <3>5. PassedOK'
      BY <3>4 DEF PassedOK, Written, Elements
    <3> QED BY <3>2, <3>3, <3>5
  <2>6. Append(b, e) \in Seq(Event) /\ d \o Append(b, e) = Append(d \o b, e)
    BY <2>2, AppendProperties, AppendToLine
  <2>7. CASE Recorded(r0, e)
    <3> DEFINE f == Append(b, e)
    <3>1. <<>> \in Seq(Event) /\ (d \o f) \o <<>> = d \o f
      <4>1. d \o f \in Seq(Event)
        BY <2>2, <2>6, ConcatProperties
      <4> QED BY <4>1, ConcatEmptySeq
    <3>2. e \in Elements(f)
      <4>1. /\ Len(f) = Len(b) + 1 /\ f[Len(b) + 1] = e
            /\ DOMAIN f = 1..Len(f) /\ Len(b) \in Nat
        BY <2>2, <2>6, AppendProperties, LenProperties
      <4>2. Len(b) + 1 \in DOMAIN f
        BY <4>1
      <4> QED BY <4>1, <4>2 DEF Elements
    <3>3. f \in Seq(Event) /\ d \o f = Append(Line(r0), e)
      BY <2>2, <2>6
    <3>4. /\ recs' = [recs EXCEPT ![r0].disk = d \o f, ![r0].buffer = <<>>]
          /\ passed' = [passed EXCEPT ![r0] = @ \cup {e}]
      BY <2>3, <2>7
    <3> HIDE DEF f
    <3>5. /\ recs' \in [Rec -> Recording] /\ Line(r0)' = (d \o f) \o <<>>
          /\ \A r \in Rec \ {r0} : recs'[r] = recs[r] /\ Line(r)' = Line(r)
          /\ \A r \in Rec : recs'[r].port = recs[r].port /\ recs'[r].file = recs[r].file
          /\ passed' \in [Rec -> SUBSET Event] /\ PassedOK'
      BY <2>5, <3>1, <3>2, <3>3, <3>4
    <3>6. Line(r0)' = Append(Line(r0), e)
      BY <3>1, <3>3, <3>5
    <3> QED BY <2>0, <2>1, <3>5, <3>6, Zenon
  <2>8. CASE RecordFails(r0, e)
    <3>1. PICK all \in {Append(b, e), b} : \E n \in 0..(Len(all) - 1) :
             recs' = [recs EXCEPT ![r0].disk = d \o SubSeq(all, 1, n),
                                  ![r0].buffer = SubSeq(all, n + 1, Len(all))]
      BY <2>4, <2>8
    <3>2. PICK n \in 0..(Len(all) - 1) :
             recs' = [recs EXCEPT ![r0].disk = d \o SubSeq(all, 1, n),
                                  ![r0].buffer = SubSeq(all, n + 1, Len(all))]
      BY <3>1
    <3>3. all \in Seq(Event) /\ n \in 0..Len(all)
      <4>1. all \in Seq(Event)
        BY <2>2, <2>6
      <4>2. Len(all) \in Nat
        BY <4>1
      <4> QED BY <4>1, <4>2
    <3> DEFINE h == SubSeq(all, 1, n)  t == SubSeq(all, n + 1, Len(all))
    <3>4. /\ h \in Seq(Event) /\ t \in Seq(Event)
          /\ (d \o h) \o t = d \o all
      BY <2>2, <3>3, FlushKeepsLine
    <3>5. recs' = [recs EXCEPT ![r0].disk = d \o h, ![r0].buffer = t] /\ passed' = passed
      BY <2>4, <2>8, <3>2
    <3> HIDE DEF h, t
    <3>6. /\ recs' \in [Rec -> Recording] /\ Line(r0)' = (d \o h) \o t
          /\ \A r \in Rec \ {r0} : recs'[r] = recs[r] /\ Line(r)' = Line(r)
          /\ \A r \in Rec : recs'[r].port = recs[r].port /\ recs'[r].file = recs[r].file
          /\ passed' \in [Rec -> SUBSET Event] /\ PassedOK'
      BY <2>5, <3>4, <3>5
    <3>7. Line(r0)' \in {Append(Line(r0), e), Line(r0)}
      BY <2>2, <2>6, <3>4, <3>6
    <3> QED BY <2>0, <2>1, <3>6, <3>7, Zenon
  <2> QED BY <2>1, <2>7, <2>8
<1> QED BY <1>2, <1>3

-----------------------------------------------------------------------------
(* The steps                                                               *)

LEMMA PrefixItself == ASSUME NEW s \in Seq(Event) PROVE IsPrefixOf(s, s)
BY LenProperties DEF IsPrefixOf

LEMMA EmptyIsPrefix ==
    ASSUME NEW s \in Seq(Event) PROVE <<>> \in Seq(Event) /\ IsPrefixOf(<<>>, s)
<1>1. Len(<<>>) = 0 /\ <<>> \in Seq(Event) /\ Len(s) \in Nat
  BY EmptySeq, LenProperties
<1> QED BY <1>1 DEF IsPrefixOf

\* Steps that do not touch what is recorded.
LEMMA SameRecordings ==
    ASSUME IInv, recs' = recs, passed' = passed, events' \in Nat, events' >= events
    PROVE  /\ PassedOK' /\ LinesSorted' /\ LinesPast' /\ LinesApart'
           /\ pending' = pending => PendingSorted' /\ PendingLater'
<1>1. \A r \in Rec : Line(r)' \in Seq(Event) /\ IsPrefixOf(Line(r)', Line(r))
  BY LinesAreSequences, PrefixItself DEF IInv, Line
<1>2. PassedOK'
  BY DEF IInv, PassedOK, Written
<1> QED BY <1>1, <1>2, LinesCut

LEMMA Initial == Init => IInv
<1> SUFFICES ASSUME Init PROVE IInv
  OBVIOUS
<1>1. /\ open = {} /\ events = 0 /\ pending = <<>> /\ made = 0
      /\ active = [p \in Port |-> 0]
      /\ recs = [r \in Rec |-> Unborn] /\ passed = [r \in Rec |-> {}]
      /\ shown = [r \in Rec |-> {}] /\ MaxEvents \in Nat /\ MaxRecs \in Nat
  BY RecorderAssumption DEF Init
<1>2. <<>> \in Seq(Event) /\ Len(<<>>) = 0 /\ <<>> \in Seq([port : Port, event : Event])
  BY EmptySeq
<1>3. Unborn \in Recording /\ Unborn.file = "none"
  BY <1>2 DEF Unborn, Recording
<1>4. TypeOK
  <2>1. recs \in [Rec -> Recording]
    BY <1>1, <1>3
  <2> QED BY <1>1, <1>2, <2>1 DEF TypeOK, Recording
<1>5. \A r \in Rec : Line(r) = <<>>
  <2>1. Unborn.disk = <<>> /\ Unborn.buffer = <<>>
    BY DEF Unborn
  <2>2. <<>> \o <<>> = <<>>
    BY <1>2, ConcatEmptySeq
  <2> QED BY <1>1, <2>1, <2>2 DEF Line
<1>6. \A i \in 1..0 : FALSE
  OBVIOUS
<1>7. LinesSorted /\ LinesPast /\ LinesApart /\ PendingSorted /\ PendingLater
  <2>1. \A r \in Rec : Len(Line(r)) = 0
    BY <1>2, <1>5
  <2>2. Len(pending) = 0
    BY <1>1, <1>2
  <2> QED BY <1>6, <2>1, <2>2
          DEF LinesSorted, LinesPast, LinesApart, PendingSorted, PendingLater, Sorted
<1>8. Files /\ PassedOK
  BY <1>1, <1>3 DEF Files, PassedOK
<1> QED BY <1>4, <1>7, <1>8 DEF IInv

LEMMA StartKeeps == ASSUME IInv, NEW p \in Port, Start(p) PROVE IInv'
<1>1. /\ active[p] = 0 /\ made < MaxRecs /\ made' = made + 1
      /\ UNCHANGED <<open, events, pending, passed, shown>>
  BY DEF Start, MayStart
<1>2. /\ recs \in [Rec -> Recording] /\ active \in [Port -> 0..MaxRecs] /\ TypeOK
      /\ made \in 0..MaxRecs /\ MaxRecs \in Nat /\ events \in Nat
  BY RecorderAssumption DEF IInv, TypeOK, Recording
<1>3. PICK m \in Rec : m = made + 1
  BY <1>1, <1>2 DEF Rec
<1>4. PICK f \in {"open", "closed"} :
         /\ recs' = [recs EXCEPT ![m] = Born(p, f)]
         /\ IF f = "open" THEN active' = [active EXCEPT ![p] = m] ELSE active' = active
  BY <1>1, <1>3 DEF Start
<1> DEFINE new == Born(p, f)
<1>5. /\ new \in Recording /\ new.port = p /\ new.file = f
      /\ new.disk = <<>> /\ new.buffer = <<>>
  <2>1. <<>> \in Seq(Event)
    BY EmptySeq
  <2> QED BY <2>1 DEF Born, Unborn, Recording
<1>6. recs' = [recs EXCEPT ![m] = new]
  BY <1>4
<1> HIDE DEF new
<1>7. /\ recs' \in [Rec -> Recording] /\ recs'[m] = new
      /\ \A r \in Rec \ {m} : recs'[r] = recs[r]
  BY <1>2, <1>5, <1>6
<1>8. \A r \in Rec : Line(r)' \in Seq(Event) /\ IsPrefixOf(Line(r)', Line(r))
  <2> SUFFICES ASSUME NEW r \in Rec PROVE Line(r)' \in Seq(Event) /\ IsPrefixOf(Line(r)', Line(r))
    OBVIOUS
  <2>1. Line(r) \in Seq(Event)
    BY <1>2, LinesAreSequences
  <2>2. CASE r = m
    <3>1. <<>> \in Seq(Event) /\ <<>> \o <<>> = <<>>
      BY EmptySeq, ConcatEmptySeq
    <3>2. Line(r)' = <<>>
      BY <1>5, <1>7, <2>2, <3>1 DEF Line
    <3> QED BY <2>1, <3>1, <3>2, EmptyIsPrefix
  <2>3. CASE r # m
    <3>1. Line(r)' = Line(r)
      BY <1>7, <2>3 DEF Line
    <3> QED BY <2>1, <3>1, PrefixItself
  <2> QED BY <2>2, <2>3
<1>9. PassedOK'
  <2>1. recs[m] = Unborn
    BY <1>2, <1>3 DEF IInv, Files
  <2>2. Unborn.disk = <<>>
    BY DEF Unborn
  <2>3. \A r \in Rec : recs'[r].disk = recs[r].disk
    BY <1>5, <1>7, <2>1, <2>2
  <2> QED BY <1>1, <2>3 DEF IInv, PassedOK, Written
<1>10. active' \in [Port -> 0..MaxRecs] /\ made' \in 0..MaxRecs
  <2>1. m \in 0..MaxRecs
    BY <1>2 DEF Rec
  <2> QED BY <1>1, <1>2, <1>4, <2>1
<1>11. TypeOK'
  BY <1>1, <1>7, <1>10 DEF IInv, TypeOK, Recording
<1>12. Files'
  <2>1. ASSUME NEW r \in Rec, recs'[r].file = "open"
        PROVE  recs'[r].port \in Port /\ active'[recs'[r].port] = r
    <3>1. CASE r = m
      BY <1>2, <1>4, <1>5, <1>7, <2>1, <3>1
    <3>2. CASE r # m
      <4>1. recs[r].port \in Port /\ active[recs[r].port] = r /\ recs'[r] = recs[r]
        BY <1>7, <2>1, <3>2 DEF IInv, Files
      <4>2. r # 0
        BY DEF Rec
      <4> QED BY <1>1, <1>2, <1>4, <4>1, <4>2
    <3> QED BY <3>1, <3>2
  <2>2. ASSUME NEW r \in Rec, r > made' PROVE recs'[r] = Unborn
    <3>1. r # m /\ r > made
      BY <1>1, <1>2, <1>3, <2>2 DEF Rec
    <3> QED BY <1>7, <3>1 DEF IInv, Files
  <2>3. ASSUME NEW q \in Port, active'[q] # 0
        PROVE  /\ active'[q] \in 1..made'
               /\ recs'[active'[q]].file = "open" /\ recs'[active'[q]].port = q
    <3>1. CASE active'[q] = active[q]
      <4>1. /\ active[q] \in 1..made
            /\ recs[active[q]].file = "open" /\ recs[active[q]].port = q
        BY <2>3, <3>1 DEF IInv, Files
      <4>2. active[q] \in Rec \ {m} /\ active[q] \in 1..made'
        BY <1>1, <1>2, <1>3, <4>1 DEF Rec
      <4> QED BY <1>7, <3>1, <4>1, <4>2
    <3>2. CASE active'[q] # active[q]
      <4>1. f = "open" /\ q = p /\ active'[q] = m
        BY <1>2, <1>4, <3>2
      <4>2. m \in 1..made'
        BY <1>1, <1>2, <1>3
      <4> QED BY <1>5, <1>7, <4>1, <4>2
    <3> QED BY <3>1, <3>2
  <2> QED BY <2>1, <2>2, <2>3 DEF Files
<1>13. /\ LinesSorted' /\ LinesPast' /\ LinesApart' /\ PendingSorted' /\ PendingLater'
  <2>1. events' \in Nat /\ events' >= events
    BY <1>1, <1>2
  <2> QED BY <1>1, <1>8, <2>1, LinesCut
<1> QED BY <1>9, <1>11, <1>12, <1>13 DEF IInv

LEMMA StopKeeps == ASSUME IInv, NEW p \in Port, Stop(p) PROVE IInv'
<1>1. /\ active[p] # 0 /\ active' = [active EXCEPT ![p] = 0]
      /\ UNCHANGED <<open, events, pending, made, passed, shown>>
  BY DEF Stop
<1>2. /\ recs \in [Rec -> Recording] /\ active \in [Port -> 0..MaxRecs] /\ TypeOK
      /\ made \in 0..MaxRecs /\ MaxRecs \in Nat /\ events \in Nat
  BY RecorderAssumption DEF IInv, TypeOK, Recording
<1>3. PICK m \in Rec : m = active[p]
  BY <1>1, <1>2 DEF Rec
<1>4. recs[m] \in Recording /\ recs[m].port = p /\ m \in 1..made
  BY <1>1, <1>2, <1>3 DEF IInv, Files
<1> DEFINE d == recs[m].disk  b == recs[m].buffer
<1>5. PICK n \in 0..Len(b) :
         recs' = [recs EXCEPT ![m].file = "closed", ![m].buffer = <<>>,
                              ![m].disk = d \o SubSeq(b, 1, n)]
  BY <1>3 DEF Stop
<1> DEFINE g == d \o SubSeq(b, 1, n)
<1>6. /\ g \in Seq(Event) /\ g \o <<>> = g /\ IsPrefixOf(g, Line(m))
      /\ Elements(d) \subseteq Elements(g)
  <2>1. d \in Seq(Event) /\ b \in Seq(Event) /\ Line(m) = d \o b
    BY <1>4, LineType DEF Line
  <2>2. /\ g \in Seq(Event) /\ g \o <<>> = g /\ IsPrefixOf(g, d \o b)
    BY <2>1, CloseCutsLine
  <2>3. SubSeq(b, 1, n) \in Seq(Event)
    BY <2>1, FlushKeepsLine
  <2>4. Elements(d) \subseteq Elements(g)
    BY <2>1, <2>3, ElementsOfConcat
  <2> QED BY <2>1, <2>2, <2>4
<1> DEFINE new == [[[recs[m] EXCEPT !.file = "closed"] EXCEPT !.buffer = <<>>] EXCEPT !.disk = g]
<1>7. recs' = [recs EXCEPT ![m] = new]
  BY <1>5
<1> HIDE DEF g
<1>8. new \in Recording /\ new.disk = g /\ new.buffer = <<>> /\ new.file = "closed"
  <2>1. <<>> \in Seq(Event)
    BY EmptySeq
  <2> QED BY <1>4, <1>6, <2>1 DEF Recording
<1> HIDE DEF new
<1>9. /\ recs' \in [Rec -> Recording] /\ recs'[m] = new
      /\ \A r \in Rec \ {m} : recs'[r] = recs[r]
  BY <1>2, <1>7, <1>8
<1>10. \A r \in Rec : Line(r)' \in Seq(Event) /\ IsPrefixOf(Line(r)', Line(r))
  <2> SUFFICES ASSUME NEW r \in Rec PROVE Line(r)' \in Seq(Event) /\ IsPrefixOf(Line(r)', Line(r))
    OBVIOUS
  <2>1. CASE r = m
    <3>1. Line(r)' = g
      BY <1>6, <1>8, <1>9, <2>1 DEF Line
    <3> QED BY <1>6, <2>1, <3>1
  <2>2. CASE r # m
    <3>1. Line(r)' = Line(r) /\ Line(r) \in Seq(Event)
      BY <1>2, <1>9, <2>2, LinesAreSequences DEF Line
    <3> QED BY <3>1, PrefixItself
  <2> QED BY <2>1, <2>2
<1>11. PassedOK'
  <2> SUFFICES ASSUME NEW r \in Rec PROVE passed[r] \subseteq Elements(recs'[r].disk)
    BY <1>1 DEF PassedOK, Written, Elements
  <2>1. passed[r] \subseteq Elements(recs[r].disk)
    BY DEF IInv, PassedOK, Written, Elements
  <2> QED BY <1>6, <1>8, <1>9, <2>1
<1>12. TypeOK'
  BY <1>1, <1>2, <1>9 DEF TypeOK, Recording
<1>13. Files'
  <2>1. ASSUME NEW r \in Rec, recs'[r].file = "open"
        PROVE  recs'[r].port \in Port /\ active'[recs'[r].port] = r
    <3>1. r # m
      BY <1>8, <1>9, <2>1
    <3>2. recs'[r] = recs[r] /\ recs[r].port \in Port /\ active[recs[r].port] = r
      BY <1>9, <2>1, <3>1 DEF IInv, Files
    <3> QED BY <1>1, <1>2, <1>3, <3>1, <3>2
  <2>2. ASSUME NEW r \in Rec, r > made' PROVE recs'[r] = Unborn
    <3>1. r # m /\ r > made
      BY <1>1, <1>2, <1>4, <2>2 DEF Rec
    <3> QED BY <1>9, <3>1 DEF IInv, Files
  <2>3. ASSUME NEW q \in Port, active'[q] # 0
        PROVE  /\ active'[q] \in 1..made'
               /\ recs'[active'[q]].file = "open" /\ recs'[active'[q]].port = q
    <3>1. q # p /\ active'[q] = active[q]
      BY <1>1, <1>2, <2>3
    <3>2. /\ active[q] \in 1..made
          /\ recs[active[q]].file = "open" /\ recs[active[q]].port = q
      BY <2>3, <3>1 DEF IInv, Files
    <3>3. active[q] \in Rec \ {m}
      BY <1>2, <1>4, <3>1, <3>2 DEF Rec
    <3> QED BY <1>1, <1>9, <3>1, <3>2, <3>3
  <2> QED BY <2>1, <2>2, <2>3 DEF Files
<1>14. /\ LinesSorted' /\ LinesPast' /\ LinesApart' /\ PendingSorted' /\ PendingLater'
  <2>1. events' \in Nat /\ events' >= events
    BY <1>1, <1>2
  <2> QED BY <1>1, <1>10, <2>1, LinesCut
<1> QED BY <1>11, <1>12, <1>13, <1>14 DEF IInv

LEMMA DeleteKeeps == ASSUME IInv, NEW m \in Rec, Delete(m) PROVE IInv'
<1>1. /\ recs[m].named /\ recs' = [recs EXCEPT ![m].named = FALSE]
      /\ UNCHANGED <<open, events, pending, active, made, passed, shown>>
  BY DEF Delete
<1>2. /\ recs \in [Rec -> Recording] /\ TypeOK /\ events \in Nat /\ made \in Nat
  BY DEF IInv, TypeOK, Recording
<1> DEFINE new == [recs[m] EXCEPT !.named = FALSE]
<1>3. /\ new \in Recording /\ new.disk = recs[m].disk /\ new.buffer = recs[m].buffer
      /\ new.port = recs[m].port /\ new.file = recs[m].file
  BY <1>2 DEF Recording
<1>4. recs' = [recs EXCEPT ![m] = new]
  BY <1>1
<1> HIDE DEF new
<1>5. /\ recs' \in [Rec -> Recording] /\ recs'[m] = new
      /\ \A r \in Rec \ {m} : recs'[r] = recs[r]
  BY <1>2, <1>3, <1>4
<1>6. \A r \in Rec : /\ recs'[r].disk = recs[r].disk /\ recs'[r].buffer = recs[r].buffer
                     /\ recs'[r].port = recs[r].port /\ recs'[r].file = recs[r].file
  BY <1>3, <1>5
<1>7. \A r \in Rec : Line(r)' \in Seq(Event) /\ IsPrefixOf(Line(r)', Line(r))
  BY <1>2, <1>6, LinesAreSequences, PrefixItself DEF Line
<1>8. PassedOK'
  BY <1>1, <1>6 DEF IInv, PassedOK, Written
<1>9. Files'
  <2>1. ~Unborn.named
    BY DEF Unborn
  <2>2. ASSUME NEW r \in Rec, r > made PROVE recs'[r] = Unborn
    BY <1>1, <1>5, <2>1, <2>2 DEF IInv, Files
  <2>3. \A p \in Port : active[p] # 0 => active[p] \in Rec
    BY RecorderAssumption DEF IInv, TypeOK, Rec
  <2> QED BY <1>1, <1>6, <2>2, <2>3 DEF IInv, Files
<1>10. TypeOK'
  BY <1>1, <1>2, <1>5 DEF TypeOK, Recording
<1>11. /\ LinesSorted' /\ LinesPast' /\ LinesApart' /\ PendingSorted' /\ PendingLater'
  <2>1. events' \in Nat /\ events' >= events
    BY <1>1, <1>2
  <2> QED BY <1>1, <1>7, <2>1, LinesCut
<1> QED BY <1>8, <1>9, <1>10, <1>11 DEF IInv

LEMMA ReadKeeps == ASSUME IInv, NEW p \in Port, Read(p) PROVE IInv'
<1> DEFINE item == [port |-> p, event |-> [no |-> events + 1, dir |-> "o"]]
<1>1. /\ events < MaxEvents /\ events' = events + 1
      /\ pending' = Append(pending, item)
      /\ UNCHANGED <<open, active, recs, made, passed, shown>>
  <2>1. /\ events' = events + 1
        /\ pending' = Append(pending, [port |-> p, event |-> [no |-> events', dir |-> "o"]])
    BY DEF Read
  <2>2. pending' = Append(pending, item)
    BY <2>1
  <2> QED BY <2>1, <2>2 DEF Read
<1>2. events \in 0..MaxEvents /\ MaxEvents \in Nat /\ events' \in 0..MaxEvents
  BY <1>1, RecorderAssumption DEF IInv, TypeOK
<1> DEFINE Item == [port : Port, event : Event]
<1>3. /\ item \in Item /\ item.event \in Event
      /\ item.event.no = events + 1 /\ item.event.dir = "o"
  <2>1. events + 1 \in 1..MaxEvents
    BY <1>1, <1>2
  <2>2. item.event \in Event
    BY <2>1 DEF Event
  <2> QED BY <2>2
<1>4. pending \in Seq(Item)
  BY DEF IInv, TypeOK
<1> HIDE DEF item, Item
<1>5. /\ pending' \in Seq(Item) /\ Len(pending) \in Nat /\ Len(pending') = Len(pending) + 1
      /\ \A i \in 1..Len(pending) : pending'[i] = pending[i]
      /\ pending'[Len(pending) + 1] = item
  BY <1>1, <1>3, <1>4, AppendProperties, LenProperties
<1>6. TypeOK'
  BY <1>1, <1>2, <1>5 DEF IInv, TypeOK, Item
<1>7. PassedOK' /\ LinesSorted' /\ LinesPast' /\ LinesApart'
  <2>1. events' \in Nat /\ events' >= events
    BY <1>1, <1>2
  <2> QED BY <1>1, <2>1, SameRecordings
<1>8. ASSUME NEW i \in 1..Len(pending)
      PROVE  /\ pending[i].event.dir = "o" /\ pending[i].event.no <= events
             /\ pending[i].event.no \in Nat
             /\ \A j \in 1..Len(pending) : i < j => pending[i].event.no < pending[j].event.no
  <2>1. pending[i].event \in Event
    BY PendingItems DEF IInv
  <2> QED BY <2>1, RecorderAssumption DEF IInv, PendingSorted, Event
<1>9. PendingSorted'
  <2> SUFFICES ASSUME NEW i \in 1..Len(pending')
               PROVE  /\ pending'[i].event.dir = "o" /\ pending'[i].event.no <= events'
                      /\ \A j \in 1..Len(pending') :
                            i < j => pending'[i].event.no < pending'[j].event.no
    BY DEF PendingSorted
  <2>1. CASE i = Len(pending) + 1
    BY <1>1, <1>2, <1>3, <1>5, <2>1
  <2>2. CASE i # Len(pending) + 1
    <3>1. i \in 1..Len(pending) /\ pending'[i] = pending[i]
      BY <1>5, <2>2
    <3>2. pending[i].event.no <= events /\ pending[i].event.no \in Nat
      BY <1>8, <3>1
    <3>3. ASSUME NEW j \in 1..Len(pending'), i < j
          PROVE  pending[i].event.no < pending'[j].event.no
      <4>1. CASE j = Len(pending) + 1
        BY <1>2, <1>3, <1>5, <3>2, <4>1
      <4>2. CASE j # Len(pending) + 1
        <5>1. j \in 1..Len(pending) /\ pending'[j] = pending[j]
          BY <1>5, <4>2
        <5> QED BY <1>8, <3>1, <3>3, <5>1
      <4> QED BY <4>1, <4>2
    <3>4. pending'[i].event.dir = "o"
      BY <1>8, <3>1
    <3>5. pending'[i].event.no <= events'
      BY <1>1, <1>2, <3>1, <3>2
    <3>6. pending'[i].event.no = pending[i].event.no
      BY <3>1
    <3> QED BY <3>3, <3>4, <3>5, <3>6
  <2> QED BY <2>1, <2>2
<1>10. PendingLater'
  <2> SUFFICES ASSUME NEW i \in 1..Len(pending'), NEW r \in Rec, NEW k \in 1..Len(Line(r)),
                      Line(r)[k].dir = "o"
               PROVE  Line(r)[k].no < pending'[i].event.no
    BY <1>1 DEF PendingLater, Line
  <2>1. CASE i = Len(pending) + 1
    <3>1. Line(r)[k].no <= events
      BY DEF IInv, LinesPast
    <3>2. Line(r)[k] \in Event
      BY LinesAreSequences, ElementOfSeq DEF IInv
    <3> QED BY <1>2, <1>3, <1>5, <2>1, <3>1, <3>2 DEF Event
  <2>2. CASE i # Len(pending) + 1
    <3>1. i \in 1..Len(pending) /\ pending'[i] = pending[i]
      BY <1>5, <2>2
    <3> QED BY <3>1 DEF IInv, PendingLater
  <2> QED BY <2>1, <2>2
<1>11. Files'
  BY <1>1 DEF IInv, Files
<1> QED BY <1>6, <1>7, <1>9, <1>10, <1>11 DEF IInv

\* What record_data keeps, whoever calls it with a piece of data that is new.
LEMMA RecordDataKeeps ==
    ASSUME IInv, NEW p \in Port, NEW e \in Event, RecordData(p, e),
           UNCHANGED <<open, active, made>>,
           events' \in 0..MaxEvents, events' >= events, e.no <= events',
           \A r \in Rec : \A k \in 1..Len(Line(r)) :
              Line(r)[k] # e /\ (Line(r)[k].dir = "o" /\ e.dir = "o" => Line(r)[k].no < e.no)
    PROVE  /\ recs' \in [Rec -> Recording] /\ passed' \in [Rec -> SUBSET Event]
           /\ PassedOK' /\ Files' /\ LinesSorted' /\ LinesPast' /\ LinesApart'
           /\ \A r \in Rec : \A k \in 1..Len(Line(r)') :
                 Line(r)'[k] = e \/ \E j \in 1..Len(Line(r)) : Line(r)'[k] = Line(r)[j]
<1>1. /\ recs' \in [Rec -> Recording] /\ passed' \in [Rec -> SUBSET Event] /\ PassedOK'
      /\ \A r \in Rec : /\ recs'[r].port = recs[r].port /\ recs'[r].file = recs[r].file
                        /\ r # active[p] => recs'[r] = recs[r]
      /\ \/ \A r \in Rec : Line(r)' = Line(r)
         \/ \E r0 \in Rec : /\ Line(r0)' = Append(Line(r0), e)
                            /\ \A r \in Rec \ {r0} : Line(r)' = Line(r)
  BY RecordDataGrows
<1>2. \A r \in Rec : Line(r) \in Seq(Event)
  BY LinesAreSequences DEF IInv
<1>3. events' \in Nat
  BY RecorderAssumption
<1>4. Files'
  <2>1. ASSUME NEW r \in Rec, r > made PROVE recs'[r] = Unborn
    <3>1. active[p] = 0 \/ active[p] \in 1..made
      BY DEF IInv, Files
    <3>2. made \in Nat /\ r \in Nat /\ r > 0
      BY RecorderAssumption DEF IInv, TypeOK, Rec
    <3>3. r # active[p]
      BY <2>1, <3>1, <3>2
    <3> QED BY <1>1, <2>1, <3>3 DEF IInv, Files
  <2>2. \A q \in Port : active[q] # 0 => active[q] \in Rec
    BY RecorderAssumption DEF IInv, TypeOK, Rec
  <2> QED BY <1>1, <2>1, <2>2 DEF IInv, Files
<1>5. CASE \A r \in Rec : Line(r)' = Line(r)
  <2>1. \A r \in Rec : Line(r)' \in Seq(Event) /\ IsPrefixOf(Line(r)', Line(r))
    BY <1>2, <1>5, PrefixItself
  <2>2. LinesSorted' /\ LinesPast' /\ LinesApart'
    BY <1>3, <2>1, LinesCut
  <2> QED BY <1>1, <1>4, <1>5, <2>2
<1>6. ASSUME NEW r0 \in Rec, Line(r0)' = Append(Line(r0), e),
             \A r \in Rec \ {r0} : Line(r)' = Line(r)
      PROVE  /\ LinesSorted' /\ LinesPast' /\ LinesApart'
             /\ \A r \in Rec : \A k \in 1..Len(Line(r)') :
                   Line(r)'[k] = e \/ \E j \in 1..Len(Line(r)) : Line(r)'[k] = Line(r)[j]
  <2>1. LinesSorted' /\ LinesPast' /\ LinesApart'
    BY <1>3, <1>6, LineGrows
  <2>2. ASSUME NEW r \in Rec, NEW k \in 1..Len(Line(r)')
        PROVE  Line(r)'[k] = e \/ \E j \in 1..Len(Line(r)) : Line(r)'[k] = Line(r)[j]
    <3>1. CASE r = r0
      <4>1. /\ Len(Line(r)') = Len(Line(r)) + 1 /\ Line(r)'[Len(Line(r)) + 1] = e
            /\ \A i \in 1..Len(Line(r)) : Line(r)'[i] = Line(r)[i]
            /\ Len(Line(r)) \in Nat
        BY <1>2, <1>6, <3>1, AppendProperties, LenProperties
      <4>2. k = Len(Line(r)) + 1 \/ k \in 1..Len(Line(r))
        BY <4>1
      <4> QED BY <4>1, <4>2
    <3>2. CASE r # r0
      BY <1>6, <3>2
    <3> QED BY <3>1, <3>2
  <2> QED BY <2>1, <2>2
<1> QED BY <1>1, <1>4, <1>5, <1>6

LEMMA BroadcastKeeps == ASSUME IInv, Broadcast PROVE IInv'
<1> DEFINE Item == [port : Port, event : Event]
<1>1. pending # <<>> /\ pending \in Seq(Item) /\ TypeOK
  BY DEF Broadcast, IInv, TypeOK
<1>2. PICK e \in Event, p \in Port : e = Head(pending).event /\ p = Head(pending).port
  <2> HIDE DEF Item
  <2>1. Head(pending) \in Item
    BY <1>1, HeadTailProperties
  <2> USE DEF Item
  <2> QED BY <2>1
<1>3. /\ pending' = Tail(pending) /\ RecordData(p, e)
      /\ UNCHANGED <<open, events, active, made>>
  BY <1>2 DEF Broadcast
<1> HIDE DEF Item
<1>4. /\ pending' \in Seq(Item) /\ Len(pending') = Len(pending) - 1 /\ Len(pending) \in Nat
      /\ \A i \in 1..Len(pending') : pending'[i] = pending[i + 1]
      /\ 1 \in 1..Len(pending) /\ pending[1] = Head(pending)
  <2>1. /\ pending' \in Seq(Item) /\ Len(pending') = Len(pending) - 1
        /\ \A i \in 1..Len(pending') : pending'[i] = pending[i + 1]
    BY <1>1, <1>3, HeadTailProperties
  <2>2. Len(pending) \in Nat \ {0}
    BY <1>1, EmptySeq
  <2> QED BY <2>1, <2>2
<1>5. /\ e.dir = "o" /\ e.no <= events /\ pending[1].event = e
      /\ \A j \in 2..Len(pending) : e.no < pending[j].event.no
  <2>1. pending[1].event = e
    BY <1>2, <1>4
  <2>2. /\ pending[1].event.dir = "o" /\ pending[1].event.no <= events
        /\ \A j \in 1..Len(pending) : 1 < j => pending[1].event.no < pending[j].event.no
    BY <1>4 DEF IInv, PendingSorted
  <2>3. \A j \in 2..Len(pending) : j \in 1..Len(pending) /\ 1 < j
    BY <1>4
  <2> QED BY <2>1, <2>2, <2>3
<1>6. \A r \in Rec : \A k \in 1..Len(Line(r)) :
         Line(r)[k] # e /\ (Line(r)[k].dir = "o" /\ e.dir = "o" => Line(r)[k].no < e.no)
  <2> SUFFICES ASSUME NEW r \in Rec, NEW k \in 1..Len(Line(r)), Line(r)[k].dir = "o"
               PROVE  Line(r)[k] # e /\ Line(r)[k].no < e.no
    BY <1>5
  <2>1. Line(r)[k].no < e.no
    BY <1>4, <1>5 DEF IInv, PendingLater
  <2>2. e.no \in Nat
    BY <1>2, RecorderAssumption DEF Event
  <2> QED BY <2>1, <2>2
<1>7. events' \in 0..MaxEvents /\ events' >= events /\ e.no <= events'
  BY <1>3, <1>5, RecorderAssumption DEF IInv, TypeOK
<1>8. /\ recs' \in [Rec -> Recording] /\ passed' \in [Rec -> SUBSET Event]
      /\ PassedOK' /\ Files' /\ LinesSorted' /\ LinesPast' /\ LinesApart'
      /\ \A r \in Rec : \A k \in 1..Len(Line(r)') :
            Line(r)'[k] = e \/ \E j \in 1..Len(Line(r)) : Line(r)'[k] = Line(r)[j]
  BY <1>3, <1>6, <1>7, RecordDataKeeps
<1>9. TypeOK'
  <2>1. shown' \in [Rec -> SUBSET Event]
    <3>1. Shown(p, e) \/ UNCHANGED shown
      BY <1>2 DEF Broadcast
    <3>2. shown \in [Rec -> SUBSET Event]
      BY <1>1 DEF TypeOK
    <3>3. Shown(p, e) => shown' \in [Rec -> SUBSET Event]
      BY <3>2 DEF Shown
    <3> QED BY <3>1, <3>2, <3>3
  <2> QED BY <1>1, <1>3, <1>4, <1>8, <2>1 DEF TypeOK, Item, Recording
<1>10. PendingSorted'
  <2> SUFFICES ASSUME NEW i \in 1..Len(pending')
               PROVE  /\ pending[i + 1].event.dir = "o" /\ pending[i + 1].event.no <= events
                      /\ \A j \in 1..Len(pending') :
                            i < j => pending[i + 1].event.no < pending[j + 1].event.no
    BY <1>3, <1>4 DEF PendingSorted
  <2>1. i + 1 \in 1..Len(pending) /\ \A j \in 1..Len(pending') : j + 1 \in 1..Len(pending)
    BY <1>4
  <2>2. \A j \in 1..Len(pending') : i < j => i + 1 < j + 1
    OBVIOUS
  <2> QED BY <2>1, <2>2 DEF IInv, PendingSorted
<1>11. PendingLater'
  <2> SUFFICES ASSUME NEW i \in 1..Len(pending'), NEW r \in Rec, NEW k \in 1..Len(Line(r)'),
                      Line(r)'[k].dir = "o"
               PROVE  Line(r)'[k].no < pending[i + 1].event.no
    BY <1>4 DEF PendingLater
  <2>1. i + 1 \in 2..Len(pending) /\ i + 1 \in 1..Len(pending)
    BY <1>4
  <2>2. CASE Line(r)'[k] = e
    BY <1>5, <2>1, <2>2
  <2>3. ASSUME NEW j \in 1..Len(Line(r)), Line(r)'[k] = Line(r)[j]
        PROVE  Line(r)'[k].no < pending[i + 1].event.no
    BY <2>1, <2>3 DEF IInv, PendingLater
  <2> QED BY <1>8, <2>2, <2>3
<1> QED BY <1>8, <1>9, <1>10, <1>11 DEF IInv

LEMMA WebSocketWroteKeeps == ASSUME IInv, NEW p \in Port, WebSocketWrote(p) PROVE IInv'
<1>1. /\ events < MaxEvents /\ events' = events + 1
      /\ RecordData(p, [no |-> events', dir |-> "i"])
      /\ UNCHANGED <<open, pending, active, made, shown>>
  BY DEF WebSocketWrote
<1>2. /\ TypeOK /\ events \in 0..MaxEvents /\ MaxEvents \in Nat
      /\ events' \in 0..MaxEvents /\ events' >= events /\ events' \in Nat
  BY <1>1, RecorderAssumption DEF IInv, TypeOK
<1>3. PICK e \in Event : e = [no |-> events', dir |-> "i"]
  BY <1>1, <1>2 DEF Event
<1>4. RecordData(p, e) /\ e.no = events' /\ e.dir = "i"
  BY <1>1, <1>3
<1>5. \A r \in Rec : \A k \in 1..Len(Line(r)) :
         Line(r)[k] # e /\ (Line(r)[k].dir = "o" /\ e.dir = "o" => Line(r)[k].no < e.no)
  <2> SUFFICES ASSUME NEW r \in Rec, NEW k \in 1..Len(Line(r)) PROVE Line(r)[k] # e
    BY <1>4
  <2>1. Line(r)[k].no <= events
    BY DEF IInv, LinesPast
  <2> QED BY <1>1, <1>2, <1>4, <2>1
<1>6. e.no <= events'
  BY <1>2, <1>4
<1>7. /\ recs' \in [Rec -> Recording] /\ passed' \in [Rec -> SUBSET Event]
      /\ PassedOK' /\ Files' /\ LinesSorted' /\ LinesPast' /\ LinesApart'
      /\ \A r \in Rec : \A k \in 1..Len(Line(r)') :
            Line(r)'[k] = e \/ \E j \in 1..Len(Line(r)) : Line(r)'[k] = Line(r)[j]
  BY <1>1, <1>2, <1>4, <1>5, <1>6, RecordDataKeeps
<1>8. TypeOK'
  BY <1>1, <1>2, <1>7 DEF TypeOK, Recording
<1>9. PendingSorted'
  <2> SUFFICES ASSUME NEW i \in 1..Len(pending)
               PROVE  /\ pending[i].event.dir = "o" /\ pending[i].event.no <= events'
                      /\ \A j \in 1..Len(pending) :
                            i < j => pending[i].event.no < pending[j].event.no
    BY <1>1 DEF PendingSorted
  <2>1. pending[i].event \in Event
    BY <1>2, PendingItems
  <2>2. /\ pending[i].event.dir = "o" /\ pending[i].event.no <= events
        /\ \A j \in 1..Len(pending) : i < j => pending[i].event.no < pending[j].event.no
    BY DEF IInv, PendingSorted
  <2> QED BY <1>2, <2>1, <2>2 DEF Event
<1>10. PendingLater'
  <2> SUFFICES ASSUME NEW i \in 1..Len(pending), NEW r \in Rec, NEW k \in 1..Len(Line(r)'),
                      Line(r)'[k].dir = "o"
               PROVE  Line(r)'[k].no < pending[i].event.no
    BY <1>1 DEF PendingLater
  <2>1. PICK j \in 1..Len(Line(r)) : Line(r)'[k] = Line(r)[j]
    BY <1>4, <1>7
  <2> QED BY <2>1 DEF IInv, PendingLater
<1> QED BY <1>7, <1>8, <1>9, <1>10 DEF IInv

LEMMA RestartKeeps == ASSUME IInv, Restart PROVE IInv'
<1>1. /\ open' = {} /\ pending' = <<>> /\ active' = [p \in Port |-> 0]
      /\ UNCHANGED <<events, made, passed, shown>>
  BY DEF Restart
<1>2. PICK saved \in SUBSET Rec :
         recs' = [r \in Rec |-> IF recs[r].file # "open" THEN recs[r] ELSE
                    [recs[r] EXCEPT !.file = "closed", !.buffer = <<>>,
                                    !.disk = IF r \in saved THEN @ \o recs[r].buffer ELSE @]]
  BY DEF Restart
<1>3. TypeOK /\ events \in Nat
  BY DEF IInv, TypeOK
<1>4. ASSUME NEW r \in Rec
      PROVE  /\ recs'[r] \in Recording /\ recs'[r].file # "open"
             /\ recs[r].file # "open" => recs'[r] = recs[r]
             /\ Line(r)' \in Seq(Event) /\ IsPrefixOf(Line(r)', Line(r))
             /\ Elements(recs[r].disk) \subseteq Elements(recs'[r].disk)
  <2>1. /\ recs[r] \in Recording /\ Line(r) \in Seq(Event)
        /\ IsPrefixOf(recs[r].disk, Line(r))
    BY <1>3, LinesAreSequences
  <2>2. CASE recs[r].file # "open"
    <3>1. recs'[r] = recs[r]
      BY <1>2, <2>2
    <3>2. Line(r)' = Line(r)
      BY <3>1 DEF Line
    <3> QED BY <2>1, <2>2, <3>1, <3>2, PrefixItself
  <2>3. CASE recs[r].file = "open"
    <3>1. PICK g : /\ g = IF r \in saved THEN recs[r].disk \o recs[r].buffer ELSE recs[r].disk
      OBVIOUS
    <3>2. recs'[r] = [recs[r] EXCEPT !.file = "closed", !.buffer = <<>>, !.disk = g]
      BY <1>2, <2>3, <3>1
    <3>3. recs[r].disk \in Seq(Event) /\ recs[r].buffer \in Seq(Event)
      BY <2>1, LineType
    <3>4. g \in {Line(r), recs[r].disk}
      BY <3>1 DEF Line
    <3>5. g \in Seq(Event) /\ IsPrefixOf(g, Line(r)) /\ Elements(recs[r].disk) \subseteq Elements(g)
      <4>1. Elements(recs[r].disk) \subseteq Elements(Line(r))
        BY <3>3, ElementsOfConcat DEF Line
      <4> QED BY <2>1, <3>3, <3>4, <4>1, PrefixItself
    <3>6. <<>> \in Seq(Event)
      BY EmptySeq
    <3>7. /\ recs'[r] \in Recording /\ recs'[r].file = "closed"
          /\ recs'[r].disk = g /\ recs'[r].buffer = <<>>
      BY <2>1, <3>2, <3>5, <3>6 DEF Recording
    <3>8. g \o <<>> = g
      BY <3>5, ConcatEmptySeq
    <3>9. Line(r)' = g
      BY <3>7, <3>8 DEF Line
    <3> QED BY <2>3, <3>5, <3>7, <3>9
  <2> QED BY <2>2, <2>3
<1>5. recs' \in [Rec -> Recording]
  <2>1. DOMAIN recs' = Rec /\ recs' = [r \in Rec |-> recs'[r]]
    BY <1>2
  <2> QED BY <1>4, <2>1
<1>6. TypeOK'
  <2>1. <<>> \in Seq([port : Port, event : Event])
    BY EmptySeq
  <2>2. active' \in [Port -> 0..MaxRecs]
    BY <1>1, RecorderAssumption
  <2> QED BY <1>1, <1>3, <1>5, <2>1, <2>2 DEF TypeOK, Recording
<1>7. PassedOK'
  <2> SUFFICES ASSUME NEW r \in Rec PROVE passed[r] \subseteq Elements(recs'[r].disk)
    BY <1>1 DEF PassedOK, Written, Elements
  <2>1. passed[r] \subseteq Elements(recs[r].disk)
    BY DEF IInv, PassedOK, Written, Elements
  <2> QED BY <1>4, <2>1
<1>8. Files'
  <2>1. Unborn.file # "open"
    BY DEF Unborn
  <2>2. \A r \in Rec : r > made => recs'[r] = Unborn
    BY <1>4, <2>1 DEF IInv, Files
  <2> QED BY <1>1, <1>4, <2>2 DEF Files
<1>9. LinesSorted' /\ LinesPast' /\ LinesApart'
  <2>1. events' \in Nat /\ events' >= events
    BY <1>1, <1>3
  <2> QED BY <1>4, <2>1, LinesCut
<1>10. PendingSorted' /\ PendingLater'
  <2>1. Len(pending') = 0
    BY <1>1, EmptySeq
  <2>2. \A i \in 1..0 : FALSE
    OBVIOUS
  <2> QED BY <2>1, <2>2 DEF PendingSorted, PendingLater
<1> QED BY <1>6, <1>7, <1>8, <1>9, <1>10 DEF IInv

LEMMA StepKeeps == IInv /\ [Next]_vars => IInv'
<1> SUFFICES ASSUME IInv, [Next]_vars PROVE IInv'
  OBVIOUS
<1>1. ASSUME NEW p \in Port, Start(p) \/ Stop(p) \/ Read(p) \/ WebSocketWrote(p) PROVE IInv'
  BY <1>1, StartKeeps, StopKeeps, ReadKeeps, WebSocketWroteKeeps
<1>2. ASSUME \/ \E p \in Port : OpenPort(p) \/ ClosePort(p)
             \/ UNCHANGED vars
      PROVE  IInv'
  <2>1. /\ UNCHANGED <<events, pending, active, recs, made, passed, shown>>
        /\ open \subseteq Port => open' \subseteq Port
    BY <1>2 DEF OpenPort, ClosePort, vars
  <2>2. TypeOK' /\ Files'
    BY <2>1 DEF IInv, TypeOK, Files
  <2>3. events' \in Nat /\ events' >= events
    BY <2>1 DEF IInv, TypeOK
  <2> QED BY <2>1, <2>2, <2>3, SameRecordings DEF IInv
<1>3. ASSUME NEW r \in Rec, Delete(r) PROVE IInv'
  BY <1>3, DeleteKeeps
<1>4. CASE Broadcast \/ Restart
  BY <1>4, BroadcastKeeps, RestartKeeps
<1> QED BY <1>1, <1>2, <1>3, <1>4 DEF Next

-----------------------------------------------------------------------------
(* The theorems                                                            *)

\* The inductive invariant holds, however flushes fail, ports close and open,
\* recordings are deleted and the server restarts.
THEOREM Invariant == Spec => []IInv
<1>1. Init => IInv
  BY Initial
<1>2. IInv /\ [Next]_vars => IInv'
  BY StepKeeps
<1> QED BY <1>1, <1>2, PTL DEF Spec

\* The recorder's state has its types (recording.py:19-83).
THEOREM TypeCorrect == Spec => []TypeOK
<1>1. IInv => TypeOK
  BY DEF IInv
<1> QED BY <1>1, Invariant, PTL

\* With a buffer of any size and any number of flushes that fail: what web clients
\* were sent or wrote while a recording was active is in its file, once and in order
\* (ws_manager.py:98-114, recording.py:73-77).
THEOREM SeenIsRecordedHolds == Spec => []SeenIsRecorded
<1>1. IInv => SeenIsRecorded
  <2> SUFFICES ASSUME IInv, NEW r \in Rec
               PROVE  /\ passed[r] \subseteq Written(r)
                      /\ \A i, j \in DOMAIN recs[r].disk :
                            i < j => /\ recs[r].disk[i] # recs[r].disk[j]
                                     /\ recs[r].disk[i].dir = "o" /\ recs[r].disk[j].dir = "o"
                                           => recs[r].disk[i].no < recs[r].disk[j].no
    BY DEF SeenIsRecorded
  <2>1. /\ Line(r) \in Seq(Event) /\ IsPrefixOf(recs[r].disk, Line(r))
        /\ recs[r].disk \in Seq(Event)
    BY LinesAreSequences, LineType DEF IInv
  <2>2. \A i \in DOMAIN recs[r].disk : i \in 1..Len(Line(r)) /\ recs[r].disk[i] = Line(r)[i]
    BY <2>1, LenProperties DEF IsPrefixOf
  <2>3. Sorted(Line(r)) /\ passed[r] \subseteq Written(r)
    BY DEF IInv, LinesSorted, PassedOK
  <2> QED BY <2>2, <2>3 DEF Sorted
<1> QED BY <1>1, Invariant, PTL

\* For any number of ports and recordings: an open file is the active recording of
\* its port, and no piece of data is in two recordings (recording.py:38-64).
THEOREM OneRecordingAtATimeHolds == Spec => []OneRecordingAtATime
<1>1. IInv => OneRecordingAtATime
  <2> SUFFICES ASSUME IInv PROVE OneRecordingAtATime
    OBVIOUS
  <2>1. ASSUME NEW r \in Rec, NEW i \in DOMAIN recs[r].disk
        PROVE  i \in 1..Len(Line(r)) /\ recs[r].disk[i] = Line(r)[i]
    <3>1. /\ Line(r) \in Seq(Event) /\ IsPrefixOf(recs[r].disk, Line(r))
          /\ recs[r].disk \in Seq(Event)
      BY LinesAreSequences, LineType DEF IInv
    <3> QED BY <3>1, LenProperties DEF IsPrefixOf
  <2>2. \A r, q \in Rec : r # q => Written(r) \cap Written(q) = {}
    BY <2>1 DEF IInv, LinesApart, Written
  <2> QED BY <2>2 DEF IInv, Files, OneRecordingAtATime
<1> QED BY <1>1, Invariant, PTL

-----------------------------------------------------------------------------
(* LogRotation                                                             *)

\* What a file is.
LogFile == [lines : Seq(Nat \cup {Junk}), open : BOOLEAN]

\* The files have their type, and only calls that were made are in the history.
LogTypes ==
    /\ files \in [FileNo -> LogFile \cup {Absent}]
    /\ calls \in Nat /\ faults \in Nat /\ lost \subseteq 1..calls

\* The entries in a file.
Entries(f) == {x \in Nat : \E p \in DOMAIN Lines(f) : Lines(f)[p] = x}

\* After n calls: every file has its entries in order, and those of an older file are
\* older.
Ordered(fs, n) ==
    \A i \in FileNo :
       /\ Entries(fs[i]) \subseteq 1..n
       /\ \A p, q \in DOMAIN Lines(fs[i]) :
             p < q /\ Lines(fs[i])[p] \in Nat /\ Lines(fs[i])[q] \in Nat =>
                Lines(fs[i])[p] < Lines(fs[i])[q]
       /\ \A j \in FileNo : j < i => \A x \in Entries(fs[i]), y \in Entries(fs[j]) : x < y

\* No entry that was written is missing between those there are.
Complete(fs, n, gone) ==
    \A x \in (1..n) \ gone :
       \/ \E i \in FileNo : x \in Entries(fs[i])
       \/ \A i \in FileNo : \A y \in Entries(fs[i]) : x < y

\* An entry that was written is in no file any more.
GivenUp(fs, n, gone) == \E x \in (1..n) \ gone : \A i \in FileNo : x \notin Entries(fs[i])

\* The numbers up to n that no rotated file has.
Holes(fs, n) == {j \in 1..n : fs[j] = Absent}

\* With m failures, there are no more than m holes below a rotated file, nor among all
\* of them once entries were given up.
FewHoles(fs, n, gone, m) ==
    /\ \A i \in 1..MaxFiles : fs[i] # Absent => Cardinality(Holes(fs, i)) <= m
    /\ GivenUp(fs, n, gone) => Cardinality(Holes(fs, MaxFiles)) <= m

\* Rotated files were full.
FullRotated(fs) == \A i \in 1..MaxFiles : fs[i] # Absent => Len(fs[i].lines) >= MaxSize

\* A failure costs its own entry and that which its piece of a line will spoil.
FewLost ==
    Cardinality(lost) + (IF files[0] # Absent /\ files[0].open THEN 1 ELSE 0) <= 2 * faults

\* The inductive invariant.
LogInv ==
    /\ LogTypes /\ Ordered(files, calls) /\ Complete(files, calls, lost)
    /\ FewHoles(files, calls, lost, faults) /\ FullRotated(files) /\ FewLost

-----------------------------------------------------------------------------
(* Recursion and induction on the natural numbers                          *)

\* A set that has 0 and the successor of each of its members has all numbers.
LEMMA SetInduction ==
    ASSUME NEW T, 0 \in T, \A n \in Nat : n \in T => n + 1 \in T
    PROVE  Nat \subseteq T
<1> SUFFICES ASSUME Nat \ T # {} PROVE FALSE
  OBVIOUS
<1>1. PICK x \in Nat \ T : \A y \in Nat \ T : ~(<<y, x>> \in OpToRel(<, Nat))
  <2>1. Nat \ T \subseteq Nat
    OBVIOUS
  <2> QED BY <2>1, NatLessThanWellFounded, WFMin
<1>2. \A y \in Nat \ T : y < x => <<y, x>> \in OpToRel(<, Nat)
  BY DEF OpToRel
<1>3. \A y \in Nat \ T : ~(y < x)
  BY <1>1, <1>2
<1>4. x # 0 /\ x - 1 \in Nat /\ x - 1 \in T
  BY <1>3
<1> QED BY <1>4

\* A step that is a function can be repeated.
LEMMA Repeated ==
    ASSUME NEW X, NEW base \in X, NEW N \in Nat, NEW step \in [1..N -> [X -> X]]
    PROVE  \E f \in [0..N -> X] : f[0] = base /\ \A n \in 1..N : f[n] = step[n][f[n - 1]]
<1> DEFINE Is(f, m) == f \in [0..m -> X] /\ f[0] = base /\ \A n \in 1..m : f[n] = step[n][f[n - 1]]
           T == {m \in Nat : m <= N => \E f : Is(f, m)}
<1>1. 0 \in T
  <2> DEFINE f == [n \in 0..0 |-> base]
  <2>1. f \in [0..0 -> X] /\ f[0] = base /\ 1..0 = {}
    OBVIOUS
  <2>2. Is(f, 0)
    BY <2>1
  <2> QED BY <2>2
<1>2. ASSUME NEW m \in Nat, m \in T, m + 1 <= N
      PROVE  \E f : Is(f, m + 1)
  <2>1. PICK f : Is(f, m)
    BY <1>2
  <2> DEFINE y == step[m + 1][f[m]]
             g == [n \in 0..m + 1 |-> IF n = m + 1 THEN y ELSE f[n]]
  <2>2. y \in X
    <3>1. m + 1 \in 1..N /\ f[m] \in X
      BY <1>2, <2>1
    <3> QED BY <3>1
  <2> HIDE DEF y
  <2>3. g \in [0..m + 1 -> X]
    BY <2>1, <2>2
  <2>4. g[0] = base
    BY <2>1
  <2>5. ASSUME NEW n \in 1..m + 1 PROVE g[n] = step[n][g[n - 1]]
    <3>1. n - 1 \in 0..m /\ g[n - 1] = f[n - 1]
      OBVIOUS
    <3>2. CASE n = m + 1
      BY <3>1, <3>2 DEF y
    <3>3. CASE n # m + 1
      <4>1. n \in 1..m /\ g[n] = f[n]
        BY <3>3
      <4> HIDE DEF g
      <4> QED BY <2>1, <3>1, <4>1
    <3> QED BY <3>2, <3>3
  <2> HIDE DEF g
  <2>6. Is(g, m + 1)
    BY <2>3, <2>4, <2>5
  <2> HIDE DEF Is
  <2> QED BY <2>6
<1>3. Nat \subseteq T
  <2>1. ASSUME NEW m \in Nat, m \in T PROVE m + 1 \in T
    <3>1. CASE m + 1 <= N
      <4>1. \E f : Is(f, m + 1)
        BY <1>2, <2>1, <3>1
      <4> HIDE DEF Is
      <4> QED BY <4>1
    <3>2. CASE ~(m + 1 <= N)
      BY <3>2
    <3> QED BY <3>1, <3>2
  <2> HIDE DEF T
  <2> QED BY <1>1, <2>1, SetInduction
<1>4. \E f : Is(f, N)
  BY <1>3
<1> QED BY <1>4

-----------------------------------------------------------------------------
(* Ascending sequences                                                     *)

\* t has the numbers of M, in ascending order.
Ascends(t, M) ==
    /\ t \in Seq(Nat)
    /\ \A a, b \in 1..Len(t) : a < b => t[a] < t[b]
    /\ \A a \in 1..Len(t) : t[a] \in M
    /\ \A x \in M : \E a \in 1..Len(t) : t[a] = x

\* Nothing, and one more number at the end.
LEMMA AscendsAppend ==
    /\ Ascends(<<>>, {})
    /\ \A t, M : \A x \in Nat :
          Ascends(t, M) /\ (\A y \in M : y < x) => Ascends(Append(t, x), M \cup {x})
<1>1. Ascends(<<>>, {})
  BY DEF Ascends
<1>2. ASSUME NEW t, NEW M, NEW x \in Nat, Ascends(t, M), \A y \in M : y < x
      PROVE  Ascends(Append(t, x), M \cup {x})
  <2> DEFINE u == Append(t, x)
  <2>1. t \in Seq(Nat) /\ Len(t) \in Nat
    BY <1>2, LenProperties DEF Ascends
  <2>2. /\ u \in Seq(Nat) /\ Len(u) = Len(t) + 1 /\ u[Len(t) + 1] = x
        /\ \A i \in 1..Len(t) : u[i] = t[i]
    BY <2>1, AppendProperties
  <2> HIDE DEF u
  <2>3. \A a \in 1..Len(u) : a \in 1..Len(t) \/ a = Len(t) + 1
    BY <2>1, <2>2
  <2>4. \A a \in 1..Len(t) : a \in 1..Len(u)
    BY <2>1, <2>2
  <2>5. ASSUME NEW a \in 1..Len(u), NEW b \in 1..Len(u), a < b PROVE u[a] < u[b]
    <3>1. a \in 1..Len(t) /\ u[a] = t[a] /\ t[a] \in M
      BY <1>2, <2>1, <2>2, <2>3, <2>5 DEF Ascends
    <3>2. CASE b \in 1..Len(t)
      BY <1>2, <2>2, <2>5, <3>1, <3>2 DEF Ascends
    <3>3. CASE b = Len(t) + 1
      BY <1>2, <2>2, <3>1, <3>3
    <3> QED BY <2>3, <3>2, <3>3
  <2>6. \A a \in 1..Len(u) : u[a] \in M \cup {x}
    BY <1>2, <2>2, <2>3 DEF Ascends
  <2>7. ASSUME NEW y \in M \cup {x} PROVE \E a \in 1..Len(u) : u[a] = y
    <3>1. CASE y \in M
      <4>1. PICK a \in 1..Len(t) : t[a] = y
        BY <1>2, <3>1 DEF Ascends
      <4> QED BY <2>2, <2>4, <4>1
    <3>2. CASE y = x
      <4>1. Len(t) + 1 \in 1..Len(u)
        BY <2>1, <2>2
      <4> QED BY <2>2, <3>2, <4>1
    <3> QED BY <2>7, <3>1, <3>2
  <2>8. Ascends(u, M \cup {x})
    BY ONLY <2>2, <2>5, <2>6, <2>7 DEF Ascends
  <2> QED BY <2>8 DEF u
<1> QED BY <1>1, <1>2

\* Larger numbers behind smaller ones.
LEMMA AscendsConcat ==
    ASSUME NEW t, NEW M, NEW u, NEW N, Ascends(t, M), Ascends(u, N),
           \A x \in M, y \in N : x < y
    PROVE  Ascends(t \o u, M \cup N)
<1> DEFINE v == t \o u
<1>1. t \in Seq(Nat) /\ u \in Seq(Nat) /\ Len(t) \in Nat /\ Len(u) \in Nat
  BY LenProperties DEF Ascends
<1>2. /\ v \in Seq(Nat) /\ Len(v) = Len(t) + Len(u)
      /\ \A i \in 1..Len(t) + Len(u) : v[i] = IF i <= Len(t) THEN t[i] ELSE u[i - Len(t)]
  BY <1>1, ConcatProperties
<1> HIDE DEF v
<1>3. ASSUME NEW a \in 1..Len(v)
      PROVE  \/ a <= Len(t) /\ a \in 1..Len(t) /\ v[a] = t[a] /\ t[a] \in M
             \/ a > Len(t) /\ a - Len(t) \in 1..Len(u) /\ v[a] = u[a - Len(t)] /\ u[a - Len(t)] \in N
  BY <1>1, <1>2 DEF Ascends
<1>4. ASSUME NEW a \in 1..Len(v), NEW b \in 1..Len(v), a < b PROVE v[a] < v[b]
  <2>1. CASE b <= Len(t)
    <3>1. a <= Len(t)
      BY <1>1, <1>4, <2>1
    <3> QED BY <1>1, <1>3, <1>4, <2>1, <3>1 DEF Ascends
  <2>2. CASE a <= Len(t) /\ b > Len(t)
    <3>1. v[a] = t[a] /\ t[a] \in M
      BY <1>1, <1>2, <1>3, <2>2
    <3>2. v[b] = u[b - Len(t)] /\ u[b - Len(t)] \in N
      BY <1>1, <1>2, <1>3, <2>2
    <3> QED BY <3>1, <3>2
  <2>3. CASE a > Len(t)
    <3>1. b > Len(t) /\ a - Len(t) < b - Len(t)
      BY <1>1, <1>2, <1>4, <2>3
    <3>2. /\ a - Len(t) \in 1..Len(u) /\ v[a] = u[a - Len(t)]
          /\ b - Len(t) \in 1..Len(u) /\ v[b] = u[b - Len(t)]
      BY <1>1, <1>2, <1>3, <2>3, <3>1
    <3> QED BY <3>1, <3>2 DEF Ascends
  <2> QED BY <1>1, <2>1, <2>2, <2>3
<1>5. \A a \in 1..Len(v) : v[a] \in M \cup N
  BY <1>3
<1>6. ASSUME NEW x \in M \cup N PROVE \E a \in 1..Len(v) : v[a] = x
  <2>1. CASE x \in M
    <3>1. PICK a \in 1..Len(t) : t[a] = x
      BY <2>1 DEF Ascends
    <3>2. a \in 1..Len(v) /\ v[a] = t[a]
      BY <1>1, <1>2
    <3> QED BY <3>1, <3>2
  <2>2. CASE x \in N
    <3>1. PICK a \in 1..Len(u) : u[a] = x
      BY <2>2 DEF Ascends
    <3>2. /\ Len(t) + a \in 1..Len(t) + Len(u) /\ ~(Len(t) + a <= Len(t))
          /\ (Len(t) + a) - Len(t) = a
      BY <1>1
    <3>3. Len(t) + a \in 1..Len(v) /\ v[Len(t) + a] = u[a]
      BY <1>2, <3>2
    <3> QED BY <3>1, <3>3
  <2> QED BY <1>6, <2>1, <2>2
<1>7. Ascends(v, M \cup N)
  BY ONLY <1>2, <1>4, <1>5, <1>6 DEF Ascends
<1> QED BY <1>7 DEF v

-----------------------------------------------------------------------------
(* What a query finds                                                      *)

\* The filter over the lines of a file, line by line.
LEMMA MatchingUnfolds ==
    ASSUME NEW S, NEW s \in Seq(S), NEW wanted
    PROVE  \E f : /\ Matching(s, wanted) = f[Len(s)] /\ f[0] = <<>>
                  /\ \A n \in 1..Len(s) :
                        f[n] = IF s[n] \in wanted THEN Append(f[n - 1], s[n]) ELSE f[n - 1]
<1> DEFINE N == Len(s)
           Is(f) == f = [n \in 0..Len(s) |->
                           IF n = 0 THEN <<>>
                           ELSE IF s[n] \in wanted THEN Append(f[n - 1], s[n]) ELSE f[n - 1]]
           step == [n \in 1..N |-> [t \in Seq(S) |-> IF s[n] \in wanted THEN Append(t, s[n]) ELSE t]]
<1>1. N \in Nat /\ \A n \in 1..N : s[n] \in S
  BY LenProperties, ElementOfSeq
<1>2. step \in [1..N -> [Seq(S) -> Seq(S)]]
  <2>1. ASSUME NEW n \in 1..N, NEW t \in Seq(S)
        PROVE  (IF s[n] \in wanted THEN Append(t, s[n]) ELSE t) \in Seq(S)
    BY <1>1, AppendProperties
  <2> QED BY <2>1
<1>3. <<>> \in Seq(S)
  BY EmptySeq
<1>4. PICK f \in [0..N -> Seq(S)] : f[0] = <<>> /\ \A n \in 1..N : f[n] = step[n][f[n - 1]]
  <2> DEFINE X == Seq(S)  base == <<>>
  <2>1. N \in Nat /\ base \in X /\ step \in [1..N -> [X -> X]]
    BY <1>1, <1>2, <1>3
  <2> HIDE DEF X, base, step, N
  <2>2. \E f \in [0..N -> X] : f[0] = base /\ \A n \in 1..N : f[n] = step[n][f[n - 1]]
    BY <2>1, Repeated
  <2> QED BY <2>2 DEF X, base
<1>5. ASSUME NEW n \in 1..N
      PROVE  f[n] = IF s[n] \in wanted THEN Append(f[n - 1], s[n]) ELSE f[n - 1]
  <2>1. f[n - 1] \in Seq(S)
    BY <1>1, <1>4
  <2>2. step[n][f[n - 1]] = IF s[n] \in wanted THEN Append(f[n - 1], s[n]) ELSE f[n - 1]
    BY <2>1
  <2> QED BY <1>4, <2>2
<1>6. Is(f)
  <2>1. \A n \in 0..N : f[n] = IF n = 0 THEN <<>>
                               ELSE IF s[n] \in wanted THEN Append(f[n - 1], s[n]) ELSE f[n - 1]
    <3> HIDE DEF step
    <3>1. \A n \in 0..N : n = 0 \/ n \in 1..N
      BY <1>1
    <3> QED BY <1>4, <1>5, <3>1
  <2> HIDE DEF step
  <2> QED BY <1>4, <2>1
<1> DEFINE h == CHOOSE g : Is(g)
<1>7. Is(h)
  <2> HIDE DEF Is
  <2> QED BY <1>6
<1>8. Matching(s, wanted) = h[Len(s)]
  BY DEF Matching
<1> HIDE DEF h, step
<1>9. h[0] = <<>> /\ \A n \in 1..N : h[n] = IF s[n] \in wanted THEN Append(h[n - 1], s[n]) ELSE h[n - 1]
  <2>1. 0 \in 0..N /\ \A n \in 1..N : n \in 0..N /\ n # 0
    BY <1>1
  <2> QED BY <1>7, <2>1
<1> QED BY <1>8, <1>9

\* The lines of a file that are wanted come out in their order.
LEMMA MatchingAscends ==
    ASSUME NEW S, NEW s \in Seq(S), NEW wanted \in SUBSET Nat,
           \A p, q \in DOMAIN s : p < q /\ s[p] \in Nat /\ s[q] \in Nat => s[p] < s[q]
    PROVE  Ascends(Matching(s, wanted), {x \in wanted : \E p \in DOMAIN s : s[p] = x})
<1>1. PICK f : /\ Matching(s, wanted) = f[Len(s)] /\ f[0] = <<>>
               /\ \A n \in 1..Len(s) :
                     f[n] = IF s[n] \in wanted THEN Append(f[n - 1], s[n]) ELSE f[n - 1]
  BY MatchingUnfolds
<1>2. Len(s) \in Nat /\ DOMAIN s = 1..Len(s)
  BY LenProperties
<1> DEFINE Seen(n) == {x \in wanted : \E p \in 1..n : s[p] = x}
           T == {n \in Nat : n <= Len(s) => Ascends(f[n], Seen(n))}
<1>3. 0 \in T
  <2>1. Seen(0) = {}
    OBVIOUS
  <2> QED BY <1>1, <2>1, AscendsAppend
<1>4. ASSUME NEW n \in Nat, n \in T, n + 1 <= Len(s)
      PROVE  Ascends(f[n + 1], Seen(n + 1))
  <2>1. n + 1 \in 1..Len(s) /\ (n + 1) - 1 = n /\ Ascends(f[n], Seen(n))
    BY <1>2, <1>4
  <2>2. f[n + 1] = IF s[n + 1] \in wanted THEN Append(f[n], s[n + 1]) ELSE f[n]
    BY <1>1, <2>1
  <2>3. \A p \in 1..n + 1 : p \in 1..n \/ p = n + 1
    OBVIOUS
  <2>4. CASE s[n + 1] \in wanted
    <3>1. Seen(n + 1) = Seen(n) \cup {s[n + 1]}
      BY <2>3, <2>4
    <3>2. ASSUME NEW y \in Seen(n) PROVE y < s[n + 1]
      <4>1. PICK p \in 1..n : s[p] = y /\ y \in Nat
        OBVIOUS
      <4>2. p \in DOMAIN s /\ n + 1 \in DOMAIN s /\ p < n + 1
        BY <1>2, <2>1
      <4>3. s[p] \in Nat /\ s[n + 1] \in Nat
        BY <2>4, <4>1
      <4> QED BY <4>1, <4>2, <4>3
    <3> HIDE DEF Seen
    <3>3. s[n + 1] \in Nat
      BY <2>4
    <3> QED BY <2>1, <2>2, <2>4, <3>1, <3>2, <3>3, AscendsAppend
  <2>5. CASE s[n + 1] \notin wanted
    <3>1. Seen(n + 1) = Seen(n)
      BY <2>3, <2>5
    <3> QED BY <2>1, <2>2, <2>5, <3>1
  <2> QED BY <2>4, <2>5
<1>5. Nat \subseteq T
  <2>1. ASSUME NEW n \in Nat, n \in T PROVE n + 1 \in T
    <3>1. CASE n + 1 <= Len(s)
      <4>1. Ascends(f[n + 1], Seen(n + 1))
        BY <1>4, <2>1, <3>1
      <4> HIDE DEF Seen
      <4> QED BY <4>1
    <3>2. CASE ~(n + 1 <= Len(s))
      BY <3>2
    <3> QED BY <3>1, <3>2
  <2> HIDE DEF T
  <2> QED BY <1>3, <2>1, SetInduction
<1>6. Ascends(f[Len(s)], Seen(Len(s)))
  <2>1. Len(s) \in T
    <3> HIDE DEF T
    <3> QED BY <1>2, <1>5
  <2> HIDE DEF Seen
  <2> QED BY <1>2, <2>1
<1> QED BY <1>1, <1>2, <1>6

\* The loop over the files, file by file.
LEMMA ResultsUnfolds ==
    ASSUME NEW wanted, NEW unread, \A i \in FileNo : Part(i, wanted, unread) \in Seq(Nat)
    PROVE  \E f : /\ Results(wanted, unread) = f[Steps] /\ f[0] = <<>>
                  /\ \A n \in 1..Steps : f[n] = f[n - 1] \o Part(Steps - n, wanted, unread)
<1> DEFINE N == Steps
           Got(n) == Part(Steps - n, wanted, unread)
           Is(f) == f = [n \in 0..Steps |-> IF n = 0 THEN <<>> ELSE f[n - 1] \o Got(n)]
           step == [n \in 1..N |-> [t \in Seq(Nat) |-> t \o Got(n)]]
<1>1. N \in Nat /\ \A n \in 1..N : Got(n) \in Seq(Nat)
  <2>1. N \in Nat /\ \A n \in 1..N : Steps - n \in FileNo
    BY RotationAssumption DEF Steps, FileNo
  <2> QED BY <2>1
<1> HIDE DEF Got
<1>2. step \in [1..N -> [Seq(Nat) -> Seq(Nat)]]
  <2>1. ASSUME NEW n \in 1..N, NEW t \in Seq(Nat)
        PROVE  t \o Got(n) \in Seq(Nat)
    BY <1>1, ConcatProperties
  <2> QED BY <2>1
<1>3. <<>> \in Seq(Nat)
  BY EmptySeq
<1>4. PICK f \in [0..N -> Seq(Nat)] : f[0] = <<>> /\ \A n \in 1..N : f[n] = step[n][f[n - 1]]
  <2> DEFINE X == Seq(Nat)  base == <<>>
  <2>1. N \in Nat /\ base \in X /\ step \in [1..N -> [X -> X]]
    BY <1>1, <1>2, <1>3
  <2> HIDE DEF X, base, step, N
  <2>2. \E f \in [0..N -> X] : f[0] = base /\ \A n \in 1..N : f[n] = step[n][f[n - 1]]
    BY <2>1, Repeated
  <2> QED BY <2>2 DEF X, base
<1>5. ASSUME NEW n \in 1..N
      PROVE  f[n] = f[n - 1] \o Got(n)
  <2>1. f[n - 1] \in Seq(Nat)
    BY <1>1, <1>4
  <2>2. step[n][f[n - 1]] = f[n - 1] \o Got(n)
    BY <2>1
  <2> QED BY <1>4, <2>2
<1>6. Is(f)
  <2>1. \A n \in 0..N : f[n] = IF n = 0 THEN <<>> ELSE f[n - 1] \o Got(n)
    <3> HIDE DEF step
    <3>1. \A n \in 0..N : n = 0 \/ n \in 1..N
      BY <1>1
    <3> QED BY <1>4, <1>5, <3>1
  <2> HIDE DEF step
  <2> QED BY <1>4, <2>1
<1> DEFINE h == CHOOSE g : Is(g)
<1>7. Is(h)
  <2> HIDE DEF Is
  <2> QED BY <1>6
<1>8. Results(wanted, unread) = h[Steps]
  BY DEF Results, Got
<1> HIDE DEF h, step
<1>9. h[0] = <<>> /\ \A n \in 1..N : h[n] = h[n - 1] \o Got(n)
  <2>1. 0 \in 0..N /\ \A n \in 1..N : n \in 0..N /\ n # 0
    BY <1>1
  <2> QED BY <1>7, <2>1
<1> QED BY <1>8, <1>9 DEF Got

\* What is in the files.
Stored == UNION {Entries(files[i]) : i \in FileNo}

\* What is in the files that can be read.
Readable(unread) == UNION {Entries(files[i]) : i \in FileNo \ unread}

\* A query meets exactly the entries that are wanted and can be read, oldest first.
LEMMA ResultsAscend ==
    ASSUME LogTypes, Ordered(files, calls), NEW wanted \in SUBSET Nat, NEW unread
    PROVE  Ascends(Results(wanted, unread), wanted \cap Readable(unread))
<1> DEFINE Got(n) == Part(Steps - n, wanted, unread)
           Of(i) == IF i \in unread THEN {} ELSE wanted \cap Entries(files[i])
           In(n) == Of(Steps - n)
<1>0. ASSUME NEW i \in FileNo
      PROVE  Ascends(Matching(Lines(files[i]), wanted), wanted \cap Entries(files[i]))
  <2>1. Lines(files[i]) \in Seq(Nat \cup {Junk})
    BY EmptySeq DEF LogTypes, LogFile, Lines
  <2>2. \A p, q \in DOMAIN Lines(files[i]) :
             p < q /\ Lines(files[i])[p] \in Nat /\ Lines(files[i])[q] \in Nat =>
                Lines(files[i])[p] < Lines(files[i])[q]
    BY DEF Ordered
  <2>3. wanted \cap Entries(files[i]) =
          {x \in wanted : \E p \in DOMAIN Lines(files[i]) : Lines(files[i])[p] = x}
    BY DEF Entries
  <2> QED BY <2>1, <2>2, <2>3, MatchingAscends
<1>1. ASSUME NEW i \in FileNo PROVE Ascends(Part(i, wanted, unread), Of(i))
  <2>1. CASE i \in unread
    BY <2>1, AscendsAppend DEF Part
  <2>2. CASE i \notin unread
    BY <1>0, <2>2 DEF Part
  <2> QED BY <2>1, <2>2
<1>2. PICK f : /\ Results(wanted, unread) = f[Steps] /\ f[0] = <<>>
               /\ \A n \in 1..Steps : f[n] = f[n - 1] \o Got(n)
  <2>1. \A i \in FileNo : Part(i, wanted, unread) \in Seq(Nat)
    BY <1>1 DEF Ascends
  <2> QED BY <2>1, ResultsUnfolds
<1>3. Steps \in Nat /\ \A n \in 1..Steps : Steps - n \in FileNo
  BY RotationAssumption DEF Steps, FileNo
<1>4. \A n \in 1..Steps : Ascends(Got(n), In(n))
  BY <1>1, <1>3
<1>5. \A m, n \in 1..Steps : m < n => \A x \in In(m), y \in In(n) : x < y
  <2> SUFFICES ASSUME NEW m \in 1..Steps, NEW n \in 1..Steps, m < n,
                      NEW x \in In(m), NEW y \in In(n)
               PROVE  x < y
    OBVIOUS
  <2>1. Steps - m \in FileNo /\ Steps - n \in FileNo /\ Steps - n < Steps - m
    BY <1>3
  <2>2. x \in Entries(files[Steps - m]) /\ y \in Entries(files[Steps - n])
    OBVIOUS
  <2> QED BY <2>1, <2>2 DEF Ordered
<1> HIDE DEF Got, In
<1> DEFINE Met(n) == UNION {In(m) : m \in 1..n}
           T == {n \in Nat : n <= Steps => Ascends(f[n], Met(n))}
<1>6. 0 \in T
  <2>1. Met(0) = {}
    OBVIOUS
  <2> QED BY <1>2, <2>1, AscendsAppend
<1>7. ASSUME NEW n \in Nat, n \in T, n + 1 <= Steps
      PROVE  Ascends(f[n + 1], Met(n + 1))
  <2>1. n + 1 \in 1..Steps /\ (n + 1) - 1 = n /\ Ascends(f[n], Met(n))
    BY <1>3, <1>7
  <2>2. f[n + 1] = f[n] \o Got(n + 1)
    BY <1>2, <2>1
  <2>3. Met(n + 1) = Met(n) \cup In(n + 1)
    <3>1. \A m \in 1..n + 1 : m \in 1..n \/ m = n + 1
      OBVIOUS
    <3>2. n + 1 \in 1..n + 1 /\ \A m \in 1..n : m \in 1..n + 1
      OBVIOUS
    <3> QED BY <3>1, <3>2
  <2>4. \A x \in Met(n), y \in In(n + 1) : x < y
    <3> SUFFICES ASSUME NEW m \in 1..n, NEW x \in In(m), NEW y \in In(n + 1) PROVE x < y
      OBVIOUS
    <3>1. m \in 1..Steps /\ m < n + 1
      BY <1>3, <1>7
    <3> QED BY <1>5, <2>1, <3>1
  <2> HIDE DEF Met
  <2>5. Ascends(Got(n + 1), In(n + 1))
    BY <1>4, <2>1
  <2> QED BY <2>1, <2>2, <2>3, <2>4, <2>5, AscendsConcat
<1>8. Nat \subseteq T
  <2>1. ASSUME NEW n \in Nat, n \in T PROVE n + 1 \in T
    <3>1. CASE n + 1 <= Steps
      <4>1. Ascends(f[n + 1], Met(n + 1))
        BY <1>7, <2>1, <3>1
      <4> HIDE DEF Met
      <4> QED BY <4>1
    <3>2. CASE ~(n + 1 <= Steps)
      BY <3>2
    <3> QED BY <3>1, <3>2
  <2> HIDE DEF T
  <2> QED BY <1>6, <2>1, SetInduction
<1>9. Ascends(f[Steps], Met(Steps))
  <2>1. Steps \in T
    <3> HIDE DEF T
    <3> QED BY <1>3, <1>8
  <2> HIDE DEF Met
  <2> QED BY <1>3, <2>1
<1>10. Met(Steps) = wanted \cap Readable(unread)
  <2>1. \A i \in FileNo : Steps - i \in 1..Steps /\ Steps - (Steps - i) = i
    BY RotationAssumption DEF Steps, FileNo
  <2>2. ASSUME NEW x \in Met(Steps) PROVE x \in wanted \cap Readable(unread)
    <3>1. PICK m \in 1..Steps : x \in In(m)
      BY <2>2
    <3> QED BY <1>3, <3>1 DEF In, Of, Readable
  <2>3. ASSUME NEW x \in wanted \cap Readable(unread) PROVE x \in Met(Steps)
    <3>1. PICK i \in FileNo \ unread : x \in Entries(files[i])
      BY <2>3 DEF Readable
    <3>2. x \in In(Steps - i)
      BY <2>1, <2>3, <3>1 DEF In, Of
    <3> QED BY <2>1, <3>2
  <2> QED BY <2>2, <2>3
<1> QED BY <1>2, <1>9, <1>10

-----------------------------------------------------------------------------
(* Rotation                                                                *)

\* Where the file with number i is after k steps of a rotation.
LEMMA RotatedFile ==
    ASSUME NEW k \in 0..Steps, NEW i \in FileNo
    PROVE  /\ i + k <= MaxFiles => Rotated(k)[i] = files[i]
           /\ i + k = MaxFiles + 1 => Rotated(k)[i] = Absent
           /\ i + k > MaxFiles + 1 => i - 1 \in FileNo /\ Rotated(k)[i] = files[i - 1]
<1>1. MaxFiles \in Nat /\ i \in 0..MaxFiles /\ k \in 0..MaxFiles + 1
  BY RotationAssumption DEF Steps, FileNo
<1>2. CASE i + k <= MaxFiles
  <2>1. ~(i + k = MaxFiles + 1) /\ ~(i + k > MaxFiles + 1)
    BY <1>1, <1>2
  <2> QED BY <1>2, <2>1 DEF Rotated
<1>3. CASE i + k = MaxFiles + 1
  <2>1. ~(i + k <= MaxFiles) /\ ~(i + k > MaxFiles + 1)
    BY <1>1, <1>3
  <2> QED BY <1>3, <2>1 DEF Rotated
<1>4. CASE i + k > MaxFiles + 1
  <2>1. ~(i + k = MaxFiles + 1) /\ ~(i + k <= MaxFiles) /\ i - 1 \in 0..MaxFiles
    BY <1>1, <1>4
  <2> QED BY <1>4, <2>1 DEF Rotated, FileNo
<1> QED BY <1>1, <1>2, <1>3, <1>4

\* A file that is there after k steps was there before, under the same number or the
\* one below, and the order of the files is kept.
From(k, i) == IF i + k <= MaxFiles THEN i ELSE i - 1

LEMMA RotatedFrom ==
    ASSUME NEW k \in 0..Steps
    PROVE  /\ \A i \in FileNo : Rotated(k)[i] # Absent =>
                 /\ i + k # MaxFiles + 1
                 /\ From(k, i) \in FileNo /\ Rotated(k)[i] = files[From(k, i)]
           /\ \A i, j \in FileNo : Rotated(k)[i] # Absent /\ Rotated(k)[j] # Absent /\ j < i =>
                 From(k, j) < From(k, i)
           /\ \A o \in FileNo : k = 0 \/ o # MaxFiles =>
                 \E i \in FileNo : Rotated(k)[i] = files[o]
<1>1. MaxFiles \in Nat /\ k \in 0..MaxFiles + 1 /\ FileNo = 0..MaxFiles
  BY RotationAssumption DEF Steps, FileNo
<1>2. ASSUME NEW i \in FileNo, Rotated(k)[i] # Absent
      PROVE  i + k # MaxFiles + 1 /\ From(k, i) \in FileNo /\ Rotated(k)[i] = files[From(k, i)]
  <2>1. CASE i + k <= MaxFiles
    BY <1>1, <2>1, RotatedFile DEF From
  <2>2. CASE ~(i + k <= MaxFiles)
    <3>1. i + k # MaxFiles + 1
      BY <1>2, RotatedFile
    <3>2. i + k > MaxFiles + 1
      BY <1>1, <2>2, <3>1
    <3> QED BY <2>2, <3>1, <3>2, RotatedFile DEF From
  <2> QED BY <2>1, <2>2
<1>3. ASSUME NEW i \in FileNo, NEW j \in FileNo, Rotated(k)[i] # Absent, Rotated(k)[j] # Absent, j < i
      PROVE  From(k, j) < From(k, i)
  <2>1. i + k # MaxFiles + 1 /\ j + k # MaxFiles + 1
    BY <1>2, <1>3
  <2> QED BY <1>1, <1>3, <2>1 DEF From
<1>4. ASSUME NEW o \in FileNo, k = 0 \/ o # MaxFiles
      PROVE  \E i \in FileNo : Rotated(k)[i] = files[o]
  <2>1. CASE o + k <= MaxFiles
    BY <2>1, RotatedFile
  <2>2. CASE ~(o + k <= MaxFiles)
    <3>1. o + 1 \in FileNo /\ (o + 1) + k > MaxFiles + 1 /\ (o + 1) - 1 = o
      BY <1>1, <1>4, <2>2
    <3> QED BY <3>1, RotatedFile
  <2> QED BY <2>1, <2>2
<1> QED BY <1>2, <1>3, <1>4

\* No file has no entries.
LEMMA NoEntries == Entries(Absent) = {} /\ DOMAIN Lines(Absent) = {}
BY EmptySeq DEF Entries, Lines

\* After any step of a rotation the files are in order and complete.
LEMMA RotatedOrdered ==
    ASSUME LogTypes, Ordered(files, calls), Complete(files, calls, lost), NEW k \in 0..Steps
    PROVE  /\ Rotated(k) \in [FileNo -> LogFile \cup {Absent}]
           /\ Ordered(Rotated(k), calls) /\ Complete(Rotated(k), calls, lost)
<1> DEFINE r == Rotated(k)
<1>1. /\ \A i \in FileNo : r[i] # Absent => From(k, i) \in FileNo /\ r[i] = files[From(k, i)]
      /\ \A i, j \in FileNo : r[i] # Absent /\ r[j] # Absent /\ j < i => From(k, j) < From(k, i)
      /\ \A o \in FileNo : k = 0 \/ o # MaxFiles => \E i \in FileNo : r[i] = files[o]
  BY RotatedFrom
<1>2. r = [i \in FileNo |-> r[i]]
  <2> DEFINE e(i) == CASE i + k <= MaxFiles -> files[i]
                       [] i + k = MaxFiles + 1 -> Absent
                       [] i + k > MaxFiles + 1 -> files[i - 1]
  <2>1. r = [i \in FileNo |-> e(i)]
    BY DEF Rotated
  <2> HIDE DEF e, r
  <2> QED BY <2>1
<1>3. MaxFiles \in FileNo /\ \A o \in FileNo : o # MaxFiles => o < MaxFiles
  BY RotationAssumption DEF FileNo
<1> HIDE DEF r
<1>4. r \in [FileNo -> LogFile \cup {Absent}]
  <2>1. \A i \in FileNo : r[i] \in LogFile \cup {Absent}
    BY <1>1 DEF LogTypes
  <2> QED BY <1>2, <2>1
<1>5. ASSUME NEW i \in FileNo
      PROVE  /\ Entries(r[i]) \subseteq 1..calls
             /\ \A p, q \in DOMAIN Lines(r[i]) :
                   p < q /\ Lines(r[i])[p] \in Nat /\ Lines(r[i])[q] \in Nat =>
                      Lines(r[i])[p] < Lines(r[i])[q]
             /\ \A j \in FileNo : j < i => \A x \in Entries(r[i]), y \in Entries(r[j]) : x < y
  <2>1. CASE r[i] = Absent
    BY <2>1, NoEntries
  <2>2. CASE r[i] # Absent
    <3>1. From(k, i) \in FileNo /\ r[i] = files[From(k, i)]
      BY <1>1, <2>2
    <3>2. /\ Entries(r[i]) \subseteq 1..calls
          /\ \A p, q \in DOMAIN Lines(r[i]) :
                p < q /\ Lines(r[i])[p] \in Nat /\ Lines(r[i])[q] \in Nat =>
                   Lines(r[i])[p] < Lines(r[i])[q]
      BY <3>1 DEF Ordered
    <3>3. ASSUME NEW j \in FileNo, j < i, NEW x \in Entries(r[i]), NEW y \in Entries(r[j])
          PROVE  x < y
      <4>1. r[j] # Absent
        BY <3>3, NoEntries
      <4>2. From(k, j) \in FileNo /\ r[j] = files[From(k, j)] /\ From(k, j) < From(k, i)
        BY <1>1, <2>2, <3>3, <4>1
      <4> QED BY <3>1, <3>3, <4>2 DEF Ordered
    <3> QED BY <3>2, <3>3
  <2> QED BY <2>1, <2>2
<1>6. Ordered(r, calls)
  BY <1>5 DEF Ordered
<1>7. ASSUME NEW x \in (1..calls) \ lost
      PROVE  \/ \E i \in FileNo : x \in Entries(r[i])
             \/ \A i \in FileNo : \A y \in Entries(r[i]) : x < y
  <2>1. ASSUME NEW i \in FileNo, NEW y \in Entries(r[i])
        PROVE  \E o \in FileNo : r[i] = files[o] /\ y \in Entries(files[o])
    <3>1. r[i] # Absent
      BY <2>1, NoEntries
    <3> QED BY <1>1, <2>1, <3>1
  <2>2. CASE \A i \in FileNo : \A y \in Entries(files[i]) : x < y
    BY <2>1, <2>2
  <2>3. CASE \E o \in FileNo : x \in Entries(files[o])
    <3>1. PICK o \in FileNo : x \in Entries(files[o])
      BY <2>3
    <3>2. CASE k = 0 \/ o # MaxFiles
      BY <1>1, <3>1, <3>2
    <3>3. CASE o = MaxFiles
      <4> SUFFICES ASSUME ~\E i \in FileNo : x \in Entries(r[i]),
                          NEW i \in FileNo, NEW y \in Entries(r[i])
                   PROVE  x < y
        OBVIOUS
      <4>1. PICK m \in FileNo : r[i] = files[m] /\ y \in Entries(files[m])
        BY <2>1
      <4>2. m # MaxFiles
        BY <3>1, <3>3, <4>1
      <4> QED BY <1>3, <3>1, <3>3, <4>1, <4>2 DEF Ordered
    <3> QED BY <3>2, <3>3
  <2> QED BY <2>2, <2>3 DEF Complete
<1>8. Complete(r, calls, lost)
  BY <1>7 DEF Complete
<1> QED BY <1>4, <1>6, <1>8 DEF r

\* The holes up to some number are a finite set, and none are fewer than any.
LEMMA HolesFinite ==
    ASSUME NEW fs, NEW n \in Nat
    PROVE  IsFiniteSet(Holes(fs, n)) /\ Cardinality(Holes(fs, n)) \in Nat
<1>1. IsFiniteSet(1..n)
  BY FS_Interval
<1>2. Holes(fs, n) \subseteq 1..n
  BY DEF Holes
<1> QED BY <1>1, <1>2, FS_Subset, FS_CardinalityType

\* A rotation moves the holes up with the files; one that ends halfway leaves a new
\* one where it ended.
LEMMA RotatedHoles ==
    ASSUME NEW k \in 1..Steps, files[0] # Absent, NEW i \in 1..MaxFiles
    PROVE  LET low == From(k, i)
               h == Cardinality(Holes(files, low))
           IN  /\ low \in 0..MaxFiles
               /\ Cardinality(Holes(Rotated(k), i)) <= h + 1
               /\ k = Steps => Cardinality(Holes(Rotated(k), i)) <= h
<1> DEFINE low == From(k, i)
           up(j) == IF j + k <= MaxFiles THEN j ELSE j + 1
           H == Holes(files, low)
           moved == {up(j) : j \in H}
           R == Holes(Rotated(k), i)
<1>1. /\ MaxFiles \in Nat /\ k \in 1..MaxFiles + 1 /\ Steps = MaxFiles + 1
      /\ FileNo = 0..MaxFiles /\ k \in 0..Steps /\ i \in FileNo
  BY RotationAssumption DEF Steps, FileNo
<1>2. low \in 0..MaxFiles
  BY <1>1 DEF From
<1>3. IsFiniteSet(H) /\ Cardinality(H) \in Nat /\ IsFiniteSet(R) /\ Cardinality(R) \in Nat
  <2>1. low \in Nat /\ i \in Nat
    BY <1>1, <1>2
  <2> QED BY <2>1, HolesFinite
<1>4. IsFiniteSet(moved) /\ Cardinality(moved) <= Cardinality(H) /\ Cardinality(moved) \in Nat
  <2> DEFINE f == [j \in H |-> up(j)]
  <2> HIDE DEF H, up
  <2>1. f \in Surjection(H, moved)
    BY DEF Surjection
  <2> HIDE DEF f, moved
  <2> QED BY <1>3, <2>1, FS_Surjection, FS_CardinalityType
<1>5. ASSUME NEW j \in R, j + k # MaxFiles + 1
      PROVE  j \in moved
  <2>1. j \in 1..i /\ j \in FileNo /\ Rotated(k)[j] = Absent
    BY <1>1 DEF Holes
  <2>2. CASE j + k <= MaxFiles
    <3>1. files[j] = Absent
      BY <2>1, <2>2, <1>1, RotatedFile
    <3>2. j \in 1..low
      BY <1>1, <2>1, <2>2 DEF From
    <3>3. j \in H /\ up(j) = j
      BY <2>2, <3>1, <3>2 DEF Holes
    <3> QED BY <3>3
  <2>3. CASE ~(j + k <= MaxFiles)
    <3>1. j + k > MaxFiles + 1
      BY <1>1, <1>5, <2>1, <2>3
    <3>2. files[j - 1] = Absent
      BY <1>1, <2>1, <3>1, RotatedFile
    <3>3. j - 1 # 0
      BY <3>2
    <3>4. j - 1 \in 1..low /\ ~((j - 1) + k <= MaxFiles) /\ (j - 1) + 1 = j
      BY <1>1, <2>1, <3>1, <3>3 DEF From
    <3>5. j - 1 \in H /\ up(j - 1) = j
      BY <3>2, <3>4 DEF Holes
    <3> QED BY <3>5
  <2> QED BY <2>2, <2>3
<1> HIDE DEF H, R, moved, up
<1>6. Cardinality(R) <= Cardinality(H) + 1
  <2> DEFINE more == moved \cup {MaxFiles + 1 - k}
  <2>1. IsFiniteSet(more) /\ Cardinality(more) <= Cardinality(moved) + 1 /\ Cardinality(more) \in Nat
    <3> DEFINE x == MaxFiles + 1 - k
    <3> HIDE DEF x
    <3>1. /\ IsFiniteSet(moved \cup {x})
          /\ Cardinality(moved \cup {x}) = IF x \in moved THEN Cardinality(moved) ELSE Cardinality(moved) + 1
      BY <1>4, FS_AddElement
    <3>2. more = moved \cup {x}
      BY DEF x
    <3> HIDE DEF more
    <3> QED BY <1>4, <3>1, <3>2, FS_CardinalityType
  <2>2. R \subseteq more
    <3> SUFFICES ASSUME NEW j \in R, j + k = MaxFiles + 1 PROVE j = MaxFiles + 1 - k
      BY <1>5
    <3>1. j \in Int
      BY DEF R, Holes
    <3> QED BY <1>1, <3>1
  <2>3. Cardinality(R) <= Cardinality(more)
    BY <2>1, <2>2, FS_Subset
  <2> HIDE DEF more
  <2> QED BY <1>3, <1>4, <2>1, <2>3
<1>7. ASSUME k = Steps PROVE Cardinality(R) <= Cardinality(H)
  <2>1. R \subseteq moved
    <3> SUFFICES ASSUME NEW j \in R PROVE j + k # MaxFiles + 1
      BY <1>5
    <3>1. j \in 1..i
      BY DEF R, Holes
    <3> QED BY <1>1, <1>7, <3>1
  <2>2. Cardinality(R) <= Cardinality(moved)
    BY <1>4, <2>1, FS_Subset
  <2> QED BY <1>3, <1>4, <2>2
<1> QED BY <1>2, <1>6, <1>7 DEF H, R

\* What a rotation does to the holes, whether it ends or fails halfway.
LEMMA RotatedFewHoles ==
    ASSUME LogTypes, Ordered(files, calls), FewHoles(files, calls, lost, faults), FullRotated(files),
           NEW k \in 0..Steps, k = 0 \/ Full
    PROVE  /\ FewHoles(Rotated(k), calls, lost, faults + 1)
           /\ k \in {0, Steps} => FewHoles(Rotated(k), calls, lost, faults)
           /\ FullRotated(Rotated(k))
<1> DEFINE r == Rotated(k)
<1>1. /\ MaxFiles \in Nat /\ MaxFiles > 0 /\ k \in 0..MaxFiles + 1 /\ Steps = MaxFiles + 1
      /\ FileNo = 0..MaxFiles /\ faults \in Nat
  BY RotationAssumption DEF Steps, FileNo, LogTypes
<1>2. /\ \A i \in FileNo : r[i] # Absent =>
            i + k # MaxFiles + 1 /\ From(k, i) \in FileNo /\ r[i] = files[From(k, i)]
      /\ \A o \in FileNo : k = 0 \/ o # MaxFiles => \E i \in FileNo : r[i] = files[o]
  BY RotatedFrom
<1>3. \A i \in 1..MaxFiles : Cardinality(Holes(files, i)) \in Nat /\ Cardinality(Holes(r, i)) \in Nat
  BY HolesFinite
<1>4. FullRotated(r)
  <2> SUFFICES ASSUME NEW i \in 1..MaxFiles, r[i] # Absent PROVE Len(r[i].lines) >= MaxSize
    BY DEF FullRotated
  <2> HIDE DEF r
  <2>0. i \in FileNo
    BY <1>1
  <2>1. From(k, i) \in FileNo /\ r[i] = files[From(k, i)]
    BY <1>2, <2>0
  <2>2. CASE From(k, i) = 0
    <3>1. k # 0
      BY <1>1, <2>2 DEF From
    <3> QED BY <2>1, <2>2, <3>1 DEF Full
  <2>3. CASE From(k, i) # 0
    <3>1. From(k, i) \in 1..MaxFiles
      BY <1>1, <2>1, <2>3
    <3> QED BY <2>1, <3>1 DEF FullRotated
  <2> QED BY <2>2, <2>3
<1>5. CASE k = 0
  <2>1. \A i \in FileNo : r[i] = files[i]
    BY <1>1, <1>5, RotatedFile
  <2>2. \A i \in 1..MaxFiles : Holes(r, i) = Holes(files, i) /\ i \in FileNo
    BY <1>1, <2>1 DEF Holes
  <2>3. GivenUp(r, calls, lost) => GivenUp(files, calls, lost)
    BY <2>1 DEF GivenUp
  <2>4. MaxFiles \in 1..MaxFiles
    BY <1>1
  <2> HIDE DEF r
  <2>5. FewHoles(r, calls, lost, faults)
    BY <2>1, <2>2, <2>3, <2>4 DEF FewHoles
  <2>6. FewHoles(r, calls, lost, faults + 1)
    BY <1>1, <1>3, <2>4, <2>5 DEF FewHoles
  <2> QED BY <1>4, <2>5, <2>6 DEF r
<1>6. CASE k # 0
  <2>1. k \in 1..Steps /\ files[0] # Absent
    BY <1>1, <1>6 DEF Full
  <2>2. ASSUME NEW i \in 1..MaxFiles
        PROVE  /\ From(k, i) \in 0..MaxFiles /\ Cardinality(Holes(files, From(k, i))) \in Nat
               /\ Cardinality(Holes(r, i)) <= Cardinality(Holes(files, From(k, i))) + 1
               /\ k = Steps => Cardinality(Holes(r, i)) <= Cardinality(Holes(files, From(k, i)))
    <3>1. From(k, i) \in 0..MaxFiles
      BY <2>1, RotatedHoles
    <3>2. From(k, i) \in Nat
      BY <3>1
    <3> QED BY <2>1, <3>1, <3>2, HolesFinite, RotatedHoles
  <2>3. ASSUME NEW i \in 1..MaxFiles, r[i] # Absent
        PROVE  Cardinality(Holes(files, From(k, i))) <= faults
    <3> HIDE DEF r
    <3>0. i \in FileNo
      BY <1>1
    <3>1. From(k, i) \in FileNo /\ r[i] = files[From(k, i)]
      BY <1>2, <2>3, <3>0
    <3>2. CASE From(k, i) = 0
      <4>1. Holes(files, 0) = {}
        BY DEF Holes
      <4> QED BY <1>1, <3>2, <4>1, FS_EmptySet
    <3>3. CASE From(k, i) # 0
      <4>1. From(k, i) \in 1..MaxFiles
        BY <1>1, <3>1, <3>3
      <4> QED BY <2>3, <3>1, <4>1 DEF FewHoles
    <3> QED BY <3>2, <3>3
  <2>4. ASSUME GivenUp(r, calls, lost)
        PROVE  Cardinality(Holes(files, From(k, MaxFiles))) <= faults
    <3>1. MaxFiles \in 1..MaxFiles /\ From(k, MaxFiles) = MaxFiles - 1
      BY <1>1, <2>1 DEF From
    <3>2. Cardinality(Holes(files, MaxFiles)) <= faults
      <4>1. PICK x \in (1..calls) \ lost : \A i \in FileNo : x \notin Entries(r[i])
        BY <2>4 DEF GivenUp
      <4>2. CASE \A i \in FileNo : x \notin Entries(files[i])
        BY <4>1, <4>2 DEF GivenUp, FewHoles
      <4>3. CASE \E i \in FileNo : x \in Entries(files[i])
        <5>1. x \in Entries(files[MaxFiles])
          BY <1>2, <4>1, <4>3
        <5>2. files[MaxFiles] # Absent
          BY <5>1, NoEntries
        <5> QED BY <3>1, <5>2 DEF FewHoles
      <4> QED BY <4>2, <4>3
    <3>3. Holes(files, MaxFiles - 1) \subseteq Holes(files, MaxFiles)
      BY <1>1 DEF Holes
    <3>4. /\ IsFiniteSet(Holes(files, MaxFiles)) /\ Cardinality(Holes(files, MaxFiles)) \in Nat
          /\ Cardinality(Holes(files, MaxFiles - 1)) \in Nat
      <4>1. MaxFiles \in Nat /\ MaxFiles - 1 \in Nat
        BY <1>1
      <4> QED BY <4>1, HolesFinite
    <3>5. Cardinality(Holes(files, MaxFiles - 1)) <= Cardinality(Holes(files, MaxFiles))
      BY <3>3, <3>4, FS_Subset
    <3> QED BY <1>1, <3>1, <3>2, <3>4, <3>5
  <2>5. MaxFiles \in 1..MaxFiles
    BY <1>1
  <2> HIDE DEF r
  <2>6. /\ \A i \in 1..MaxFiles : r[i] # Absent => Cardinality(Holes(r, i)) <= faults + 1
        /\ GivenUp(r, calls, lost) => Cardinality(Holes(r, MaxFiles)) <= faults + 1
    <3>1. ASSUME NEW i \in 1..MaxFiles, Cardinality(Holes(files, From(k, i))) <= faults
          PROVE  Cardinality(Holes(r, i)) <= faults + 1
      <4>1. /\ Cardinality(Holes(r, i)) <= Cardinality(Holes(files, From(k, i))) + 1
            /\ Cardinality(Holes(files, From(k, i))) \in Nat
        BY <2>2
      <4>2. Cardinality(Holes(r, i)) \in Nat
        BY <1>3
      <4> QED BY <1>1, <3>1, <4>1, <4>2
    <3> QED BY <2>3, <2>4, <2>5, <3>1
  <2>7. ASSUME k = Steps
        PROVE  /\ \A i \in 1..MaxFiles : r[i] # Absent => Cardinality(Holes(r, i)) <= faults
               /\ GivenUp(r, calls, lost) => Cardinality(Holes(r, MaxFiles)) <= faults
    <3>1. ASSUME NEW i \in 1..MaxFiles, Cardinality(Holes(files, From(k, i))) <= faults
          PROVE  Cardinality(Holes(r, i)) <= faults
      BY <1>1, <1>3, <2>2, <2>7, <3>1
    <3> QED BY <2>3, <2>4, <2>5, <3>1
  <2>8. FewHoles(r, calls, lost, faults + 1)
    BY <2>6 DEF FewHoles
  <2>9. k = Steps => FewHoles(r, calls, lost, faults)
    BY <2>7 DEF FewHoles
  <2> QED BY <1>4, <1>6, <2>8, <2>9 DEF r
<1> QED BY <1>5, <1>6

\* The entries of a file are in order.
Rising(f) ==
    \A p, q \in DOMAIN Lines(f) :
       p < q /\ Lines(f)[p] \in Nat /\ Lines(f)[q] \in Nat => Lines(f)[p] < Lines(f)[q]

\* What one more line does to the entries of a file.
LEMMA OneMoreLine ==
    ASSUME NEW f \in LogFile \cup {Absent}, NEW g, NEW e \in Nat \cup {Junk}, Rising(f),
           Lines(g) = Append(Lines(f), e), e \in Nat => \A x \in Entries(f) : x < e
    PROVE  /\ Rising(g) /\ Entries(f) \subseteq Entries(g) /\ Entries(g) \subseteq Entries(f) \cup {e}
           /\ e \in Nat => e \in Entries(g)
<1> DEFINE s == Lines(f)
           t == Lines(g)
           L == Nat \cup {Junk}
<1>1. s \in Seq(L)
  BY EmptySeq DEF LogFile, Lines
<1> HIDE DEF L
<1>2. /\ Len(s) \in Nat /\ DOMAIN s = 1..Len(s) /\ t \in Seq(L) /\ Len(t) = Len(s) + 1
      /\ t[Len(s) + 1] = e /\ \A p \in 1..Len(s) : t[p] = s[p]
  <2>1. e \in L
    BY DEF L
  <2>2. t = Append(s, e)
    OBVIOUS
  <2> HIDE DEF s, t
  <2> QED BY <1>1, <2>1, <2>2, LenProperties, AppendProperties
<1>3. DOMAIN t = 1..Len(s) + 1
  <2> HIDE DEF s, t
  <2> QED BY <1>2, LenProperties
<1>4. /\ Entries(f) = {x \in Nat : \E p \in 1..Len(s) : s[p] = x}
      /\ Entries(g) = {x \in Nat : \E p \in 1..Len(s) + 1 : t[p] = x}
  BY <1>2, <1>3 DEF Entries
<1>5. \A p, q \in 1..Len(s) : p < q /\ s[p] \in Nat /\ s[q] \in Nat => s[p] < s[q]
  BY <1>2 DEF Rising
<1> HIDE DEF s, t
<1>6. \A p \in 1..Len(s) + 1 : p \in 1..Len(s) \/ p = Len(s) + 1
  BY <1>2
<1>7. ASSUME NEW p \in 1..Len(s) + 1, NEW q \in 1..Len(s) + 1, p < q, t[p] \in Nat, t[q] \in Nat
      PROVE  t[p] < t[q]
  <2>1. p \in 1..Len(s) /\ t[p] = s[p]
    BY <1>2, <1>7
  <2>2. CASE q \in 1..Len(s)
    BY <1>2, <1>5, <1>7, <2>1, <2>2
  <2>3. CASE q = Len(s) + 1
    <3>1. t[q] = e /\ s[p] \in Entries(f)
      BY <1>2, <1>4, <1>7, <2>1, <2>3
    <3> QED BY <1>7, <2>1, <3>1
  <2> QED BY <1>6, <2>2, <2>3
<1>8. Rising(g)
  BY <1>3, <1>7 DEF Rising, t
<1>9. \A p \in 1..Len(s) : p \in 1..Len(s) + 1
  BY <1>2
<1>10. Len(s) + 1 \in 1..Len(s) + 1
  BY <1>2
<1>11. Entries(f) \subseteq Entries(g) /\ Entries(g) \subseteq Entries(f) \cup {e}
  BY <1>2, <1>4, <1>6, <1>9
<1>12. e \in Nat => e \in Entries(g)
  BY <1>2, <1>4, <1>10
<1> QED BY <1>8, <1>11, <1>12

\* What a call does whose entry is in the current file, or is lost.
LEMMA OneMoreCall ==
    ASSUME NEW n \in Nat, NEW gone, NEW more, gone \subseteq more, NEW fs, NEW gs,
           Ordered(fs, n), Complete(fs, n, gone), \A i \in 1..MaxFiles : gs[i] = fs[i],
           Rising(gs[0]), Entries(fs[0]) \subseteq Entries(gs[0]),
           Entries(gs[0]) \subseteq Entries(fs[0]) \cup {n + 1, Junk},
           n + 1 \in more \/ n + 1 \in Entries(gs[0])
    PROVE  /\ Ordered(gs, n + 1) /\ Complete(gs, n + 1, more)
           /\ \A m \in Nat : FewHoles(fs, n, gone, m) => FewHoles(gs, n + 1, more, m)
           /\ FullRotated(fs) => FullRotated(gs)
<1>1. /\ MaxFiles \in Nat /\ FileNo = 0..MaxFiles /\ 0 \in FileNo
      /\ \A i \in FileNo : i = 0 \/ i \in 1..MaxFiles
      /\ \A i \in 1..MaxFiles : i \in FileNo /\ i # 0
  BY RotationAssumption DEF FileNo
<1>2. \A i \in FileNo : Entries(fs[i]) \subseteq Entries(gs[i])
  BY <1>1
<1>3. \A i \in FileNo : Entries(fs[i]) \subseteq 1..n
  BY DEF Ordered
<1>4. Entries(gs[0]) \subseteq Entries(fs[0]) \cup {n + 1}
  BY RotationAssumption DEF Entries
<1>5. \A i \in FileNo : Entries(gs[i]) \subseteq 1..n + 1
  BY <1>1, <1>3, <1>4
<1>6. Ordered(gs, n + 1)
  <2>1. ASSUME NEW i \in FileNo
        PROVE  Rising(gs[i])
    <3>1. CASE i = 0
      BY <3>1
    <3>2. CASE i # 0
      BY <1>1, <3>2 DEF Ordered, Rising
    <3> QED BY <3>1, <3>2
  <2>2. ASSUME NEW i \in FileNo, NEW j \in FileNo, j < i, NEW x \in Entries(gs[i]), NEW y \in Entries(gs[j])
        PROVE  x < y
    <3>1. i # 0 /\ x \in Entries(fs[i]) /\ x \in 1..n
      BY <1>1, <1>3, <2>2
    <3>2. CASE y \in Entries(fs[j])
      BY <2>2, <3>1, <3>2 DEF Ordered
    <3>3. CASE y \notin Entries(fs[j])
      BY <1>1, <1>4, <3>1, <3>3
    <3> QED BY <3>2, <3>3
  <2> QED BY <1>5, <2>1, <2>2 DEF Ordered, Rising
<1>7. ASSUME NEW x \in (1..n + 1) \ more
      PROVE  x \in (1..n) \ gone \/ x \in Entries(gs[0])
  BY <1>7
<1>8. Complete(gs, n + 1, more)
  <2> SUFFICES ASSUME NEW x \in (1..n + 1) \ more, \A i \in FileNo : x \notin Entries(gs[i])
               PROVE  \A i \in FileNo : \A y \in Entries(gs[i]) : x < y
    BY DEF Complete
  <2>1. x \in (1..n) \ gone
    BY <1>1, <1>7
  <2>2. \A i \in FileNo : \A y \in Entries(fs[i]) : x < y
    BY <1>2, <2>1 DEF Complete
  <2>3. x < n + 1
    BY <2>1
  <2> QED BY <1>1, <1>4, <2>2, <2>3
<1>9. ASSUME NEW m \in Nat, FewHoles(fs, n, gone, m)
      PROVE  FewHoles(gs, n + 1, more, m)
  <2>1. ASSUME NEW i \in 1..MaxFiles
        PROVE  Holes(gs, i) = Holes(fs, i)
    <3>1. \A j \in 1..i : j \in 1..MaxFiles
      BY <1>1
    <3> QED BY <3>1 DEF Holes
  <2>2. ASSUME GivenUp(gs, n + 1, more)
        PROVE  GivenUp(fs, n, gone)
    <3>1. PICK x \in (1..n + 1) \ more : \A i \in FileNo : x \notin Entries(gs[i])
      BY <2>2 DEF GivenUp
    <3>2. x \in (1..n) \ gone
      BY <1>1, <1>7, <3>1
    <3> QED BY <1>2, <3>1, <3>2 DEF GivenUp
  <2>3. MaxFiles \in 1..MaxFiles
    BY RotationAssumption
  <2>4. \A i \in 1..MaxFiles : gs[i] # Absent => Cardinality(Holes(gs, i)) <= m
    BY <1>9, <2>1 DEF FewHoles
  <2>5. GivenUp(gs, n + 1, more) => Cardinality(Holes(gs, MaxFiles)) <= m
    BY <1>9, <2>1, <2>2, <2>3 DEF FewHoles
  <2> QED BY <2>4, <2>5 DEF FewHoles
<1>10. FullRotated(fs) => FullRotated(gs)
  BY DEF FullRotated
<1> QED BY <1>6, <1>8, <1>9, <1>10

LEMMA Unrotated == ASSUME LogTypes PROVE Rotated(0) = files
<1>1. MaxFiles \in Nat /\ FileNo = 0..MaxFiles /\ 0 \in 0..Steps
  BY RotationAssumption DEF FileNo, Steps
<1>2. ASSUME NEW i \in FileNo PROVE Rotated(0)[i] = files[i]
  BY <1>1, RotatedFile
<1>3. Rotated(0) = [i \in FileNo |-> Rotated(0)[i]]
  <2> DEFINE e(i) == CASE i + 0 <= MaxFiles -> files[i]
                       [] i + 0 = MaxFiles + 1 -> Absent
                       [] i + 0 > MaxFiles + 1 -> files[i - 1]
  <2>1. Rotated(0) = [i \in FileNo |-> e(i)]
    BY DEF Rotated
  <2> HIDE DEF e
  <2> QED BY <2>1
<1>4. files = [i \in FileNo |-> files[i]]
  BY DEF LogTypes
<1>5. [i \in FileNo |-> Rotated(0)[i]] = [i \in FileNo |-> files[i]]
  BY <1>2
<1> QED BY <1>3, <1>4, <1>5

\* What log finds when it is about to write, rotated or not.
LEMMA Ready ==
    ASSUME LogInv, NEW k \in {0, Steps}, k = 0 \/ Full
    PROVE  LET r == Rotated(k)
           IN  /\ k \in 0..Steps
               /\ r \in [FileNo -> LogFile \cup {Absent}] /\ r[0] \in LogFile \cup {Absent}
               /\ Ordered(r, calls) /\ Complete(r, calls, lost) /\ Rising(r[0])
               /\ \A x \in Entries(r[0]) : x < calls + 1
               /\ Current(r) \in LogFile /\ Current(r).lines = Lines(r[0])
               /\ Current(r).open => r[0] # Absent /\ files[0] # Absent /\ files[0].open
<1> DEFINE r == Rotated(k)
<1>1. /\ MaxFiles \in Nat /\ MaxFiles > 0 /\ FileNo = 0..MaxFiles /\ 0 \in FileNo
      /\ Steps = MaxFiles + 1 /\ k \in 0..Steps
  BY RotationAssumption DEF FileNo, Steps
<1>2. /\ r \in [FileNo -> LogFile \cup {Absent}] /\ Ordered(r, calls) /\ Complete(r, calls, lost)
  BY <1>1, RotatedOrdered DEF LogInv
<1>3. r[0] = files[0] \/ r[0] = Absent
  BY <1>1, RotatedFile
<1> HIDE DEF r
<1>4. r[0] \in LogFile \cup {Absent}
  BY <1>1, <1>2
<1>5. Rising(r[0])
  BY <1>1, <1>2 DEF Ordered, Rising
<1>6. ASSUME NEW x \in Entries(r[0]) PROVE x < calls + 1
  <2>1. x \in 1..calls /\ calls \in Nat
    BY <1>1, <1>2 DEF Ordered, LogInv, LogTypes
  <2> QED BY <2>1
<1>7. Current(r) \in LogFile /\ Current(r).lines = Lines(r[0])
  <2>1. CASE r[0] = Absent
    <3>1. New \in LogFile /\ New.lines = <<>>
      BY EmptySeq DEF New, LogFile
    <3> QED BY <2>1, <3>1 DEF Current, Lines
  <2>2. CASE r[0] # Absent
    BY <1>4, <2>2 DEF Current, Lines
  <2> QED BY <2>1, <2>2
<1>8. Current(r).open => r[0] # Absent /\ files[0] # Absent /\ files[0].open
  BY <1>3 DEF Current, New
<1> QED BY <1>1, <1>2, <1>4, <1>5, <1>6, <1>7, <1>8 DEF r

\* One more entry is lost, or none.
LEMMA OneMoreLost ==
    ASSUME LogTypes
    PROVE  /\ Cardinality(lost) \in Nat
           /\ lost \cup {calls + 1} \subseteq 1..calls + 1 /\ lost \subseteq 1..calls + 1
           /\ Cardinality(lost \cup {calls + 1}) \in Nat
           /\ Cardinality(lost \cup {calls + 1}) <= Cardinality(lost) + 1
<1>1. calls \in Nat /\ lost \subseteq 1..calls
  BY DEF LogTypes
<1>2. IsFiniteSet(lost)
  <2>1. IsFiniteSet(1..calls)
    BY <1>1, FS_Interval
  <2> QED BY <1>1, <2>1, FS_Subset
<1> DEFINE c == calls + 1
<1>3. lost \cup {c} \subseteq 1..calls + 1 /\ lost \subseteq 1..calls + 1
  BY <1>1
<1> HIDE DEF c
<1>4. IsFiniteSet(lost \cup {c}) /\ Cardinality(lost) \in Nat
      /\ Cardinality(lost \cup {c}) = IF c \in lost THEN Cardinality(lost) ELSE Cardinality(lost) + 1
  BY <1>2, FS_AddElement, FS_CardinalityType
<1> QED BY <1>3, <1>4 DEF c

LEMMA LogInitInv == LogInit => LogInv
<1> SUFFICES ASSUME LogInit PROVE LogInv
  OBVIOUS
<1>1. /\ MaxFiles \in Nat /\ FileNo = 0..MaxFiles
      /\ files = [i \in FileNo |-> Absent] /\ calls = 0 /\ lost = {} /\ faults = 0
  BY RotationAssumption DEF LogInit, FileNo
<1>2. LogTypes
  BY <1>1 DEF LogTypes
<1>3. Ordered(files, calls)
  BY <1>1, NoEntries DEF Ordered
<1>4. Complete(files, calls, lost)
  BY <1>1 DEF Complete
<1>5. FewHoles(files, calls, lost, faults)
  <2>1. \A i \in 1..MaxFiles : files[i] = Absent
    BY <1>1
  <2>2. ~GivenUp(files, calls, lost)
    BY <1>1 DEF GivenUp
  <2> QED BY <2>1, <2>2 DEF FewHoles
<1>6. FullRotated(files)
  BY <1>1 DEF FullRotated
<1>7. FewLost
  <2>1. files[0] = Absent
    BY <1>1
  <2>2. Cardinality(lost) = 0
    BY <1>1, FS_EmptySet
  <2> QED BY <1>1, <2>1, <2>2 DEF FewLost
<1> QED BY <1>2, <1>3, <1>4, <1>5, <1>6, <1>7 DEF LogInv

\* A call that writes its entry.
LEMMA WritesInv ==
    ASSUME LogInv, calls' = calls + 1, NEW k \in {0, Steps}, k = 0 \/ Full, Writes(Rotated(k))
    PROVE  LogInv'
<1> DEFINE r == Rotated(k)
           f == Current(r)
<1>1. /\ k \in 0..Steps
      /\ r \in [FileNo -> LogFile \cup {Absent}] /\ r[0] \in LogFile \cup {Absent}
      /\ Ordered(r, calls) /\ Complete(r, calls, lost) /\ Rising(r[0])
      /\ \A x \in Entries(r[0]) : x < calls + 1
      /\ f \in LogFile /\ f.lines = Lines(r[0])
      /\ f.open => r[0] # Absent /\ files[0] # Absent /\ files[0].open
  BY Ready
<1>2. FewHoles(r, calls, lost, faults) /\ FullRotated(r)
  BY <1>1, RotatedFewHoles DEF LogInv
<1> DEFINE new == IF f.open THEN [r[0] EXCEPT !.open = FALSE]
                  ELSE [f EXCEPT !.lines = Append(@, calls + 1)]
<1>3. /\ files' = [r EXCEPT ![0] = new] /\ faults' = faults
      /\ lost' = IF f.open THEN lost \cup {calls + 1} ELSE lost
  BY DEF Writes
<1> HIDE DEF r
<1>4. /\ calls \in Nat /\ faults \in Nat /\ MaxFiles \in Nat /\ FileNo = 0..MaxFiles /\ 0 \in FileNo
  BY RotationAssumption DEF LogInv, LogTypes, FileNo
<1>5. f.open => f = r[0]
  BY <1>1 DEF Current
<1> HIDE DEF f
<1>6. f = [lines |-> f.lines, open |-> f.open] /\ f.lines \in Seq(Nat \cup {Junk}) /\ f.open \in BOOLEAN
  BY <1>1 DEF LogFile
<1>7. /\ new.lines = IF f.open THEN f.lines ELSE Append(f.lines, calls + 1)
      /\ new.open = FALSE
      /\ new \in LogFile
  <2>0. PICK s \in Seq(Nat \cup {Junk}), o \in BOOLEAN : f = [lines |-> s, open |-> o]
    BY <1>6
  <2>1. CASE f.open
    <3>1. new = [[lines |-> s, open |-> o] EXCEPT !.open = FALSE]
      BY <1>5, <2>0, <2>1
    <3>2. new = [lines |-> s, open |-> FALSE]
      BY <3>1
    <3> QED BY <2>0, <2>1, <3>2 DEF LogFile
  <2>2. CASE ~f.open
    <3>1. Append(s, calls + 1) \in Seq(Nat \cup {Junk})
      BY <1>4, AppendProperties
    <3>2. new = [[lines |-> s, open |-> o] EXCEPT !.lines = Append(s, calls + 1)]
      BY <2>0, <2>2
    <3>3. new = [lines |-> Append(s, calls + 1), open |-> FALSE]
      BY <2>0, <2>2, <3>2
    <3>4. f.lines = s
      BY <2>0
    <3> HIDE DEF new
    <3> QED BY <2>2, <3>1, <3>3, <3>4 DEF LogFile
  <2> QED BY <2>1, <2>2
<1>8. new # Absent /\ Lines(new) = new.lines
  BY <1>7, RotationAssumption DEF LogFile, Lines
<1> HIDE DEF new
<1>9. /\ files'[0] = new /\ \A i \in 1..MaxFiles : files'[i] = r[i]
      /\ files' \in [FileNo -> LogFile \cup {Absent}]
  <2>1. \A i \in 1..MaxFiles : i \in FileNo /\ i # 0
    BY <1>4
  <2> QED BY <1>1, <1>3, <1>4, <1>7, <2>1
<1>10. /\ Rising(new) /\ Entries(r[0]) \subseteq Entries(new)
       /\ Entries(new) \subseteq Entries(r[0]) \cup {calls + 1, Junk}
       /\ f.open \/ calls + 1 \in Entries(new)
  <2>1. CASE f.open
    <3>1. Lines(new) = Lines(r[0])
      BY <1>1, <1>7, <1>8, <2>1
    <3> QED BY <1>1, <2>1, <3>1 DEF Rising, Entries
  <2>2. CASE ~f.open
    <3>1. Lines(new) = Append(Lines(r[0]), calls + 1)
      BY <1>1, <1>7, <1>8, <2>2
    <3>2. calls + 1 \in Nat
      BY <1>4
    <3>3. calls + 1 \in Nat \cup {Junk}
      BY <3>2
    <3> QED BY <1>1, <3>1, <3>2, <3>3, OneMoreLine
  <2> QED BY <2>1, <2>2
<1>11. lost \subseteq lost' /\ (calls + 1 \in lost' \/ calls + 1 \in Entries(files'[0]))
  BY <1>3, <1>9, <1>10
<1>12. /\ Ordered(files', calls + 1) /\ Complete(files', calls + 1, lost')
       /\ FewHoles(files', calls + 1, lost', faults) /\ FullRotated(files')
  BY <1>1, <1>2, <1>4, <1>9, <1>10, <1>11, OneMoreCall
<1>13. LogTypes'
  <2>1. lost' \subseteq 1..calls + 1
    BY <1>3, OneMoreLost DEF LogInv
  <2> QED BY <1>3, <1>4, <1>9, <2>1 DEF LogTypes
<1>14. FewLost'
  <2>1. /\ Cardinality(lost) \in Nat /\ Cardinality(lost \cup {calls + 1}) \in Nat
        /\ Cardinality(lost \cup {calls + 1}) <= Cardinality(lost) + 1
    BY OneMoreLost DEF LogInv
  <2>2. ~(files'[0] # Absent /\ files'[0].open)
    BY <1>7, <1>9
  <2>3. CASE f.open
    <3>1. Cardinality(lost) + 1 <= 2 * faults
      BY <1>1, <2>3 DEF LogInv, FewLost
    <3>2. Cardinality(lost') + 0 <= 2 * faults'
      BY <1>3, <1>4, <2>1, <2>3, <3>1
    <3> QED BY <2>2, <3>2 DEF FewLost
  <2>4. CASE ~f.open
    <3>1. Cardinality(lost) <= 2 * faults
      BY <1>4, <2>1 DEF LogInv, FewLost
    <3>2. Cardinality(lost') + 0 <= 2 * faults'
      BY <1>3, <1>4, <2>1, <2>4, <3>1
    <3> QED BY <2>2, <3>2 DEF FewLost
  <2> QED BY <2>3, <2>4
<1>15. /\ Ordered(files', calls') /\ Complete(files', calls', lost')
       /\ FewHoles(files', calls', lost', faults') /\ FullRotated(files')
  BY <1>3, <1>12
<1> QED BY <1>13, <1>14, <1>15 DEF LogInv, Ordered, Complete, FewHoles, FullRotated, Holes, GivenUp, Entries, Lines

\* A call that fails: what it leaves has the entries there were, and lost its own.
LEMMA FailsInv ==
    ASSUME LogInv, calls' = calls + 1, NEW fs, NEW gs, Fails(gs),
           gs \in [FileNo -> LogFile \cup {Absent}],
           Ordered(fs, calls), Complete(fs, calls, lost), FullRotated(fs),
           FewHoles(fs, calls, lost, faults + 1),
           \A i \in 1..MaxFiles : gs[i] = fs[i], Rising(gs[0]),
           Entries(fs[0]) \subseteq Entries(gs[0]), Entries(gs[0]) \subseteq Entries(fs[0]) \cup {Junk}
    PROVE  LogInv'
<1>1. files' = gs /\ lost' = lost \cup {calls + 1} /\ faults' = faults + 1
  BY DEF Fails
<1>2. calls \in Nat /\ faults \in Nat /\ faults + 1 \in Nat
  BY DEF LogInv, LogTypes
<1>3. lost \subseteq lost' /\ calls + 1 \in lost' /\ Entries(gs[0]) \subseteq Entries(fs[0]) \cup {calls + 1, Junk}
  BY <1>1
<1>4. /\ Ordered(gs, calls + 1) /\ Complete(gs, calls + 1, lost')
      /\ FewHoles(gs, calls + 1, lost', faults + 1) /\ FullRotated(gs)
  BY <1>2, <1>3, OneMoreCall
<1>5. /\ Cardinality(lost) \in Nat /\ Cardinality(lost') \in Nat /\ lost' \subseteq 1..calls + 1
      /\ Cardinality(lost') <= Cardinality(lost) + 1
  BY <1>1, OneMoreLost DEF LogInv
<1>6. LogTypes'
  BY <1>1, <1>2, <1>5 DEF LogTypes
<1>7. FewLost'
  <2>1. Cardinality(lost) <= 2 * faults
    BY <1>2, <1>5 DEF LogInv, FewLost
  <2>2. Cardinality(lost') + 1 <= 2 * faults' /\ Cardinality(lost') + 0 <= 2 * faults'
    BY <1>1, <1>2, <1>5, <2>1
  <2> QED BY <2>2 DEF FewLost
<1>8. /\ Ordered(files', calls') /\ Complete(files', calls', lost')
      /\ FewHoles(files', calls', lost', faults') /\ FullRotated(files')
  BY <1>1, <1>4
<1> QED BY <1>6, <1>7, <1>8 DEF LogInv, Ordered, Complete, FewHoles, FullRotated, Holes, GivenUp, Entries, Lines

\* A rotation that fails halfway.
LEMMA RotationFailsInv ==
    ASSUME LogInv, calls' = calls + 1, Full, NEW k \in 0..MaxFiles, Fails(Rotated(k))
    PROVE  LogInv'
<1>1. MaxFiles \in Nat /\ FileNo = 0..MaxFiles /\ 0 \in FileNo /\ k \in 0..Steps
  BY RotationAssumption DEF FileNo, Steps
<1>2. /\ Rotated(k) \in [FileNo -> LogFile \cup {Absent}]
      /\ Ordered(Rotated(k), calls) /\ Complete(Rotated(k), calls, lost)
  BY <1>1, RotatedOrdered DEF LogInv
<1>3. FullRotated(Rotated(k)) /\ FewHoles(Rotated(k), calls, lost, faults + 1)
  BY <1>1, RotatedFewHoles DEF LogInv
<1>4. Rising(Rotated(k)[0])
  BY <1>1, <1>2 DEF Ordered, Rising
<1> QED BY <1>2, <1>3, <1>4, FailsInv

\* A write that fails.
LEMMA WriteFailsInv ==
    ASSUME LogInv, calls' = calls + 1, NEW k \in {0, Steps}, k = 0 \/ Full, NEW piece \in BOOLEAN,
           Fails([Rotated(k) EXCEPT ![0] = Torn(Current(Rotated(k)), piece)])
    PROVE  LogInv'
<1> DEFINE r == Rotated(k)
           f == Current(r)
           new == Torn(f, piece)
           gs == [r EXCEPT ![0] = new]
<1>1. /\ k \in 0..Steps
      /\ r \in [FileNo -> LogFile \cup {Absent}] /\ r[0] \in LogFile \cup {Absent}
      /\ Ordered(r, calls) /\ Complete(r, calls, lost) /\ Rising(r[0])
      /\ f \in LogFile /\ f.lines = Lines(r[0])
  BY Ready
<1>2. FewHoles(r, calls, lost, faults + 1) /\ FullRotated(r)
  BY <1>1, RotatedFewHoles DEF LogInv
<1>3. Fails(gs)
  OBVIOUS
<1> HIDE DEF r, f
<1>4. MaxFiles \in Nat /\ FileNo = 0..MaxFiles /\ 0 \in FileNo /\ Junk \notin Nat
  BY RotationAssumption DEF FileNo
<1>5. PICK s \in Seq(Nat \cup {Junk}), o \in BOOLEAN : f = [lines |-> s, open |-> o]
  BY <1>1 DEF LogFile
<1>6. /\ new \in LogFile /\ f.lines = s
      /\ new.lines = s \/ new.lines = Append(s, Junk)
  <2>1. CASE ~piece \/ f.open
    BY <1>1, <1>5, <2>1 DEF Torn
  <2>2. CASE ~(~piece \/ f.open)
    <3>1. Append(s, Junk) \in Seq(Nat \cup {Junk})
      BY AppendProperties
    <3>2. new = [lines |-> Append(s, Junk), open |-> TRUE]
      BY <1>5, <2>2 DEF Torn
    <3> HIDE DEF new
    <3> QED BY <1>5, <3>1, <3>2 DEF LogFile
  <2> QED BY <2>1, <2>2
<1> HIDE DEF new
<1>7. new # Absent /\ Lines(new) = new.lines /\ Lines(r[0]) = s
  BY <1>1, <1>6, RotationAssumption DEF LogFile, Lines
<1>8. /\ gs[0] = new /\ \A i \in 1..MaxFiles : gs[i] = r[i]
      /\ gs \in [FileNo -> LogFile \cup {Absent}]
  <2>1. \A i \in 1..MaxFiles : i \in FileNo /\ i # 0
    BY <1>4
  <2> QED BY <1>1, <1>4, <1>6, <2>1
<1>9. /\ Rising(new) /\ Entries(r[0]) \subseteq Entries(new)
      /\ Entries(new) \subseteq Entries(r[0]) \cup {Junk}
  <2>1. CASE new.lines = s
    <3>1. Lines(new) = Lines(r[0])
      BY <1>7, <2>1
    <3> QED BY <1>1, <3>1 DEF Rising, Entries
  <2>2. CASE new.lines = Append(s, Junk)
    <3>1. Lines(new) = Append(Lines(r[0]), Junk) /\ Junk \in Nat \cup {Junk}
      BY <1>7, <2>2
    <3> QED BY <1>1, <1>4, <3>1, OneMoreLine
  <2> QED BY <1>6, <2>1, <2>2
<1> HIDE DEF gs
<1> QED BY <1>1, <1>2, <1>3, <1>8, <1>9, FailsInv

\* Whatever fails and wherever, for every number and size of files: the files hold what
\* was logged in order, without a gap but for what a failure may cost, and they were
\* full when they were rotated (audit.py:94-113, session_logger.py:78-96).
THEOREM LogInvariant == LogSpec => []LogInv
<1>1. ASSUME LogInv, [Log]_logVars PROVE LogInv'
  <2>1. CASE Log
    <3>0. 0 \in {0, Steps} /\ Steps \in {0, Steps}
      OBVIOUS
    <3>1. calls' = calls + 1 /\ Rotated(0) = files
      BY <1>1, <2>1, Unrotated DEF Log, LogInv
    <3>2. PICK k \in {0, Steps} : /\ k = 0 \/ Full
                                  /\ \/ Writes(Rotated(k))
                                     \/ \E piece \in BOOLEAN :
                                          Fails([Rotated(k) EXCEPT ![0] = Torn(Current(Rotated(k)), piece)])
                                     \/ Full /\ \E j \in 0..MaxFiles : MayFail(j) /\ Fails(Rotated(j))
      <4>1. PICK ready \in {IF Full THEN Rotated(Steps) ELSE files, files} :
              \/ Writes(ready)
              \/ \E piece \in BOOLEAN : Fails([ready EXCEPT ![0] = Torn(Current(ready), piece)])
              \/ Full /\ \E j \in 0..MaxFiles : MayFail(j) /\ Fails(Rotated(j))
        BY <2>1 DEF Log
      <4>2. CASE ready = files
        BY <3>0, <3>1, <4>1, <4>2
      <4>3. CASE ready # files
        <5>1. Full /\ ready = Rotated(Steps)
          BY <4>3
        <5> QED BY <3>0, <4>1, <5>1
      <4> QED BY <4>2, <4>3
    <3>3. CASE Writes(Rotated(k))
      BY <1>1, <3>1, <3>2, <3>3, WritesInv
    <3>4. CASE \E piece \in BOOLEAN : Fails([Rotated(k) EXCEPT ![0] = Torn(Current(Rotated(k)), piece)])
      BY <1>1, <3>1, <3>2, <3>4, WriteFailsInv
    <3>5. CASE Full /\ \E j \in 0..MaxFiles : MayFail(j) /\ Fails(Rotated(j))
      BY <1>1, <3>1, <3>5, RotationFailsInv
    <3> QED BY <3>2, <3>3, <3>4, <3>5
  <2>2. CASE UNCHANGED logVars
    BY <1>1, <2>2 DEF logVars, LogInv, LogTypes, FewLost, Ordered, Complete, FewHoles,
                      FullRotated, Holes, GivenUp, Entries, Lines
  <2> QED BY <1>1, <2>1, <2>2
<1> QED BY LogInitInv, <1>1, PTL DEF LogSpec

\* An entry that was written is in a file, or older than all that are.
LEMMA StoredOrOlder ==
    ASSUME LogInv, NEW x \in (1..calls) \ lost
    PROVE  x \in Stored \/ \A y \in Stored : x < y
BY DEF LogInv, Complete, Stored

\* What is kept.
LEMMA KeptAscends ==
    ASSUME LogInv
    PROVE  /\ Stored \subseteq 1..calls
           /\ Ascends(Kept, Stored)
           /\ Len(Kept) \in Nat /\ (Kept # <<>> => 1 \in 1..Len(Kept) /\ Kept[1] \in Stored)
           /\ Kept = <<>> => Stored = {}
<1>1. Stored \subseteq 1..calls /\ Nat \cap Stored = Stored
  BY DEF LogInv, Ordered, Stored, Entries
<1>2. Nat \in SUBSET Nat
  OBVIOUS
<1>3. Ascends(Results(Nat, {}), Nat \cap Stored)
  <2>1. Readable({}) = Stored
    BY DEF Readable, Stored
  <2> QED BY <1>2, <2>1, ResultsAscend DEF LogInv
<1>4. Ascends(Kept, Stored)
  BY <1>1, <1>3 DEF Kept
<1> DEFINE t == Kept
<1>5. t \in Seq(Nat) /\ (\A a \in 1..Len(t) : t[a] \in Stored)
      /\ \A x \in Stored : \E a \in 1..Len(t) : t[a] = x
  BY <1>4 DEF Ascends
<1> HIDE DEF t
<1>6. Len(t) \in Nat /\ (t # <<>> => Len(t) # 0) /\ (t = <<>> => Len(t) = 0)
  BY <1>5, LenProperties, EmptySeq
<1>7. t # <<>> => 1 \in 1..Len(t)
  BY <1>6
<1>8. t = <<>> => 1..Len(t) = {}
  BY <1>6
<1> QED BY <1>1, <1>4, <1>5, <1>6, <1>7, <1>8 DEF t

\* KeptIsLatest for every number and size of files, whatever fails (audit.py:94-113,
\* session_logger.py:78-96).
THEOREM KeptIsLatestHolds == LogSpec => []KeptIsLatest
<1>1. ASSUME LogInv PROVE KeptIsLatest
  <2>1. /\ Stored \subseteq 1..calls /\ Ascends(Kept, Stored) /\ Len(Kept) \in Nat
        /\ Kept # <<>> => 1 \in 1..Len(Kept) /\ Kept[1] \in Stored
    BY <1>1, KeptAscends
  <2>2. /\ \A a, b \in 1..Len(Kept) : a < b => Kept[a] < Kept[b]
        /\ \A x \in Stored : \E a \in 1..Len(Kept) : Kept[a] = x
    BY <2>1 DEF Ascends
  <2>3. ASSUME Kept # <<>>, NEW x \in Kept[1]..calls, x \notin lost
        PROVE  \E a \in 1..Len(Kept) : Kept[a] = x
    <3>1. Kept[1] \in Stored /\ Kept[1] \in 1..calls
      BY <2>1, <2>3
    <3> DEFINE k == Kept[1]
    <3> HIDE DEF k
    <3>2. k \in Stored /\ k \in 1..calls /\ x \in k..calls
      BY <2>3, <3>1 DEF k
    <3>3. x \in (1..calls) \ lost /\ ~(x < k)
      BY <2>3, <3>2
    <3>4. x \in Stored
      BY <1>1, <3>2, <3>3, StoredOrOlder
    <3> QED BY <2>2, <3>4
  <2>4. Cardinality(lost) <= 2 * faults
    <3>1. Cardinality(lost) \in Nat /\ faults \in Nat
      BY <1>1, OneMoreLost DEF LogInv, LogTypes
    <3> QED BY <1>1, <3>1 DEF LogInv, FewLost
  <2> QED BY <2>2, <2>3, <2>4 DEF KeptIsLatest
<1> QED BY <1>1, LogInvariant, PTL

\* Retention for every number and size of files, whatever fails (audit.py:94-111).
THEOREM RetentionHolds == LogSpec => []Retention
<1>1. ASSUME LogInv PROVE Retention
  <2>1. MaxFiles \in Nat /\ FileNo = 0..MaxFiles /\ FileNo \ {0} = 1..MaxFiles /\ faults \in Nat
    BY <1>1, RotationAssumption DEF FileNo, LogInv, LogTypes
  <2>2. \A i \in FileNo \ {0} : files[i] # Absent => Len(files[i].lines) >= MaxSize
    BY <1>1, <2>1 DEF LogInv, FullRotated
  <2>3. ASSUME NEW x \in 1..calls, x \notin lost, \A a \in 1..Len(Kept) : Kept[a] # x
        PROVE  Rotations + faults >= MaxFiles
    <3>1. x \notin Stored
      BY <1>1, <2>3, KeptAscends DEF Ascends
    <3>2. GivenUp(files, calls, lost)
      BY <2>3, <3>1 DEF GivenUp, Stored
    <3> DEFINE H == Holes(files, MaxFiles)
               N == 1..MaxFiles
    <3>3. Cardinality(H) <= faults /\ Cardinality(H) \in Nat
      BY <1>1, <2>1, <3>2, HolesFinite DEF LogInv, FewHoles
    <3>4. Rotations = Cardinality(N \ H)
      <4>1. {i \in FileNo \ {0} : files[i] # Absent} = N \ H
        BY <2>1 DEF Holes
      <4> QED BY <4>1 DEF Rotations
    <3>5. N \cap H = H
      BY DEF Holes
    <3>6. IsFiniteSet(N) /\ Cardinality(N) = MaxFiles
      <4>1. 1 \in Int /\ MaxFiles \in Int
        BY <2>1
      <4>2. IsFiniteSet(N) /\ Cardinality(N) = IF 1 > MaxFiles THEN 0 ELSE MaxFiles - 1 + 1
        BY <4>1, FS_Interval
      <4> QED BY <2>1, <4>2
    <3> HIDE DEF H, N
    <3>7. Cardinality(N \ H) = MaxFiles - Cardinality(H)
      BY <3>5, <3>6, FS_Difference
    <3> QED BY <2>1, <3>3, <3>4, <3>7
  <2> QED BY <2>2, <2>3 DEF Retention
<1> QED BY <1>1, LogInvariant, PTL

\* The beginning of a sequence of numbers turned round.
LEMMA LatestFirst ==
    ASSUME NEW t \in Seq(Nat), NEW limit \in Nat
    PROVE  LET got == Prefix(Reverse(t), limit)
           IN  /\ Len(t) \in Nat /\ Len(got) = IF limit < Len(t) THEN limit ELSE Len(t)
               /\ \A a \in 1..Len(got) : /\ Len(t) + 1 - a \in 1..Len(t)
                                         /\ got[a] = t[Len(t) + 1 - a]
<1> DEFINE r == Reverse(t)
           n == IF limit < Len(t) THEN limit ELSE Len(t)
<1>1. Len(t) \in Nat /\ \A i \in 1..Len(t) : t[i] \in Nat
  BY LenProperties, ElementOfSeq
<1>2. r = [i \in 1..Len(t) |-> t[(Len(t) - i) + 1]]
  BY DEF Reverse
<1>3. \A i \in 1..Len(t) : (Len(t) - i) + 1 \in 1..Len(t)
  BY <1>1
<1>4. r \in [1..Len(t) -> Nat]
  BY <1>1, <1>2, <1>3
<1>5. r \in Seq(Nat) /\ Len(r) = Len(t)
  <2> HIDE DEF r
  <2>1. r \in Seq(Nat)
    BY <1>1, <1>4, SeqDef
  <2>2. DOMAIN r = 1..Len(r) /\ Len(r) \in Nat /\ DOMAIN r = 1..Len(t)
    BY <1>4, <2>1, LenProperties
  <2> QED BY <1>1, <2>1, <2>2
<1>6. Prefix(r, limit) = SubSeq(r, 1, n)
  BY <1>5 DEF Prefix
<1>7. n \in Int /\ 1 \in Int /\ n \in 0..Len(t) /\ \A i \in 1..n : i \in 1..Len(t) /\ r[i] \in Nat
  <2> HIDE DEF r
  <2>1. n \in Nat /\ n <= Len(t)
    BY <1>1
  <2> HIDE DEF n
  <2>2. \A i \in 1..n : i \in 1..Len(t)
    BY <1>1, <2>1
  <2> QED BY <1>1, <1>4, <2>1, <2>2
<1> HIDE DEF r, n
<1>8. /\ Len(SubSeq(r, 1, n)) = IF 1 <= n THEN n - 1 + 1 ELSE 0
      /\ \A i \in 1..n - 1 + 1 : SubSeq(r, 1, n)[i] = r[1 + i - 1]
  BY <1>7, SubSeqProperties
<1>9. Len(SubSeq(r, 1, n)) = n
  BY <1>1, <1>7, <1>8
<1>10. ASSUME NEW a \in 1..n
       PROVE  Len(t) + 1 - a \in 1..Len(t) /\ SubSeq(r, 1, n)[a] = t[Len(t) + 1 - a]
  <2>1. a \in 1..n - 1 + 1 /\ 1 + a - 1 = a /\ a \in 1..Len(t)
        /\ (Len(t) - a) + 1 = Len(t) + 1 - a /\ Len(t) + 1 - a \in 1..Len(t)
    BY <1>1, <1>7
  <2>2. SubSeq(r, 1, n)[a] = r[a]
    BY <1>8, <2>1
  <2>3. r[a] = t[(Len(t) - a) + 1]
    BY <1>2, <2>1
  <2> QED BY <2>1, <2>2, <2>3
<1> QED BY <1>1, <1>6, <1>9, <1>10 DEF r, n

\* A query meets what it should, whatever it asks for and however much.
LEMMA LatestHolds ==
    ASSUME LogInv, NEW wanted \in SUBSET (1..calls), NEW limit \in Nat, NEW unread
    PROVE  Latest(wanted, limit, unread)
<1> DEFINE t == Results(wanted, unread)
           got == Query(wanted, limit, unread)
           there == (wanted \ lost) \ Hidden(unread)
<1>1. wanted \in SUBSET Nat
  OBVIOUS
<1>2. Ascends(t, wanted \cap Readable(unread))
  BY <1>1, ResultsAscend DEF LogInv
<1> HIDE DEF t
<1>3. /\ t \in Seq(Nat)
      /\ \A a, b \in 1..Len(t) : a < b => t[a] < t[b]
      /\ \A a \in 1..Len(t) : t[a] \in wanted \cap Readable(unread)
      /\ \A x \in wanted \cap Readable(unread) : \E a \in 1..Len(t) : t[a] = x
  BY <1>2 DEF Ascends
<1>4. got = Prefix(Reverse(t), limit)
  BY DEF Query, t
<1> HIDE DEF got
<1>5. /\ Len(t) \in Nat /\ Len(got) = IF limit < Len(t) THEN limit ELSE Len(t)
      /\ \A a \in 1..Len(got) : Len(t) + 1 - a \in 1..Len(t) /\ got[a] = t[Len(t) + 1 - a]
  BY <1>3, <1>4, LatestFirst
<1>6. Len(got) \in Nat /\ Len(got) <= Len(t) /\ (Len(got) < limit => Len(got) = Len(t))
  BY <1>5
<1>7. ASSUME NEW a \in 1..Len(got), NEW b \in 1..Len(got), a < b
      PROVE  got[a] > got[b]
  <2> DEFINE p == Len(t) + 1 - a
             q == Len(t) + 1 - b
  <2>1. p \in 1..Len(t) /\ q \in 1..Len(t) /\ q < p /\ got[a] = t[p] /\ got[b] = t[q]
    BY <1>5, <1>6, <1>7
  <2> HIDE DEF p, q
  <2>2. t[q] < t[p] /\ t[q] \in Nat /\ t[p] \in Nat
    BY <1>1, <1>3, <2>1
  <2> QED BY <2>1, <2>2
<1>8. ASSUME NEW x \in wanted \cap Readable(unread), NEW n \in 1..Len(t), t[n] = x, Len(t) + 1 - n <= Len(got)
      PROVE  \E a \in 1..Len(got) : got[a] = x
  <2> DEFINE a == Len(t) + 1 - n
  <2>1. a \in 1..Len(got) /\ Len(t) + 1 - a = n
    BY <1>5, <1>6, <1>8
  <2> HIDE DEF a
  <2>2. got[a] = x
    BY <1>5, <1>8, <2>1
  <2> QED BY <2>1, <2>2
<1>0. /\ Readable(unread) \subseteq Stored
      /\ \A x \in there : x \in Stored => x \in Readable(unread)
  <2>1. \A i \in FileNo : Entries(files[i]) \subseteq ToSet(Lines(files[i]))
    BY DEF Entries, ToSet
  <2> QED BY <2>1 DEF Hidden, Readable, Stored
<1>9. \A x \in there : x \in wanted /\ x \in (1..calls) \ lost /\ x \in Nat
  BY <1>1
<1> HIDE DEF there
<1>10. ASSUME NEW x \in there, NEW a \in 1..Len(got), got[a] < x
       PROVE  \E b \in 1..Len(got) : got[b] = x
  <2> DEFINE p == Len(t) + 1 - a
  <2>1. p \in 1..Len(t) /\ got[a] = t[p] /\ p = Len(t) + 1 - a
    BY <1>5
  <2> HIDE DEF p
  <2> DEFINE y == t[p]
  <2>2. y \in wanted /\ y \in Stored /\ y \in Nat /\ y < x
    BY <1>0, <1>1, <1>3, <1>10, <2>1
  <2> HIDE DEF y
  <2>3. x \in wanted \cap Readable(unread)
    <3>1. ~(x < y)
      BY <1>9, <2>2
    <3>2. x \in Stored
      BY <1>9, <2>2, <3>1, StoredOrOlder
    <3> QED BY <1>0, <1>9, <3>2
  <2>4. PICK n \in 1..Len(t) : t[n] = x
    BY <1>3, <2>3
  <2>5. p < n
    <3> SUFFICES ASSUME ~(p < n) PROVE FALSE
      OBVIOUS
    <3>1. n = p \/ n < p
      <4>1. n \in Int /\ p \in Int
        BY <1>5, <2>1, <2>4
      <4> QED BY <4>1
    <3>2. t[n] = t[p] \/ t[n] < t[p]
      BY <1>3, <2>1, <3>1
    <3> QED BY <1>9, <2>2, <2>4, <3>2 DEF y
  <2>6. Len(t) + 1 - n <= Len(got)
    BY <1>5, <1>6, <2>1, <2>5
  <2> QED BY <1>8, <2>3, <2>4, <2>6
<1>11. ASSUME Len(got) < limit, NEW x \in there, Kept # <<>>, ~(x < Kept[1])
       PROVE  \E a \in 1..Len(got) : got[a] = x
  <2>1. Kept[1] \in Stored
    BY <1>11, KeptAscends
  <2>2. x \in wanted \cap Readable(unread)
    <3>1. x \in Stored
      BY <1>9, <1>11, <2>1, StoredOrOlder
    <3> QED BY <1>0, <1>9, <3>1
  <2>3. PICK n \in 1..Len(t) : t[n] = x
    BY <1>3, <2>2
  <2>4. Len(t) + 1 - n <= Len(got)
    BY <1>5, <1>6, <1>11
  <2> QED BY <1>8, <2>2, <2>3, <2>4
<1> QED BY <1>7, <1>10, <1>11 DEF got, there, Latest

\* Any query, with any limit, whichever files can be read, for every number and size
\* of files and whatever fails (audit.py:58-92).
THEOREM EveryQueryIsLatest ==
    LogSpec => [](\A wanted \in SUBSET (1..calls), limit \in Nat, unread \in SUBSET FileNo :
                     Latest(wanted, limit, unread))
<1>1. ASSUME LogInv
      PROVE  \A wanted \in SUBSET (1..calls), limit \in Nat, unread \in SUBSET FileNo :
                Latest(wanted, limit, unread)
  BY <1>1, LatestHolds
<1> QED BY <1>1, LogInvariant, PTL

\* The queries that are model-checked (audit.py:66-92).
THEOREM QueryIsLatestHolds == LogSpec => []QueryIsLatest
<1>1. ASSUME LogInv PROVE QueryIsLatest
  <2>1. ASSUME NEW wanted \in {1..calls, {x \in 1..calls : x % 2 = 0}}, NEW limit \in 0..2
        PROVE  wanted \in SUBSET (1..calls) /\ limit \in Nat
    <3>1. limit \in Nat
      BY <2>1
    <3>2. wanted = 1..calls \/ wanted = {x \in 1..calls : x % 2 = 0}
      BY <2>1
    <3>3. wanted \subseteq 1..calls
      BY <3>2, Zenon
    <3> QED BY <3>1, <3>3
  <2> QED BY <1>1, <2>1, LatestHolds DEF QueryIsLatest
<1> QED BY <1>1, LogInvariant, PTL
=============================================================================
