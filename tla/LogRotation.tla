---------------------------- MODULE LogRotation ----------------------------
(***************************************************************************)
(* A log that rotates: the audit log and, in the same way, the session log *)
(* of a port.  A full current file (0) is renamed to 1, 1 to 2 and so on,  *)
(* beginning with the oldest, which is deleted; then the entry is          *)
(* appended.  Every file operation may fail, or the server may die there:  *)
(* the files stay as they are, and this entry is not written.              *)
(*                                                                         *)
(* An entry is the number of the call that wrote it; sizes are counted in  *)
(* lines.  A write that fails may leave a piece of a line, which the next  *)
(* entry is appended to: together they are a line that does not parse.     *)
(***************************************************************************)
EXTENDS Naturals, FiniteSets, Sequences, SequencesExt

CONSTANTS MaxFiles,   \* _max_files: how many rotated files are kept
          MaxSize,    \* _max_bytes, in lines
          MaxCalls,   \* bound: calls of log
          Junk,       \* a line that does not parse
          Absent      \* no such file

ASSUME RotationAssumption == {MaxFiles, MaxSize, MaxCalls} \subseteq Nat
                             /\ MaxFiles > 0 /\ MaxSize > 0 /\ Junk \notin Nat
                             /\ Absent \notin [lines : Seq(Nat \cup {Junk}), open : BOOLEAN]

VARIABLES files,   \* the current file and the rotated ones
          calls,   \* history: number of calls
          lost,    \* history: the entries that never became a line of their own
          faults   \* history: number of failures

logVars == <<files, calls, lost, faults>>

FileNo == 0..MaxFiles
New == [lines |-> <<>>, open |-> FALSE]   \* open: the last line has no end yet

LogInit ==
    /\ files = [i \in FileNo |-> Absent]
    /\ calls = 0 /\ lost = {} /\ faults = 0

-----------------------------------------------------------------------------
(* Rotation                                                                *)

Full == files[0] # Absent /\ Len(files[0].lines) >= MaxSize

\* (A slip: the oldest file that is kept is deleted too.)
MutRotated(k) ==
    [i \in FileNo |->
       CASE i + k <= MaxFiles -> files[i]
         [] i + k = MaxFiles + 1 -> Absent
         [] i + k > MaxFiles + 1 -> IF i = MaxFiles THEN Absent ELSE files[i - 1]]

\* The files after the first k steps: the oldest is deleted, and from the oldest
\* down each file takes the next number.
Rotated(k) ==
    [i \in FileNo |->
       CASE i + k <= MaxFiles -> files[i]
         [] i + k = MaxFiles + 1 -> Absent
         [] i + k > MaxFiles + 1 -> files[i - 1]]

Steps == MaxFiles + 1

\* Step k + 1 may fail when there is a file to delete or to rename.
MayFail(k) == k < Steps /\ files[MaxFiles - k] # Absent

-----------------------------------------------------------------------------
(* log                                                                     *)

Current(fs) == IF fs[0] = Absent THEN New ELSE fs[0]

\* A write that fails leaves nothing, or a piece of a line.
Torn(f, piece) ==
    IF ~piece \/ f.open THEN f ELSE [lines |-> Append(f.lines, Junk), open |-> TRUE]

\* (A slip: the call that rotates does not write its entry.)
MutWrites(fs) ==
    /\ files' = IF Full THEN fs
                ELSE [fs EXCEPT ![0] = [lines |-> Append(Current(fs).lines, calls'), open |-> FALSE]]
    /\ UNCHANGED <<lost, faults>>

\* The entry is appended to the current file; what it meets there is the end of
\* the last line, or a piece of a line.
Writes(fs) ==
    /\ files' = [fs EXCEPT ![0] =
                   IF Current(fs).open THEN [@ EXCEPT !.open = FALSE]
                   ELSE [Current(fs) EXCEPT !.lines = Append(@, calls')]]
    /\ lost' = IF Current(fs).open THEN lost \cup {calls'} ELSE lost
    /\ UNCHANGED faults

Fails(fs) ==
    /\ files' = fs
    /\ lost' = lost \cup {calls'}
    /\ faults' = faults + 1

\* When the size of the file cannot be read, the entry is appended to it as it is.
Log ==
    /\ calls < MaxCalls /\ calls' = calls + 1
    /\ \E ready \in {IF Full THEN Rotated(Steps) ELSE files, files} :
       \/ Writes(ready)
       \/ \E piece \in BOOLEAN : Fails([ready EXCEPT ![0] = Torn(Current(ready), piece)])
       \/ Full /\ \E k \in 0..MaxFiles : MayFail(k) /\ Fails(Rotated(k))

LogSpec == LogInit /\ [][Log]_logVars

-----------------------------------------------------------------------------
(* query                                                                   *)

Lines(f) == IF f = Absent THEN <<>> ELSE f.lines

\* The lines of a file that are wanted.
Matching(s, wanted) ==
    LET F[n \in 0..Len(s)] ==
          IF n = 0 THEN <<>>
          ELSE IF s[n] \in wanted THEN Append(F[n - 1], s[n]) ELSE F[n - 1]
    IN  F[Len(s)]

\* What the query gets of file i: a file that cannot be read is passed over.
Part(i, wanted, unread) ==
    IF i \in unread THEN <<>> ELSE Matching(Lines(files[i]), wanted)

\* The entries that parse and are wanted, file by file, the oldest file first.
Results(wanted, unread) ==
    LET F[n \in 0..Steps] ==
          IF n = 0 THEN <<>> ELSE F[n - 1] \o Part(Steps - n, wanted, unread)
    IN  F[Steps]

Kept == Results(Nat, {})

Prefix(s, n) == SubSeq(s, 1, IF n < Len(s) THEN n ELSE Len(s))

\* (A slip: the entries are limited before they are turned round.)
MutQuery(wanted, limit, unread) == Reverse(Prefix(Results(wanted, unread), limit))

\* The entries a query asks for, newest first, no more than its limit.
Query(wanted, limit, unread) == Prefix(Reverse(Results(wanted, unread)), limit)

-----------------------------------------------------------------------------
(* Properties                                                              *)

\* Whatever fails and wherever, the entries that are kept are in the order in
\* which they were logged, and none is missing after the oldest of them but those
\* that were never written; a failure costs its own entry and at most the next one,
\* which a piece of a line spoils (audit.py:34-37, 94-113, session_logger.py:78-96).
KeptIsLatest ==
    /\ \A a, b \in 1..Len(Kept) : a < b => Kept[a] < Kept[b]
    /\ Kept # <<>> =>
          \A x \in Kept[1]..calls : x \in lost \/ \E a \in 1..Len(Kept) : Kept[a] = x
    /\ Cardinality(lost) <= 2 * faults

Rotations == Cardinality({i \in FileNo \ {0} : files[i] # Absent})

\* A file is rotated only when it is full, and entries are given up for new ones
\* only once all rotated files are there, but for one file per failure: a rotation
\* that failed halfway begins again by deleting the oldest file (audit.py:94-111).
Retention ==
    /\ \A i \in FileNo \ {0} : files[i] # Absent => Len(files[i].lines) >= MaxSize
    /\ (\E x \in 1..calls : x \notin lost /\ \A a \in 1..Len(Kept) : Kept[a] # x) =>
          Rotations + faults >= MaxFiles

\* The entries in the files that a query cannot read.
Hidden(unread) == UNION {ToSet(Lines(files[i])) : i \in unread \cap FileNo}

\* A query answers with the latest entries that were written, match and can be read,
\* newest first, as far back as files are kept.
Latest(wanted, limit, unread) ==
    LET got == Query(wanted, limit, unread)
        there == (wanted \ lost) \ Hidden(unread)
    IN  /\ \A a, b \in 1..Len(got) : a < b => got[a] > got[b]
        /\ \A x \in there :
              (\E a \in 1..Len(got) : got[a] < x) => \E a \in 1..Len(got) : got[a] = x
        /\ Len(got) < limit =>
              \A x \in there :
                 (\E a \in 1..Len(got) : got[a] = x) \/ Kept = <<>> \/ x < Kept[1]

\* Whatever was lost, and whichever files are there and can be read, a query for all
\* entries or for some answers with the latest of them, newest first (audit.py:66-92).
QueryIsLatest ==
    \A wanted \in {1..calls, {x \in 1..calls : x % 2 = 0}} :
    \A limit \in 0..2, unread \in SUBSET FileNo : Latest(wanted, limit, unread)
=============================================================================
