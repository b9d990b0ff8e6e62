---------------------------- MODULE ReceiptVault ----------------------------
(***************************************************************************)
(* mlnd's bridge from receipt files to the SQLite vault: an emitter        *)
(* appends NDJSON lines, rotation truncates a file, and the bridge polls:  *)
(* it stats a file, reads from its offset, splits lines, and inserts.      *)
(* A line is two halves and an end: the first half holds the fields that   *)
(* are hashed, the second the signature and the swap id.  Two halves make  *)
(* a line that parses, also if they belong to two receipts.                *)
(***************************************************************************)
EXTENDS Integers, FiniteSets, SequencesExt

CONSTANTS
    Path,         \* the *.ndjson and *.jsonl files of the directory
    Receipt,      \* what emitters write
    Swap,         \* Swap[r] is its swap id
    NoSwap,       \* a receipt may come without one
    NoPath,
    Rewrites,     \* hypothesis: a truncated file may reach its old offset unseen
    MaxLength,    \* bound: symbols in a file
    MaxTruncates, \* bound
    MaxRestarts,  \* bound
    MaxFaults     \* bound: inserts that fail

ASSUME VaultAssumption ==
    /\ NoPath \notin Path
    /\ DOMAIN Swap = Receipt
    /\ Rewrites \in BOOLEAN
    /\ MaxLength \in Nat /\ MaxTruncates \in Nat /\ MaxRestarts \in Nat /\ MaxFaults \in Nat

End == <<"end">>
First(r) == <<"first", r>>
Second(r) == <<"second", r>>
Symbol == {End} \cup {First(r) : r \in Receipt} \cup {Second(r) : r \in Receipt}

VARIABLES
    file,       \* contents of each file
    off,        \* the bridge's offset into each file, 0 if not seen yet
    partial,    \* the unfinished line it holds of each file
    reading,    \* the file it has looked at and not yet read
    lines,      \* complete lines it has read and not yet dealt with
    rows,       \* the table: (first half, second half) of each receipt
    written,    \* history: receipts whose line was completed
    failed,     \* history: receipts whose insert failed
    truncates, restarts, faults

files == <<file, written, truncates>>
bridge == <<off, partial, reading, lines>>
vars == <<files, bridge, rows, failed, restarts, faults>>

TypeOK ==
    /\ file \in [Path -> Seq(Symbol)]
    /\ off \in [Path -> Nat]
    /\ partial \in [Path -> Seq(Symbol \ {End})]
    /\ reading \in Path \cup {NoPath}
    /\ lines \in Seq(Seq(Symbol \ {End}))
    /\ rows \subseteq Receipt \X Receipt
    /\ written \subseteq Receipt /\ failed \subseteq Receipt \X Receipt
    /\ truncates \in 0..MaxTruncates /\ restarts \in 0..MaxRestarts /\ faults \in 0..MaxFaults

Init ==
    /\ file = [p \in Path |-> <<>>]
    /\ off = [p \in Path |-> 0]
    /\ partial = [p \in Path |-> <<>>]
    /\ reading = NoPath
    /\ lines = <<>>
    /\ rows = {} /\ written = {} /\ failed = {}
    /\ truncates = 0 /\ restarts = 0 /\ faults = 0

-----------------------------------------------------------------------------
(* The emitter and the rotation of its files.                              *)

\* The last symbol written; an empty file is at the start of a line.
Latest(p) == Last(<<End>> \o file[p])

\* A line becomes visible piece by piece.
Append1(p, x) ==
    /\ Len(file[p]) < MaxLength
    /\ Rewrites \/ Len(file[p]) >= off[p] \/ Len(file[p]) + 1 < off[p]
    /\ file' = [file EXCEPT ![p] = Append(@, x)]
    /\ UNCHANGED <<bridge, rows, failed, truncates, restarts, faults>>

Begin(p, r) == Latest(p) = End /\ Append1(p, First(r)) /\ UNCHANGED written
Finish(p, r) == Latest(p) = First(r) /\ Append1(p, Second(r)) /\ UNCHANGED written
EndLine(p, r) ==
    Latest(p) = Second(r) /\ Append1(p, End) /\ written' = written \cup {r}

Truncate(p) ==
    /\ file[p] # <<>> /\ truncates < MaxTruncates
    /\ file' = [file EXCEPT ![p] = <<>>]
    /\ truncates' = truncates + 1
    /\ UNCHANGED <<written, bridge, rows, failed, restarts, faults>>

-----------------------------------------------------------------------------
(* The bridge.                                                             *)

\* Mutant: the unfinished line survives a truncation.
StatKeepsPartial(p) ==
    /\ reading = NoPath /\ lines = <<>>
    /\ reading' = p
    /\ off' = [off EXCEPT ![p] = IF Len(file[p]) < @ THEN 0 ELSE @]
    /\ UNCHANGED <<files, partial, lines, rows, failed, restarts, faults>>

\* A file shorter than the offset was truncated: it is read from its start.
Stat(p) ==
    /\ reading = NoPath /\ lines = <<>>
    /\ reading' = p
    /\ LET shrunk == Len(file[p]) < off[p]
       IN /\ off' = [off EXCEPT ![p] = IF shrunk THEN 0 ELSE @]
          /\ partial' = [partial EXCEPT ![p] = IF shrunk THEN <<>> ELSE @]
    /\ UNCHANGED <<files, lines, rows, failed, restarts, faults>>

\* The ends of lines in a buffer, and the piece between two positions.
Ends(s) == {i \in 1..Len(s) : s[i] = End}
LastEnd(s) == IF Ends(s) = {} THEN 0 ELSE Max(Ends(s))
LineBefore(s, i) ==
    LET before == {j \in Ends(s) : j < i}
    IN SubSeq(s, IF before = {} THEN 1 ELSE Max(before) + 1, i - 1)
Ascending(S) ==
    CHOOSE f \in [1..Cardinality(S) -> S] : \A i, j \in DOMAIN f : i < j => f[i] < f[j]
Lines(s) == LET at == Ascending(Ends(s)) IN [k \in DOMAIN at |-> LineBefore(s, at[k])]
Rest(s) == SubSeq(s, LastEnd(s) + 1, Len(s))

\* Mutant: the offset is that of the last complete line, the partial is kept too.
ReadLinesOnly(p) ==
    LET chunk == SubSeq(file[p], off[p] + 1, Len(file[p]))
        buf == partial[p] \o chunk
    IN /\ reading = p
       /\ reading' = NoPath
       /\ IF chunk = <<>> THEN UNCHANGED <<off, partial, lines>>
          ELSE /\ off' = [off EXCEPT ![p] = @ + LastEnd(chunk)]
               /\ lines' = Lines(buf)
               /\ partial' = [partial EXCEPT ![p] = Rest(buf)]
       /\ UNCHANGED <<files, rows, failed, restarts, faults>>

\* Everything after the offset; the offset moves past it before any line is
\* dealt with.  An offset beyond the end (truncated since Stat) reads nothing.
Read(p) ==
    LET chunk == SubSeq(file[p], off[p] + 1, Len(file[p]))
        buf == partial[p] \o chunk
    IN /\ reading = p
       /\ reading' = NoPath
       /\ IF chunk = <<>> THEN UNCHANGED <<off, partial, lines>>
          ELSE /\ off' = [off EXCEPT ![p] = @ + Len(chunk)]
               /\ lines' = Lines(buf)
               /\ partial' = [partial EXCEPT ![p] = Rest(buf)]
       /\ UNCHANGED <<files, rows, failed, restarts, faults>>

\* A line parses if it is a first half and a second half.
Parses(l) == Len(l) = 2 /\ l[1][1] = "first" /\ l[2][1] = "second"
RowOf(l) == <<l[1][2], l[2][2]>>

\* The second unique key counts only swap ids that are given.
SameSwap(q, r) == Swap[q] = Swap[r] /\ Swap[q] # NoSwap

\* Mutant: the newer receipt of a swap replaces the row.
SaveNewest(row) ==
    rows' = {s \in rows : s[1] # row[1] /\ ~SameSwap(s[2], row[2])} \cup {row}

\* Nothing happens if the evidence is there; another row of the swap id is an
\* error and changes nothing either.
SaveReceipt(row) ==
    LET known == \E s \in rows : s[1] = row[1]
        taken == \E s \in rows : SameSwap(s[2], row[2])
    IN rows' = IF known \/ taken THEN rows ELSE rows \cup {row}

\* Blank and malformed lines are skipped; a failed insert is only logged.
SaveLine ==
    /\ lines # <<>>
    /\ lines' = Tail(lines)
    /\ \/ Parses(Head(lines)) /\ SaveReceipt(RowOf(Head(lines))) /\ UNCHANGED <<failed, faults>>
       \/ ~Parses(Head(lines)) /\ UNCHANGED <<rows, failed, faults>>
       \/ /\ Parses(Head(lines)) /\ faults < MaxFaults
          /\ faults' = faults + 1
          /\ failed' = failed \cup {RowOf(Head(lines))}
          /\ UNCHANGED rows
    /\ UNCHANGED <<files, off, partial, reading, restarts>>

\* The offsets are in memory only.
Restart ==
    /\ restarts < MaxRestarts
    /\ restarts' = restarts + 1
    /\ off' = [p \in Path |-> 0]
    /\ partial' = [p \in Path |-> <<>>]
    /\ reading' = NoPath
    /\ lines' = <<>>
    /\ UNCHANGED <<files, rows, failed, faults>>

Next ==
    \/ \E p \in Path, r \in Receipt : Begin(p, r) \/ Finish(p, r) \/ EndLine(p, r)
    \/ \E p \in Path : Truncate(p) \/ Stat(p) \/ Read(p)
    \/ SaveLine
    \/ Restart

Spec == Init /\ [][Next]_vars

\* The ticker polls every file; a scan runs to its end.
Fairness ==
    /\ WF_vars(SaveLine)
    /\ \A p \in Path : SF_vars(Stat(p)) /\ WF_vars(Read(p))

FairSpec == Spec /\ Fairness

-----------------------------------------------------------------------------

\* The offset and the unfinished line agree with the file: as long as the file
\* is not shorter, the partial is what follows the last line end before the
\* offset (tailFile; unless a truncated file grew back unseen).
OffsetMatchesPartial ==
    \A p \in Path : off[p] <= Len(file[p]) => partial[p] = Rest(SubSeq(file[p], 1, off[p]))

Table == INSTANCE ReceiptTable WITH
    Receipt <- Receipt \X Receipt,
    SameSwap <- LAMBDA r, s : SameSwap(r[2], s[2]),
    EvidenceOf <- LAMBDA r : r[1],
    emitted <- {<<r, r>> : r \in written},
    stored <- rows

\* Offsets, partial lines, restarts and failures refine the table: only what
\* was emitted whole is stored, once per evidence and swap, for good.
ImplementsTable == Table!Spec

\* A receipt that stays in its file is stored in the end, unless its swap or
\* evidence is taken or an insert of it failed (the offset is past it then).
WrittenIsStored ==
    \A p \in Path, r \in Receipt :
        (\E i \in 1..Len(file[p]) - 1 : file[p][i] = Second(r) /\ file[p][i + 1] = End)
        ~> \/ \E s \in rows : s[1] = r \/ SameSwap(s[2], r)
           \/ <<r, r>> \in failed
           \/ file[p] = <<>>
=============================================================================
