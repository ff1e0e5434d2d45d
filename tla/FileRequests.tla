---------------------------- MODULE FileRequests ----------------------------
(***************************************************************************)
(* The requests on files of SensorServer.ino: /download, /edit and /del on *)
(* a file that the log adds lines to.  A download goes through a buffer of *)
(* BUFFDIM bytes; an edit rewrites the file in place, moving what is behind *)
(* the line by way of two buffers of 200 bytes.  Bytes are opaque: a byte  *)
(* is the place it was first logged at, so that no two of a file are equal *)
(* unless one was copied.  Power may fail within an edit, which leaves the  *)
(* file as far as it was moved.                                            *)
(***************************************************************************)
EXTENDS Integers, Sequences, SequencesExt, FiniteSets

CONSTANTS
    BUFFDIM,        \* buffer of a download, 2024
    MAXSIZ,         \* the most a download sends, 10000
    Block,          \* buffers of an edit, 200
    NewLines,       \* what replace() may make of a line
    MaxLine,        \* bound: bytes in a logged line
    MaxSize,        \* bound: size of the file when a line is logged
    MaxEdits        \* bound: edits that write

CR == 0             \* 13
New == -1           \* a byte that replace() put in
Garbage == -2       \* a byte behind the two buffers
Bytes == Garbage..(MaxSize + MaxLine)

ASSUME BufferAssumption == BUFFDIM \in Nat \ {0, 1} /\ MAXSIZ \in Nat /\ Block \in Nat \ {0}
ASSUME LineAssumption == NewLines \subseteq Seq({New}) /\ {MaxLine, MaxSize, MaxEdits} \subseteq Nat

VARIABLES
    content,        \* the bytes of the file, or Absent
    sent,           \* the download just made: the file it was of, and its text
    edit,           \* history: the edit just begun, and the file before
    edits           \* counter for the bound MaxEdits

fileVars == <<content, sent, edit, edits>>

Absent == <<-3>>
NoneSent == [of |-> <<>>, text |-> <<>>]
NoEdit == [before |-> <<>>, line |-> 0, new |-> <<>>, del |-> FALSE, done |-> FALSE]

Smaller(a, b) == IF a < b THEN a ELSE b

\* Bytes written at a position of the file, at most at its end.
Write(f, pos, text) == SubSeq(f, 1, pos) \o text \o SubSeq(f, pos + Len(text) + 1, Len(f))

FilesInit ==
    /\ content \in {Absent, <<>>}
    /\ sent = NoneSent
    /\ edit = NoEdit
    /\ edits = 0

\* recordSensors adds a line, and makes the file if there is none.
recordSensors ==
    LET old == IF content = Absent THEN <<>> ELSE content IN
    /\ Len(old) < MaxSize
    /\ \E n \in 0..MaxLine :
          content' = Append(old \o [k \in 1..n |-> Len(old) + k], CR)
    /\ sent' = NoneSent /\ edit' = NoEdit
    /\ UNCHANGED edits

-----------------------------------------------------------------------------
(* handleDownload *)

\* Mutants: as much from the front; all of it.
Sought_front(f) == SubSeq(f, 1, Smaller(Len(f), MAXSIZ))
Sought_all(f) == f

\* "if (siz > MAXSIZ) f.seek(-MAXSIZ, SeekEnd)"
Sought(f) == SubSeq(f, Len(f) - Smaller(Len(f), MAXSIZ) + 1, Len(f))

\* A buffer is filled with what is left and sent up to len; siz goes down by one
\* less than the buffer holds, so the last ones may send what was left in them.
Chunk(s) ==
    IF s.siz <= 0 THEN s
    ELSE LET len == Smaller(s.siz, BUFFDIM)
             got == SubSeq(s.left, 1, Smaller(len, Len(s.left)))
             buf == got \o SubSeq(s.buf, Len(got) + 1, Len(s.buf))
         IN [siz |-> s.siz - (BUFFDIM - 1),
             left |-> SubSeq(s.left, len + 1, Len(s.left)),
             buf |-> buf,
             str |-> s.str \o SubSeq(buf, 1, len)]

Opened(f) == [siz |-> Len(Sought(f)), left |-> Sought(f), buf |-> <<>>, str |-> <<>>]

\* After as many passes as there are bytes none is left to do.
Downloaded(f) ==
    LET pass[k \in Nat] == IF k = 0 THEN Opened(f) ELSE Chunk(pass[k - 1])
    IN pass[Len(Sought(f))].str

handleDownload ==
    /\ content # Absent
    /\ sent' = [of |-> content, text |-> Downloaded(content)]
    /\ edit' = NoEdit
    /\ UNCHANGED <<content, edits>>

-----------------------------------------------------------------------------
(* handleEdit *)

\* readBytesUntil(13, buf, 200) at pos: the bytes, and the position behind them
\* and their CR, which is not read when they fill the buffer.
ReadLine(f, pos) ==
    LET ends == {p \in pos..(Len(f) - 1) : f[p + 1] = CR}
        end == IF ends = {} THEN Len(f) ELSE CHOOSE p \in ends : \A q \in ends : p <= q
        recl == Smaller(end - pos, Block)
    IN [bytes |-> SubSeq(f, pos + 1, pos + recl),
        pos |-> IF ends # {} /\ recl < Block THEN pos + recl + 1 ELSE pos + recl]

\* Positions in front of the n-th line, from 1, and behind it.
Skipped(f, n) ==
    LET skip[k \in Nat] == IF k = 0 THEN 0 ELSE ReadLine(f, skip[k - 1]).pos
    IN skip[n]

\* Mutant: a block is written from the buffer that was just read.
Move_same(s, fend) ==
    IF s.fread + s.len >= fend THEN s
    ELSE LET fread == s.fread + s.len
             len == Smaller(fend - fread, s.len)
             next == SubSeq(s.f, fread + 1, fread + len)
         IN [f |-> Write(s.f, s.fwrite, next), fread |-> fread, len |-> len,
             fwrite |-> s.fwrite + s.len, held |-> next]

\* One pass of the loop: the next block is read, then the one held is written.
Move(s, fend) ==
    IF s.fread + s.len >= fend THEN s
    ELSE LET fread == s.fread + s.len
             len == Smaller(fend - fread, s.len)
         IN [f |-> Write(s.f, s.fwrite, s.held), fread |-> fread, len |-> len,
             fwrite |-> s.fwrite + s.len,
             held |-> SubSeq(s.f, fread + 1, fread + len)]

\* Mutant: the line is written before the block behind it is read.
Begun_unread(f, n, new, del) ==
    LET line == Skipped(f, n - 1)
        fread == Skipped(f, n)
        text == IF del THEN <<>> ELSE Append(new, CR)
        len == Smaller(Len(f) - fread, Block)
        g == Write(f, line, text)
    IN [f |-> g, fread |-> fread, len |-> len, fwrite |-> line + Len(text),
        held |-> SubSeq(g, fread + 1, fread + len)]

\* The block behind the line is read, then the line becomes new unless it is
\* deleted.
Begun(f, n, new, del) ==
    LET line == Skipped(f, n - 1)
        fread == Skipped(f, n)
        text == IF del THEN <<>> ELSE Append(new, CR)
        len == Smaller(Len(f) - fread, Block)
    IN [f |-> Write(f, line, text), fread |-> fread, len |-> len,
        fwrite |-> line + Len(text), held |-> SubSeq(f, fread + 1, fread + len)]

Moved(f, n, new, del, passes) ==
    LET pass[k \in Nat] == IF k = 0 THEN Begun(f, n, new, del) ELSE Move(pass[k - 1], Len(f))
    IN pass[passes]

\* The file after an edit.  The last block comes from buf[i+1 % 2], which is
\* buf[i+1] and outside of buf; the file keeps the bytes behind it, since it is
\* not cut.
Edited(f, n, new, del) ==
    LET moved == Moved(f, n, new, del, Len(f))
    IN Write(moved.f, moved.fwrite, [k \in 1..moved.len |-> Garbage])

\* What a request for line n may make of it.  "list" only shows the line.
\* replace() finds nothing in an empty line, which is also what is read behind
\* the end.
Replaced(n, del) ==
    LET old == ReadLine(content, Skipped(content, n - 1)).bytes
    IN IF old = <<>> \/ del THEN {old} ELSE NewLines \cup {old}

\* The file opens.
Opens ==
    /\ content # Absent
    /\ edits < MaxEdits

\* The edit that begins, with this line, and whether it comes to its end.
Begins(n, new, del, done) ==
    /\ edits' = edits + 1
    /\ edit' = [before |-> content, line |-> n, new |-> new, del |-> del, done |-> done]
    /\ sent' = NoneSent

handleEdit(n, del) ==
    /\ Opens
    /\ \E new \in Replaced(n, del) :
          /\ Begins(n, new, del, TRUE)
          /\ content' = Edited(content, n, new, del)

\* Power fails within an edit, after some passes of its loop.
PowerLossInEdit(n, del, passes) ==
    /\ Opens
    /\ \E new \in Replaced(n, del) :
          /\ Begins(n, new, del, FALSE)
          /\ content' = Moved(content, n, new, del, passes).f

handleDel ==
    /\ content # Absent
    /\ content' = Absent
    /\ sent' = NoneSent /\ edit' = NoEdit
    /\ UNCHANGED edits

FilesNext ==
    \/ recordSensors
    \/ handleDownload
    \/ \E n \in 1..(MaxSize + 2), del \in BOOLEAN :
          \/ handleEdit(n, del)
          \/ \E passes \in 0..((MaxSize + MaxLine) \div Block + 1) : PowerLossInEdit(n, del, passes)
    \/ handleDel

FilesSpec == FilesInit /\ [][FilesNext]_fileVars

-----------------------------------------------------------------------------
\* Types of the variables.  A download is not longer than MAXSIZ and the bytes
\* that its buffers send twice, one for each.
FilesTypeOK ==
    /\ content = Absent \/ Range(content) \subseteq Bytes
    /\ Range(sent.text) \subseteq Bytes
    /\ Len(sent.text) <= MAXSIZ + MAXSIZ \div (BUFFDIM - 1)
    /\ edits \in 0..MaxEdits

\* A download begins with the last MAXSIZ bytes of the file, all of them and in
\* order, wherever the file and the buffers end.
LastBytes(f) == IF Len(f) <= MAXSIZ THEN f ELSE SubSeq(f, Len(f) - MAXSIZ + 1, Len(f))
DownloadHasTail == IsPrefix(LastBytes(sent.of), sent.text)

\* What an edit should make of the file: line n of its lines replaced or gone.
Ends(f) == {p \in DOMAIN f : f[p] = CR}
LineEnd(f, n) == CHOOSE p \in Ends(f) : Cardinality({q \in Ends(f) : q <= p}) = n
Ahead(f, n) == IF n = 1 THEN <<>> ELSE SubSeq(f, 1, LineEnd(f, n - 1))
Behind(f, n) == SubSeq(f, LineEnd(f, n) + 1, Len(f))
\* No line fills a buffer, and line n is there and becomes longer by no more
\* than one.
ShortLines(f) == \A p \in 1..(Len(f) - Block + 1) : \E q \in p..(p + Block - 1) : f[q] = CR
Modest(e) ==
    LET f == e.before IN
    /\ e.line <= Cardinality(Ends(f)) /\ ShortLines(f)
    /\ e.del \/ Len(Ahead(f, e.line)) + Len(e.new) + 1 <= LineEnd(f, e.line) + Block
LastBlock(r) == IF r = <<>> THEN 0 ELSE ((Len(r) - 1) % Block) + 1

\* The step of an edit keeps the lines in front and writes the new one, and all
\* that was behind it follows up to the last block, however the lines lie over
\* the blocks; unless lines are longer than a buffer or the line grows by more.
EditMovesRest ==
    [][edits' # edits /\ edit'.done =>
         LET f == edit'.before  n == edit'.line
             rest == Behind(f, n)
             text == IF edit'.del THEN <<>> ELSE Append(edit'.new, CR)
             want == Ahead(f, n) \o text \o SubSeq(rest, 1, Len(rest) - LastBlock(rest))
         IN Modest(edit') => IsPrefix(want, content')]_fileVars

\* Wherever the power fails in such an edit: what was in front of the line is as
\* it was, and of what was behind it no more bytes are gone than a buffer holds,
\* those that were read and not yet written.
EditLosesOneBlock ==
    LET f == edit.before  n == edit.line IN
    edit # NoEdit /\ Modest(edit) =>
        /\ IsPrefix(Ahead(f, n), content)
        /\ Cardinality(Range(Behind(f, n)) \ (Range(content) \cup {CR})) <= Block
=============================================================================
