------------------------ MODULE RuntimeClose_proofs ------------------------
(***************************************************************************)
(* What a program wrote to a file that it does not have open any more is   *)
(* on the host, and the files are streams to the program, for all paths,   *)
(* texts, bounds and numbers of files.                                     *)
(***************************************************************************)
EXTENDS RuntimeClose, Recursion, TLAPS, FiniteSetTheorems, SequenceTheorems

-----------------------------------------------------------------------------
(* Texts.                                                                  *)

\* A write changes a text into a text that reaches behind what was written.
LEMMA OverwriteText ==
    ASSUME NEW c \in Seq(Byte), NEW s \in Seq(Byte), NEW pos \in 0..Len(c)
    PROVE  /\ Overwrite(c, pos, s) \in Seq(Byte)
           /\ Len(Overwrite(c, pos, s)) >= pos + Len(s)
           /\ WriteAt(c, pos, s) = Overwrite(c, pos, s)
<1> DEFINE n == IF Len(c) < pos + Len(s) THEN pos + Len(s) ELSE Len(c)
           w == [i \in 1..n |-> IF pos < i /\ i <= pos + Len(s) THEN s[i - pos] ELSE c[i]]
<1>1. n \in Nat /\ n >= pos + Len(s) /\ pos \in Nat /\ Len(c) \in Nat /\ Len(s) \in Nat
  OBVIOUS
<1>2. ASSUME NEW i \in 1..n PROVE w[i] \in Byte
  <2>1. CASE pos < i /\ i <= pos + Len(s)
    <3>1. i - pos \in 1..Len(s)
      BY <1>1, <2>1
    <3> QED BY <2>1, <3>1, ElementOfSeq
  <2>2. CASE ~(pos < i /\ i <= pos + Len(s))
    <3>1. i \in 1..Len(c)
      BY <1>1, <2>2
    <3> QED BY <2>2, <3>1, ElementOfSeq
  <2> QED BY <2>1, <2>2
<1>3. w \in [1..n -> Byte]
  BY <1>2
<1>4. w \in Seq(Byte) /\ Len(w) = n
  BY <1>1, <1>3
<1>5. Overwrite(c, pos, s) = w
  BY DEF Overwrite
<1>6. Least(pos, Len(c)) = pos
  BY DEF Least
<1> QED BY <1>1, <1>4, <1>5, <1>6 DEF WriteAt

\* A first part of what was to be written.
LEMMA PartOfText ==
    ASSUME NEW s \in Seq(Byte), NEW k \in 0..Len(s)-1
    PROVE  SubSeq(s, 1, k) \in Seq(Byte) /\ Len(SubSeq(s, 1, k)) = k
  BY SubSeqProperties

\* A read ends at a position of the text.
LEMMA ReadStays ==
    ASSUME NEW c \in Seq(Byte), NEW at \in Nat, NEW format
    PROVE  ReadOne(c, at, format)[2] \in 0..Len(c)
<1> DEFINE pos == Least(at, Len(c))
           seen == {i \in 1..Len(c) : \A j \in pos+1..i-1 : c[j] # NewLine}
<1>1. pos \in 0..Len(c)
  BY DEF Least
<1>2. AfterLine(c, pos) \in 0..Len(c)
  <2>1. IsFiniteSet(1..Len(c)) /\ Cardinality(1..Len(c)) = Len(c)
    <3>1. Len(c) \in Nat /\ 1 \in Int /\ Len(c) \in Int
      OBVIOUS
    <3> HIDE DEF seen
    <3> QED BY <3>1, FS_Interval, SMTT(30)
  <2>2. IsFiniteSet(seen) /\ Cardinality(seen) <= Cardinality(1..Len(c))
    BY <2>1, FS_Subset
  <2>3. Cardinality(seen) \in Nat
    BY <2>2, FS_CardinalityType
  <2>4. AfterLine(c, pos) = Cardinality(seen)
    BY DEF AfterLine
  <2> QED BY <2>1, <2>2, <2>3, <2>4
<1>3. CASE format = "all"
  <2>1. ReadOne(c, at, format)[2] = Len(c)
    BY <1>3 DEF ReadOne
  <2> QED BY <2>1
<1>4. CASE format # "all" /\ pos = Len(c)
  <2>1. ReadOne(c, at, format)[2] = pos
    BY <1>4 DEF ReadOne
  <2> QED BY <1>1, <2>1
<1>5. CASE format = "line" /\ pos < Len(c)
  <2>1. ReadOne(c, at, format)[2] = AfterLine(c, pos)
    BY <1>5, <1>1 DEF ReadOne
  <2> QED BY <1>2, <2>1
<1>6. CASE format # "all" /\ format # "line" /\ pos # Len(c)
  <2>1. ReadOne(c, at, format)[2] = pos + 1
    BY <1>6 DEF ReadOne
  <2> QED BY <1>1, <1>6, <2>1
<1> QED BY <1>1, <1>3, <1>4, <1>5, <1>6

-----------------------------------------------------------------------------
(* The inductive invariant.                                                *)

Types ==
    /\ disk \in [Paths -> Texts] /\ text \in [Paths \cup Handles -> Texts]
    /\ files \in [Handles -> FileState] /\ registry \in 0..MaxFiles

\* An open file has its text in its buffer or, once it is direct, on the host.
SoundFile(h) ==
    LET f == files[h] IN
    IF f.writable THEN
        /\ ~f.auto /\ f.path \in Paths \cup {h}
        /\ text[f.path] \in Seq(Byte) /\ f.pos <= Len(text[f.path])
        /\ IF f.direct THEN f.path \in Paths /\ ~f.explicit /\ disk[f.path] = text[f.path]
           ELSE f.content = text[f.path]
    ELSE f.path \in Paths /\ disk[f.path] \in Seq(Byte)

FilesSound == \A h \in Open : SoundFile(h)

OneWriter ==
    \A g, h \in Open :
        files[g].writable /\ files[h].writable /\ files[g].path = files[h].path => g = h

Registered == \A h \in Open : h <= registry

FileInv == Types /\ FilesSound /\ OneWriter /\ Registered /\ ClosedFilesAreWritten

\* What the collector finalized and left open cannot be used again.
Dropped(h) == ~Reachable(h) /\ (Stored(h) => files[h].path \in failed)
DoneDropped == \A h \in Open : files[h].done => Dropped(h)

\* What the hooks left open could not be written.
Drained == \A h \in Open : h <= cursor /\ Stored(h) => files[h].path \in failed

IInv ==
    /\ FileInv /\ cursor \in Nat /\ (phase # "drain" => cursor = 0)
    /\ phase = "run" => DoneDropped
    /\ phase = "drain" => Drained

-----------------------------------------------------------------------------
(* The three ways in which a step changes files.                           *)

\* The operation on the file h leaves other paths and texts alone.
Elsewhere(h) ==
    LET f == files[h] IN
    /\ disk' \in [Paths -> Texts] /\ text' \in [Paths \cup Handles -> Texts]
    /\ \A p \in Paths : ~f.writable \/ p # f.path =>
           disk'[p] = disk[p] /\ (p \in failed' <=> p \in failed)
    /\ \A n \in Paths \cup Handles : ~f.writable \/ n # f.path => text'[n] = text[n]
    /\ f.writable /\ f.path \in Paths /\ disk[f.path] \in Seq(Byte) =>
           disk'[f.path] \in Seq(Byte)

\* A file that stays open: it has to be sound, and the others are.
LEMMA StaysOpen ==
    ASSUME FileInv, NEW h \in Open, NEW f \in FileState, Elsewhere(h),
           files' = [files EXCEPT ![h] = f], registry' = registry,
           f.st = "open", f.writable = files[h].writable, f.path = files[h].path,
           SoundFile(h)'
    PROVE  /\ FileInv'
           /\ DoneDropped /\ output' \in {output, h} /\ ~f.done => DoneDropped'
           /\ DoneDropped /\ output' \in Open /\ ~files[output'].done /\ ~f.done => DoneDropped'
           /\ DoneDropped /\ output' = output /\ ~f.held /\ output # h
                /\ (Stored(h) => f.path \in failed') => DoneDropped'
<1>1. h \in Handles /\ Open' = Open
  BY DEF Open, FileInv, Types
<1>2. Types'
  BY <1>1 DEF FileInv, Types, Elsewhere
<1>3. ASSUME NEW g \in Open', g # h PROVE SoundFile(g)' /\ files'[g] = files[g]
  <2>1. g \in Open /\ g \in Handles /\ files'[g] = files[g] /\ SoundFile(g)
    BY <1>1, <1>3 DEF FileInv, FilesSound, Open, Types
  <2>2. CASE files[g].writable
    <3>1. files[h].writable => files[g].path # files[h].path
      BY <1>3, <2>1, <2>2 DEF FileInv, OneWriter
    <3>2. files[g].path \in Paths \cup Handles
      BY <2>1, <2>2 DEF SoundFile
    <3>3. text'[files[g].path] = text[files[g].path]
      BY <3>1, <3>2 DEF Elsewhere
    <3>4. files[g].path \in Paths => disk'[files[g].path] = disk[files[g].path]
      BY <3>1 DEF Elsewhere
    <3> QED BY <2>1, <2>2, <3>3, <3>4 DEF SoundFile
  <2>3. CASE ~files[g].writable
    BY <2>1, <2>3 DEF SoundFile, Elsewhere
  <2> QED BY <2>1, <2>2, <2>3
<1>4. FilesSound'
  BY <1>3 DEF FilesSound
<1>5. \A g \in Open : files'[g].writable = files[g].writable /\ files'[g].path = files[g].path
                       /\ files'[g].st = files[g].st
  BY <1>1 DEF FileInv, Types, Open
<1>6. OneWriter' /\ Registered'
  BY <1>1, <1>5 DEF FileInv, OneWriter, Registered
<1>7. ClosedFilesAreWritten'
  <2>1. \A p \in Paths : Writers(p)' = Writers(p)
    BY <1>1, <1>5 DEF Writers
  <2>2. ASSUME NEW p \in Paths, Writers(p) = {}, p \notin failed' PROVE disk'[p] = text'[p]
    <3>1. ~files[h].writable \/ p # files[h].path
      BY <2>2 DEF Writers
    <3> QED BY <2>2, <3>1 DEF Elsewhere, FileInv, ClosedFilesAreWritten
  <2> QED BY <2>1, <2>2 DEF ClosedFilesAreWritten
<1>8. ASSUME DoneDropped, output' \in {output, h} \/ (output' \in Open /\ ~files[output'].done),
             NEW g \in Open', g # h, files'[g].done
      PROVE  Dropped(g)'
  <2>1. g \in Open /\ files'[g] = files[g] /\ Dropped(g)
    BY <1>1, <1>3, <1>8 DEF DoneDropped
  <2>2. Stored(g) => files[g].path \in failed'
    <3>1. SUFFICES ASSUME Stored(g) PROVE files[g].path \in failed'
      OBVIOUS
    <3>2. files[h].writable => files[g].path # files[h].path
      BY <1>8, <2>1, <3>1 DEF FileInv, OneWriter, Stored
    <3> QED BY <2>1, <3>1, <3>2 DEF Elsewhere, Dropped, Stored
  <2>3. output' # g
    BY <1>8, <2>1 DEF Dropped, Reachable
  <2> QED BY <1>8, <2>1, <2>2, <2>3 DEF Dropped, Reachable, Stored
<1>9. files'[h] = f
  BY <1>1 DEF FileInv, Types
<1>10. FileInv'
  BY <1>2, <1>4, <1>6, <1>7 DEF FileInv
<1>11. ASSUME DoneDropped, output' \in {output, h} \/ (output' \in Open /\ ~files[output'].done), ~f.done
       PROVE  DoneDropped'
  BY <1>8, <1>9, <1>11 DEF DoneDropped
<1>12. ASSUME DoneDropped, output' = output, ~f.held, output # h, Stored(h) => f.path \in failed'
       PROVE  DoneDropped'
  <2>1. Dropped(h)'
    BY <1>9, <1>12 DEF Dropped, Reachable, Stored
  <2>2. ASSUME NEW g \in Open', files'[g].done PROVE Dropped(g)'
    <3>1. CASE g = h
      BY <2>1, <3>1
    <3>2. CASE g # h
      BY <1>8, <1>12, <2>2, <3>2
    <3> QED BY <3>1, <3>2
  <2> QED BY <2>2 DEF DoneDropped
<1> QED BY <1>10, <1>11, <1>12

\* A file that is open no more: its text is on the host or could not get there.
LEMMA IsOpenNoMore ==
    ASSUME FileInv, NEW h \in Open, NEW f \in FileState, Elsewhere(h),
           files' = [files EXCEPT ![h] = f], registry' = registry, f.st # "open",
           Stored(h) => files[h].path \in failed'
                          \/ disk'[files[h].path] = text'[files[h].path]
    PROVE  FileInv' /\ (DoneDropped /\ output' = output => DoneDropped')
<1>1. h \in Handles /\ Open' = Open \ {h} /\ \A g \in Open' : files'[g] = files[g]
  BY DEF Open, FileInv, Types
<1>2. Types'
  BY <1>1 DEF FileInv, Types, Elsewhere
<1>3. ASSUME NEW g \in Open' PROVE SoundFile(g)'
  <2>1. g \in Open /\ g \in Handles /\ g # h /\ files'[g] = files[g] /\ SoundFile(g)
    BY <1>1 DEF FileInv, FilesSound, Open
  <2>2. CASE files[g].writable
    <3>1. files[h].writable => files[g].path # files[h].path
      BY <2>1, <2>2 DEF FileInv, OneWriter
    <3>2. files[g].path \in Paths \cup Handles
      BY <2>1, <2>2 DEF SoundFile
    <3>3. text'[files[g].path] = text[files[g].path]
      BY <3>1, <3>2 DEF Elsewhere
    <3>4. files[g].path \in Paths => disk'[files[g].path] = disk[files[g].path]
      BY <3>1 DEF Elsewhere
    <3> QED BY <2>1, <2>2, <3>3, <3>4 DEF SoundFile
  <2>3. CASE ~files[g].writable
    BY <2>1, <2>3 DEF SoundFile, Elsewhere
  <2> QED BY <2>2, <2>3
<1>4. FilesSound'
  BY <1>3 DEF FilesSound
<1>5. OneWriter' /\ Registered'
  BY <1>1 DEF FileInv, OneWriter, Registered
<1>6. ClosedFilesAreWritten'
  <2>1. ASSUME NEW p \in Paths, Writers(p)' = {}, p \notin failed' PROVE disk'[p] = text'[p]
    <3>1. Writers(p) \subseteq {h}
      BY <1>1, <2>1 DEF Writers
    <3>2. CASE h \in Writers(p)
      BY <2>1, <3>2 DEF Writers, Stored
    <3>3. CASE h \notin Writers(p)
      <4>1. ~files[h].writable \/ p # files[h].path
        BY <3>3 DEF Writers
      <4>2. Writers(p) = {} /\ p \notin failed
        BY <2>1, <3>1, <3>3, <4>1 DEF Elsewhere
      <4> QED BY <4>1, <4>2 DEF Elsewhere, FileInv, ClosedFilesAreWritten
    <3> QED BY <3>2, <3>3
  <2> QED BY <2>1 DEF ClosedFilesAreWritten
<1>7. ASSUME DoneDropped, output' = output, NEW g \in Open', files'[g].done PROVE Dropped(g)'
  <2>1. g \in Open /\ g # h /\ files'[g] = files[g] /\ Dropped(g)
    BY <1>1, <1>7 DEF DoneDropped
  <2>2. Stored(g) => files[g].path \in failed'
    <3>1. SUFFICES ASSUME Stored(g) PROVE files[g].path \in failed'
      OBVIOUS
    <3>2. files[h].writable => files[g].path # files[h].path
      BY <2>1, <3>1 DEF FileInv, OneWriter, Stored
    <3> QED BY <2>1, <3>1, <3>2 DEF Elsewhere, Dropped, Stored
  <2> QED BY <1>7, <2>1, <2>2 DEF Dropped, Reachable, Stored
<1> QED BY <1>2, <1>4, <1>5, <1>6, <1>7 DEF FileInv, DoneDropped

\* The files that are open have numbers up to that of the last one.
LEMMA RegistryBound ==
    ASSUME FileInv
    PROVE  registry \in Nat /\ MaxFiles \in Nat /\ registry <= MaxFiles
           /\ \A h \in Open : h \in Handles /\ h <= registry
<1>1. MaxFiles \in Nat
  BY FilesAssumption
<1>2. registry \in 0..MaxFiles
  BY DEF FileInv, Types
<1>3. Registered
  BY DEF FileInv
<1> QED BY <1>1, <1>2, <1>3 DEF Registered, Open

\* A new file, which may be the output: it has to be sound, and so have the
\* files that are open after what opening it did to the host.
LEMMA Opens ==
    ASSUME FileInv, NEW h \in Handles, h = registry + 1, NEW f \in FileState,
           files' = [files EXCEPT ![h] = f], registry' = h,
           f.st = "open", ~f.done, output' \in {output, h},
           f.writable /\ f.path \in Paths => Writers(f.path) = {},
           f.path \in Paths \cup {h},
           disk' \in [Paths -> Texts], text' \in [Paths \cup Handles -> Texts],
           SoundFile(h)',
           \A g \in Open : SoundFile(g)',
           \A g \in Open : Stored(g) /\ ~Reachable(g) =>
               (files[g].path \in failed => files[g].path \in failed'),
           \A p \in Paths : Writers(p) = {} /\ ~(f.writable /\ p = f.path) /\ p \notin failed'
               => disk'[p] = text'[p]
    PROVE  FileInv' /\ (DoneDropped => DoneDropped')
<1>1. h \notin Open /\ registry \in Nat /\ registry' \in 0..MaxFiles
  BY RegistryBound DEF Handles
<1>2. Open' = Open \cup {h} /\ files'[h] = f /\ \A g \in Open : files'[g] = files[g]
  BY <1>1 DEF FileInv, Types, Open
<1>3. Types'
  BY <1>1 DEF FileInv, Types, Handles
<1>4. FilesSound'
  <2>1. ASSUME NEW g \in Open' PROVE SoundFile(g)'
    <3>1. CASE g = h
      BY <3>1
    <3>2. CASE g \in Open
      BY <3>2
    <3> QED BY <1>2, <2>1, <3>1, <3>2
  <2> QED BY <2>1 DEF FilesSound
<1>5. Registered'
  BY <1>2 DEF FileInv, Types, Registered, Handles, Open
<1>6. OneWriter'
  <2>1. ASSUME NEW g \in Open, files[g].writable, f.writable PROVE files[g].path # f.path
    <3>1. files[g].path \in Paths \cup {g}
      BY <2>1 DEF FileInv, FilesSound, SoundFile
    <3>2. g # h /\ h \notin Paths
      BY <1>1, FilesAssumption DEF Handles
    <3>3. g \notin Paths
      BY FilesAssumption DEF Open, Handles
    <3> QED BY <2>1, <3>1, <3>2, <3>3 DEF Writers
  <2> QED BY <1>2, <2>1 DEF FileInv, OneWriter
<1>7. ClosedFilesAreWritten'
  <2>1. ASSUME NEW p \in Paths, Writers(p)' = {} PROVE Writers(p) = {} /\ ~(f.writable /\ p = f.path)
    BY <1>1, <1>2, <2>1 DEF Writers
  <2> QED BY <2>1 DEF ClosedFilesAreWritten
<1>8. ASSUME DoneDropped PROVE DoneDropped'
  BY <1>1, <1>2, <1>8 DEF DoneDropped, Dropped, Reachable, Stored
<1> QED BY <1>3, <1>4, <1>5, <1>6, <1>7, <1>8 DEF FileInv

-----------------------------------------------------------------------------
(* The flush.                                                              *)

\* What a flush does to the host: all of the buffer, or a failure.
LEMMA Flushing ==
    ASSUME NEW f \in FileState, NEW d \in [Paths -> Texts], NEW bad, NEW ok \in BOOLEAN,
           FlushFile(f, d, bad, ok)
    PROVE  /\ disk' \in [Paths -> Texts]
           /\ \A p \in Paths : p # f.path => disk'[p] = d[p] /\ (p \in failed' <=> p \in bad)
           /\ Flushed(f) => disk' = d /\ failed' = bad /\ ok
           /\ ~Flushed(f) => /\ f.path \in Paths /\ disk'[f.path] \in Seq(Byte) \cup {d[f.path]}
                             /\ ok => disk'[f.path] = f.content
                             /\ ~ok => f.path \in failed'
<1>1. f.content \in Seq(Byte)
  BY DEF FileState
<1>2. CASE ok
  BY <1>1, <1>2 DEF FlushFile, Flushed, Texts
<1>3. CASE ~ok
  <2>1. ~Flushed(f) /\ f.path \in Paths /\ failed' = bad \cup {f.path}
    BY <1>3 DEF FlushFile, Flushed
  <2>2. disk' = d \/ \E k \in 0..Len(f.content)-1 : disk' = [d EXCEPT ![f.path] = SubSeq(f.content, 1, k)]
    BY <1>3 DEF FlushFile
  <2>3. CASE disk' = d
    BY <1>3, <2>1, <2>3
  <2>4. ASSUME NEW k \in 0..Len(f.content)-1, disk' = [d EXCEPT ![f.path] = SubSeq(f.content, 1, k)]
        PROVE  /\ disk' \in [Paths -> Texts] /\ disk'[f.path] \in Seq(Byte)
               /\ \A p \in Paths : p # f.path => disk'[p] = d[p]
    <3>1. SubSeq(f.content, 1, k) \in Seq(Byte)
      BY <1>1, PartOfText
    <3> QED BY <2>1, <2>4, <3>1 DEF Texts
  <2> QED BY <1>3, <2>1, <2>2, <2>3, <2>4
<1> QED BY <1>2, <1>3

\* A flush of an open file, of which nothing but the buffer was changed before.
LEMMA FlushingHere ==
    ASSUME FileInv, NEW h \in Open, NEW f \in FileState, NEW ok \in BOOLEAN,
           f.writable = files[h].writable, f.path = files[h].path, f.direct = files[h].direct,
           FlushFile(f, disk, failed, ok), text' \in [Paths \cup Handles -> Texts],
           \A n \in Paths \cup Handles : ~f.writable \/ n # f.path => text'[n] = text[n]
    PROVE  /\ Elsewhere(h)
           /\ f.writable /\ f.direct => disk' = disk /\ failed' = failed
           /\ Stored(h) /\ ~f.direct /\ ok => disk'[f.path] = f.content
           /\ ~ok => Stored(h) /\ ~f.direct /\ f.path \in failed'
           /\ ~f.writable => disk' = disk /\ failed' = failed /\ ok
<1>1. disk \in [Paths -> Texts]
  BY DEF FileInv, Types
<1>2. ~f.writable \/ f.direct => Flushed(f)
  BY DEF Flushed
<1>3. Stored(h) /\ ~f.direct <=> ~Flushed(f)
  BY DEF Flushed, Stored
<1> QED BY <1>1, <1>2, <1>3, Flushing DEF Elsewhere, Texts
-----------------------------------------------------------------------------
(* What the program and the collector do.                                  *)

Keeps == FileInv' /\ (DoneDropped => DoneDropped')

\* Who can use a file has not lost it to its finalizer.
LEMMA InUse ==
    ASSUME NEW h \in Open, Reachable(h)
    PROVE  DoneDropped => ~files[h].done
  BY DEF DoneDropped, Dropped

\* An operation on a file that leaves its text where it is.
LEMMA Touch ==
    ASSUME FileInv, NEW h \in Open, NEW f \in FileState,
           files' = [files EXCEPT ![h] = f], UNCHANGED <<disk, text, failed, registry>>,
           f.st = "open", f.path = files[h].path, f.writable = files[h].writable,
           f.auto = files[h].auto, f.content = files[h].content, f.direct = files[h].direct,
           f.writable => f.pos <= Len(text[f.path]), f.direct => ~f.explicit \/ ~f.writable,
           f.done = files[h].done, output' \in {output, h}, DoneDropped => ~files[h].done
    PROVE  Keeps
<1>1. h \in Handles /\ files'[h] = f /\ SoundFile(h)
  BY DEF FileInv, FilesSound, Types, Open
<1>2. SoundFile(h)'
  BY <1>1 DEF SoundFile
<1>3. Elsewhere(h)
  BY DEF Elsewhere, FileInv, Types
<1>4. registry' = registry
  OBVIOUS
<1> QED BY <1>2, <1>3, <1>4, StaysOpen DEF Keeps

LEMMA ClosedState ==
    ASSUME NEW f \in FileState
    PROVE  Closed(f) \in FileState /\ Closed(f).st = "closed"
<1>1. <<>> \in Seq(Byte)
  BY EmptySeq
<1>2. Nil \in Paths \cup Handles \cup {Nil} /\ 0 \in Nat
  OBVIOUS
<1>3. f.gc \in {"none", "io", "lua"} /\ f.done \in BOOLEAN
  BY DEF FileState
<1>4. NoFile \in FileState
  BY <1>1, <1>2 DEF NoFile, FileState
<1>5. Closed(f) \in FileState /\ Closed(f).st = "closed"
  BY <1>3, <1>4 DEF Closed, FileState
<1> QED BY <1>5

LEMMA GoneState ==
    [NoFile EXCEPT !.st = "gone"] \in FileState /\ [NoFile EXCEPT !.st = "gone"].st = "gone"
<1>1. <<>> \in Seq(Byte)
  BY EmptySeq
<1>2. Nil \in Paths \cup Handles \cup {Nil} /\ 0 \in Nat
  OBVIOUS
<1> HIDE DEF Handles
<1>3. NoFile \in FileState
  BY <1>1, <1>2 DEF NoFile, FileState
<1> QED BY <1>3 DEF FileState

\* A step that changes no open file but perhaps its done, and no text.
LEMMA NothingElse ==
    ASSUME FileInv, files' \in [Handles -> FileState], registry' = registry,
           UNCHANGED <<disk, text, failed>>, Open' = Open,
           \A g \in Open : \E done \in BOOLEAN : files'[g] = [files[g] EXCEPT !.done = done]
    PROVE  /\ FileInv'
           /\ output' = output /\ (\A g \in Open : files'[g] = files[g]) => Keeps
<1>1. \A g \in Open : files[g] \in FileState
  BY DEF Open, FileInv, Types
<1>2. ASSUME NEW g \in Open
      PROVE  /\ files'[g].path = files[g].path /\ files'[g].writable = files[g].writable
             /\ files'[g].auto = files[g].auto /\ files'[g].content = files[g].content
             /\ files'[g].direct = files[g].direct /\ files'[g].pos = files[g].pos
             /\ files'[g].explicit = files[g].explicit
  BY <1>1, <1>2, ZenonT(60) DEF FileState
<1>3. Types'
  BY DEF FileInv, Types
<1>4. FilesSound'
  BY <1>2 DEF FileInv, FilesSound, SoundFile
<1>5. OneWriter' /\ Registered'
  BY <1>2 DEF FileInv, OneWriter, Registered
<1>6. ClosedFilesAreWritten'
  BY <1>2 DEF FileInv, ClosedFilesAreWritten, Writers
<1>7. FileInv'
  BY <1>3, <1>4, <1>5, <1>6 DEF FileInv
<1>8. ASSUME output' = output, \A g \in Open : files'[g] = files[g] PROVE Keeps
  BY <1>7, <1>8 DEF Keeps, DoneDropped, Dropped, Reachable, Stored
<1> QED BY <1>7, <1>8

LEMMA SetGcKeeps ==
    ASSUME FileInv, NEW h \in Mine, SetGc(h)
    PROVE  Keeps
<1> DEFINE f == [files[h] EXCEPT !.gc = "lua"]
<1>1. h \in Open /\ Reachable(h) /\ files[h] \in FileState
  BY DEF Mine, Open, FileInv, Types
<1>2. f \in FileState /\ files' = [files EXCEPT ![h] = f]
  BY <1>1 DEF SetGc, FileState
<1>3. SoundFile(h)
  BY <1>1 DEF FileInv, FilesSound
<1>4. f.st = "open" /\ f.path = files[h].path /\ f.writable = files[h].writable
      /\ f.auto = files[h].auto /\ f.content = files[h].content /\ f.direct = files[h].direct
      /\ f.done = files[h].done /\ f.pos = files[h].pos /\ f.explicit = files[h].explicit
  BY <1>1 DEF Open, FileState
<1>5. (f.writable => f.pos <= Len(text[f.path])) /\ (f.direct => ~f.explicit \/ ~f.writable)
  BY <1>3, <1>4 DEF SoundFile
<1>6. UNCHANGED <<disk, text, failed, registry>> /\ output' = output
  BY DEF SetGc
<1> HIDE DEF f
<1> QED BY <1>1, <1>2, <1>4, <1>5, <1>6, InUse, Touch

LEMMA SeekKeeps ==
    ASSUME FileInv, NEW h \in Mine, Seek(h)
    PROVE  Keeps
<1> DEFINE f0 == files[h]
           end == IF f0.writable THEN Len(IF f0.direct THEN disk[f0.path] ELSE f0.content)
                  ELSE MaxLen
<1>1. h \in Open /\ Reachable(h) /\ files[h] \in FileState /\ SoundFile(h)
  BY DEF Mine, Open, FileInv, Types, FilesSound
<1>2. PICK pos \in 0..end : files' = [files EXCEPT ![h].pos = pos]
                            /\ UNCHANGED <<disk, text, failed, registry, output, faults>>
  BY DEF Seek
<1> DEFINE f == [files[h] EXCEPT !.pos = pos]
<1>3. files[h].writable => end = Len(text[files[h].path])
  BY <1>1 DEF SoundFile
<1>4. end \in Nat
  <2>1. CASE files[h].writable
    BY <1>1, <1>3, <2>1, LenProperties DEF SoundFile
  <2>2. CASE ~files[h].writable
    <3>1. end = MaxLen
      BY <2>2
    <3>2. MaxLen \in Nat
      BY FilesAssumption
    <3> QED BY <3>1, <3>2
  <2> QED BY <2>1, <2>2
<1>5. pos \in Nat /\ pos <= end
  BY <1>2, <1>4
<1>6. f \in FileState /\ files' = [files EXCEPT ![h] = f]
  BY <1>1, <1>2, <1>5 DEF FileState
<1>7. f.st = "open" /\ f.path = files[h].path /\ f.writable = files[h].writable
      /\ f.auto = files[h].auto /\ f.content = files[h].content /\ f.direct = files[h].direct
      /\ f.done = files[h].done /\ f.pos = pos /\ f.explicit = files[h].explicit
  BY <1>1 DEF Open, FileState
<1>8. (f.writable => f.pos <= Len(text[f.path])) /\ (f.direct => ~f.explicit \/ ~f.writable)
  BY <1>1, <1>3, <1>5, <1>7 DEF SoundFile
<1> HIDE DEF f
<1> QED BY <1>1, <1>2, <1>6, <1>7, <1>8, InUse, Touch

LEMMA SetVBufKeeps ==
    ASSUME FileInv, Risks = {}, NEW h \in Mine, NEW b \in {"no", "line", "full"}, SetVBuf(h, b)
    PROVE  Keeps
<1> DEFINE f == [files[h] EXCEPT !.buffer = b, !.explicit = TRUE]
<1>1. h \in Open /\ Reachable(h) /\ files[h] \in FileState /\ SoundFile(h)
  BY DEF Mine, Open, FileInv, Types, FilesSound
<1>2. f \in FileState /\ files' = [files EXCEPT ![h] = f]
  BY <1>1 DEF SetVBuf, FileState
<1>3. f.st = "open" /\ f.path = files[h].path /\ f.writable = files[h].writable
      /\ f.auto = files[h].auto /\ f.content = files[h].content /\ f.direct = files[h].direct
      /\ f.done = files[h].done /\ f.pos = files[h].pos
  BY <1>1 DEF Open, FileState
<1>4. (f.writable => f.pos <= Len(text[f.path])) /\ (f.direct => ~f.explicit \/ ~f.writable)
  BY <1>1, <1>3 DEF SoundFile, SetVBuf
<1>5. UNCHANGED <<disk, text, failed, registry>> /\ output' = output
  BY DEF SetVBuf
<1> HIDE DEF f
<1> QED BY <1>1, <1>2, <1>3, <1>4, <1>5, InUse, Touch


LEMMA ForgetKeeps ==
    ASSUME FileInv, NEW h \in Open, Forget(h)
    PROVE  Keeps
<1> DEFINE f == [files[h] EXCEPT !.held = FALSE]
<1>1. h \in Open /\ Reachable(h) /\ files[h] \in FileState /\ SoundFile(h)
  BY DEF Forget, Reachable, Open, FileInv, Types, FilesSound
<1>2. f \in FileState /\ files' = [files EXCEPT ![h] = f]
  BY <1>1 DEF Forget, FileState
<1>3. f.st = "open" /\ f.path = files[h].path /\ f.writable = files[h].writable
      /\ f.auto = files[h].auto /\ f.content = files[h].content /\ f.direct = files[h].direct
      /\ f.done = files[h].done /\ f.pos = files[h].pos /\ f.explicit = files[h].explicit
  BY <1>1 DEF Open, FileState
<1>4. (f.writable => f.pos <= Len(text[f.path])) /\ (f.direct => ~f.explicit \/ ~f.writable)
  BY <1>1, <1>3 DEF SoundFile
<1>5. UNCHANGED <<disk, text, failed, registry>> /\ output' = output
  BY DEF Forget
<1> HIDE DEF f
<1> QED BY <1>1, <1>2, <1>3, <1>4, <1>5, InUse, Touch

\* A file that is closed without a flush was not a writer.
LEMMA ReadFromKeeps ==
    ASSUME FileInv, NEW h \in Open, NEW format, NEW eof \in BOOLEAN, ReadFrom(h, format, eof),
           Reachable(h), files[h].writable => ~eof /\ ~files[h].direct
    PROVE  Keeps
<1>1. files[h] \in FileState /\ SoundFile(h) /\ files[h].st = "open"
  BY DEF Open, FileInv, Types, FilesSound
<1> DEFINE read == ReadOne(Seen(files[h]), files[h].pos, format)
           f == [files[h] EXCEPT !.pos = read[2]]
<1>2. Seen(files[h]) \in Seq(Byte) /\ (files[h].writable => Seen(files[h]) = text[files[h].path])
  BY <1>1 DEF SoundFile, Seen
<1>3. files[h].pos \in Nat
  BY <1>1 DEF FileState
<1>4. read[2] \in 0..Len(Seen(files[h])) /\ Len(Seen(files[h])) \in Nat
  BY <1>2, <1>3, ReadStays, LenProperties
<1>5. UNCHANGED <<disk, text, failed, registry, output>>
      /\ \/ eof /\ files' = [files EXCEPT ![h] = Closed(files[h])]
         \/ files' = [files EXCEPT ![h] = f]
  BY DEF ReadFrom
<1>6. CASE eof /\ files' = [files EXCEPT ![h] = Closed(files[h])]
  <2>1. Closed(files[h]) \in FileState /\ Closed(files[h]).st # "open"
    BY <1>1, ClosedState
  <2>2. Elsewhere(h) /\ ~Stored(h)
    BY <1>5, <1>6 DEF Elsewhere, Stored, FileInv, Types
  <2> QED BY <1>5, <1>6, <2>1, <2>2, IsOpenNoMore DEF Keeps
<1>7. CASE files' = [files EXCEPT ![h] = f]
  <2>1. f \in FileState
    BY <1>1, <1>4 DEF FileState
  <2>2. f.st = "open" /\ f.path = files[h].path /\ f.writable = files[h].writable
        /\ f.auto = files[h].auto /\ f.content = files[h].content /\ f.direct = files[h].direct
        /\ f.done = files[h].done /\ f.pos = read[2] /\ f.explicit = files[h].explicit
    BY <1>1 DEF Open, FileState
  <2>3. (f.writable => f.pos <= Len(text[f.path])) /\ (f.direct => ~f.explicit \/ ~f.writable)
    BY <1>2, <1>4, <2>2
  <2> HIDE DEF f
  <2> QED BY <1>5, <1>7, <2>1, <2>2, <2>3, InUse, Touch
<1> QED BY <1>5, <1>6, <1>7

LEMMA ReadKeeps ==
    ASSUME FileInv, Risks = {}, NEW h \in Mine, NEW format, Read(h, format)
    PROVE  Keeps
<1>1. h \in Open /\ Reachable(h) /\ ~files[h].direct /\ ReadFrom(h, format, FALSE)
  BY DEF Mine, Read
<1> QED BY <1>1, ReadFromKeeps

LEMMA NextLineKeeps ==
    ASSUME FileInv, NEW h \in Open, NextLine(h)
    PROVE  Keeps
<1>1. Reachable(h) /\ ReadFrom(h, "line", TRUE) /\ ~files[h].writable
  BY DEF NextLine, Reachable, FileInv, FilesSound, SoundFile
<1> QED BY <1>1, ReadFromKeeps

\* A file in use is flushed; a file in use, that or another one, may be the output then.
LEMMA FlushHere ==
    ASSUME FileInv, NEW h \in Open, Reachable(h), NEW ok \in BOOLEAN,
           FlushFile(files[h], disk, failed, ok), UNCHANGED <<text, files, registry>>,
           output' = output \/ (output' \in Open /\ Reachable(output'))
    PROVE  Keeps
<1>1. files[h] \in FileState /\ SoundFile(h)
  BY DEF Open, FileInv, Types, FilesSound
<1>2. files' = [files EXCEPT ![h] = files[h]] /\ files[h].st = "open"
  BY DEF FileInv, Types, Open
<1>3. text' \in [Paths \cup Handles -> Texts]
  BY DEF FileInv, Types
<1>4. /\ Elsewhere(h)
      /\ files[h].writable /\ files[h].direct => disk' = disk /\ failed' = failed
      /\ ~files[h].writable => disk' = disk /\ failed' = failed /\ ok
  BY <1>1, <1>3, FlushingHere
<1>5. SoundFile(h)'
  BY <1>1, <1>4 DEF SoundFile
<1>6. FileInv'
      /\ (DoneDropped /\ output' = output /\ ~files[h].done => DoneDropped')
      /\ (DoneDropped /\ output' \in Open /\ ~files[output'].done /\ ~files[h].done => DoneDropped')
  BY <1>1, <1>2, <1>4, <1>5, StaysOpen
<1>7. DoneDropped => ~files[h].done /\ (output' \in Open /\ Reachable(output') => ~files[output'].done)
  BY InUse
<1> QED BY <1>6, <1>7 DEF Keeps

LEMMA FlushKeeps ==
    ASSUME FileInv, NEW h \in Mine, Flush(h)
    PROVE  Keeps
<1>1. h \in Open /\ Reachable(h)
  BY DEF Mine
<1>2. PICK ok \in BOOLEAN : FlushFile(files[h], disk, failed, ok)
  BY DEF Flush
<1>3. UNCHANGED <<text, files, registry>> /\ output' = output
  BY DEF Flush
<1> QED BY <1>1, <1>2, <1>3, FlushHere

LEMMA SetOutputKeeps ==
    ASSUME FileInv, NEW h \in Mine, SetOutput(h)
    PROVE  Keeps
<1>1. h \in Open /\ Reachable(h) /\ files[h] \in FileState /\ SoundFile(h)
  BY DEF Mine, Open, FileInv, Types, FilesSound
<1>2. UNCHANGED <<text, files, registry>> /\ output' = h /\ files[h].st = "open"
  BY <1>1 DEF SetOutput, Open
<1>3. CASE output \in Open \ {h}
  <2>1. PICK ok \in BOOLEAN : FlushFile(files[output], disk, failed, ok)
    BY <1>3 DEF SetOutput
  <2>2. PICK k \in Open : k = output /\ Reachable(k)
    BY <1>3 DEF Reachable
  <2> QED BY <1>1, <1>2, <2>1, <2>2, FlushHere
<1>4. CASE output \notin Open \ {h}
  <2>1. UNCHANGED <<disk, failed>>
    BY <1>4 DEF SetOutput
  <2>2. files' = [files EXCEPT ![h] = files[h]]
    BY <1>2 DEF FileInv, Types
  <2>3. (files[h].writable => files[h].pos <= Len(text[files[h].path]))
        /\ (files[h].direct => ~files[h].explicit \/ ~files[h].writable)
    BY <1>1 DEF SoundFile
  <2> QED BY <1>1, <1>2, <2>1, <2>2, <2>3, InUse, Touch
<1> QED BY <1>3, <1>4

\* Closing a file: all of it is on the host, or it stays open as a failed one.
LEMMA Closing ==
    ASSUME FileInv, NEW h \in Open, NEW done \in BOOLEAN, CloseFile(h, done)
    PROVE  /\ FileInv' /\ (~done \/ ~Reachable(h) => Keeps)
           /\ \A g \in Open' : /\ g \in Open
                               /\ g # h => files'[g] = files[g]
                               /\ Stored(g)' => Stored(g) /\ files'[g].path = files[g].path
           /\ h \in Open' /\ Stored(h)' => files'[h].path \in failed'
           /\ \A g \in Open : g # h /\ Stored(g) =>
                  (files[g].path \in failed' <=> files[g].path \in failed)
<1>1. h \in Handles /\ files[h] \in FileState /\ SoundFile(h) /\ files[h].st = "open"
  BY DEF Open, FileInv, Types, FilesSound
<1> DEFINE f == [files[h] EXCEPT !.done = done]
<1>2. PICK ok \in BOOLEAN :
          /\ FlushFile(f, disk, failed, ok)
          /\ files' = [files EXCEPT ![h] = IF ok THEN Closed(f) ELSE f]
          /\ UNCHANGED <<text, registry, output>>
  BY DEF CloseFile
<1>3. f \in FileState
  BY <1>1 DEF FileState
<1>4. /\ f.st = "open" /\ f.path = files[h].path /\ f.writable = files[h].writable
      /\ f.auto = files[h].auto /\ f.content = files[h].content /\ f.direct = files[h].direct
      /\ f.done = done /\ f.pos = files[h].pos /\ f.explicit = files[h].explicit
      /\ f.held = files[h].held
  BY <1>1 DEF FileState
<1> HIDE DEF f
<1>5. text' = text /\ text' \in [Paths \cup Handles -> Texts]
  BY <1>2 DEF FileInv, Types
<1>6. /\ Elsewhere(h)
      /\ f.writable /\ f.direct => disk' = disk /\ failed' = failed
      /\ Stored(h) /\ ~f.direct /\ ok => disk'[f.path] = f.content
      /\ ~ok => Stored(h) /\ ~f.direct /\ f.path \in failed'
      /\ ~f.writable => disk' = disk /\ failed' = failed /\ ok
  BY <1>2, <1>3, <1>4, <1>5, FlushingHere
<1>7. ASSUME NEW g \in Open, g # h, Stored(g)
      PROVE  files[g].path \in failed' <=> files[g].path \in failed
  <2>1. ~files[h].writable \/ files[g].path # files[h].path
    BY <1>7 DEF FileInv, OneWriter, Stored
  <2> QED BY <1>7, <1>6, <2>1 DEF Elsewhere, Stored
<1>8. \A g \in Handles : g # h => files'[g] = files[g]
  BY <1>2 DEF FileInv, Types
<1>9. \A g \in Open' : g # h => g \in Open /\ files'[g] = files[g]
  BY <1>8 DEF Open
<1>10. CASE ok
  <2>1. Closed(f) \in FileState /\ Closed(f).st = "closed"
    BY <1>3, ClosedState
  <2>2. Stored(h) => disk'[files[h].path] = text'[files[h].path]
    BY <1>1, <1>4, <1>5, <1>6, <1>10 DEF SoundFile, Stored
  <2>3. files' = [files EXCEPT ![h] = Closed(f)] /\ registry' = registry /\ output' = output
    BY <1>2, <1>10
  <2>4. FileInv' /\ Keeps
    BY <1>6, <2>1, <2>2, <2>3, IsOpenNoMore DEF Keeps
  <2>5. h \notin Open'
    BY <1>1, <2>1, <2>3 DEF Open, FileInv, Types
  <2> QED BY <1>7, <1>9, <2>4, <2>5 DEF Stored
<1>11. CASE ~ok
  <2>1. files' = [files EXCEPT ![h] = f] /\ registry' = registry /\ output' = output
    BY <1>2, <1>11
  <2>2. files'[h] = f
    BY <1>1, <2>1 DEF FileInv, Types
  <2>3. SoundFile(h)'
    BY <1>1, <1>4, <1>5, <1>6, <1>11, <2>2 DEF SoundFile, Stored
  <2>4. /\ FileInv'
        /\ DoneDropped /\ ~done => DoneDropped'
        /\ DoneDropped /\ ~f.held /\ output # h => DoneDropped'
    BY <1>3, <1>4, <1>6, <1>11, <2>1, <2>3, StaysOpen
  <2>5. ~done \/ ~Reachable(h) => Keeps
    BY <1>4, <2>4 DEF Keeps, Reachable
  <2> QED BY <1>4, <1>6, <1>7, <1>9, <1>11, <2>2, <2>4, <2>5 DEF Stored
<1> QED BY <1>10, <1>11

LEMMA CloseKeeps ==
    ASSUME FileInv, NEW h \in Mine, Close(h)
    PROVE  Keeps
<1>1. h \in Open /\ Reachable(h) /\ files[h].done \in BOOLEAN /\ CloseFile(h, files[h].done)
  BY DEF Mine, Open, FileInv, Types, FileState, Close
<1>2. FileInv' /\ (~files[h].done => Keeps)
  BY <1>1, Closing
<1>3. DoneDropped => ~files[h].done
  BY <1>1, InUse
<1> QED BY <1>2, <1>3 DEF Keeps

LEMMA FinalizeKeeps ==
    ASSUME FileInv, NEW h \in Handles, Finalize(h)
    PROVE  Keeps
<1>1. h \in Open /\ ~Reachable(h) /\ CloseFile(h, TRUE)
  BY DEF Finalize
<1> QED BY <1>1, Closing

\* What was finalized and is destroyed is on the host or could not get there.
LEMMA DestroyKeeps ==
    ASSUME FileInv, DoneDropped, NEW h \in Handles, Destroy(h)
    PROVE  Keeps
<1> DEFINE f == [NoFile EXCEPT !.st = "gone"]
<1>1. f \in FileState /\ f.st = "gone"
  BY GoneState
<1>2. files' = [files EXCEPT ![h] = f] /\ UNCHANGED <<disk, text, failed, registry, output>>
  BY DEF Destroy
<1> HIDE DEF f
<1>3. CASE h \in Open
  <2>1. Elsewhere(h)
    BY <1>2 DEF Elsewhere, FileInv, Types
  <2>2. files[h].done
    BY <1>3 DEF Destroy, Open
  <2>3. Stored(h) => files[h].path \in failed'
    BY <1>2, <1>3, <2>2 DEF DoneDropped, Dropped
  <2> QED BY <1>1, <1>2, <1>3, <2>1, <2>3, IsOpenNoMore DEF Keeps
<1>4. CASE h \notin Open
  <2>1. Open' = Open /\ \A g \in Open : files'[g] = files[g]
    BY <1>1, <1>2, <1>4 DEF Open, FileInv, Types
  <2>2. files' \in [Handles -> FileState]
    BY <1>1, <1>2 DEF FileInv, Types
  <2>3. ASSUME NEW g \in Open PROVE \E done \in BOOLEAN : files'[g] = [files[g] EXCEPT !.done = done]
    <3>1. files[g] \in FileState
      BY DEF Open, FileInv, Types
    <3>2. files[g] = [files[g] EXCEPT !.done = files[g].done] /\ files[g].done \in BOOLEAN
      BY <3>1 DEF FileState
    <3> QED BY <2>1, <3>2
  <2>4. registry' = registry /\ UNCHANGED <<disk, text, failed>> /\ output' = output
    BY <1>2
  <2> QED BY <2>1, <2>2, <2>3, <2>4, NothingElse
<1> QED BY <1>3, <1>4

-----------------------------------------------------------------------------
(* Opening files.                                                          *)

LEMMA NewFileState ==
    ASSUME NEW name \in Paths \cup Handles, NEW m, NEW c \in Seq(Byte), NEW auto \in BOOLEAN
    PROVE  NewFile(name, m, c, auto) \in FileState
<1>1. Len(c) \in Nat /\ <<>> \in Seq(Byte)
  BY LenProperties, EmptySeq
<1>2. (IF m \in {"a", "a+"} THEN Len(c) ELSE 0) \in Nat /\ (IF m = "r" THEN <<>> ELSE c) \in Seq(Byte)
  BY <1>1
<1> HIDE DEF Handles
<1> QED BY <1>2 DEF NewFile, FileState

\* What a file can be opened with, and where it is registered.
LEMMA Prepared ==
    ASSUME FileInv, NEW p \in Paths, NEW m, NEW c, Prepare(p, m, c), NEW file, Publish(file)
    PROVE  /\ c \in Seq(Byte) /\ (m = "r" => disk[p] = c) /\ (m # "r" => Writers(p) = {})
           /\ registry + 1 \in Handles
<1>1. disk[p] \in Seq(Byte) \cup {Nil} /\ <<>> \in Seq(Byte)
  BY EmptySeq DEF FileInv, Types, Texts
<1>2. registry \in Nat /\ MaxFiles \in Nat /\ registry < MaxFiles
  BY RegistryBound DEF Publish
<1> QED BY <1>1, <1>2 DEF Prepare, Handles

LEMMA OpenKeeps ==
    ASSUME FileInv, NEW p \in Paths, NEW m, NEW auto \in BOOLEAN, auto => m = "r",
           OpenFile(p, m, auto)
    PROVE  Keeps
<1>1. PICK c : /\ Prepare(p, m, c) /\ Publish(NewFile(p, m, c, auto))
               /\ disk' = Opened(disk, p, m, c) /\ text' = Opened(text, p, m, c)
               /\ failed' = IF m = "r" THEN failed ELSE failed \ {p}
               /\ output' = output
  BY DEF OpenFile
<1>2. /\ c \in Seq(Byte) /\ (m = "r" => disk[p] = c) /\ (m # "r" => Writers(p) = {})
      /\ registry + 1 \in Handles
  BY <1>1, Prepared
<1>3. PICK h \in Handles : h = registry + 1
  BY <1>2
<1>4. PICK f \in FileState : f = NewFile(p, m, c, auto)
  BY <1>2, NewFileState
<1>5. files' = [files EXCEPT ![h] = f] /\ registry' = h
  BY <1>1, <1>3, <1>4 DEF Publish
<1>6. /\ f.st = "open" /\ ~f.done /\ f.path = p /\ ~f.direct
      /\ f.writable = (m # "r") /\ f.auto = auto
      /\ m # "r" => f.content = c /\ (f.pos = 0 \/ f.pos = Len(c))
  BY <1>4 DEF NewFile
<1>7. disk' \in [Paths -> Texts] /\ text' \in [Paths \cup Handles -> Texts]
  BY <1>1, <1>2 DEF Opened, FileInv, Types, Texts
<1>8. files'[h] = f
  BY <1>5 DEF FileInv, Types
<1>9. /\ m = "r" => disk' = disk /\ text' = text /\ failed' = failed
      /\ m # "r" => disk'[p] = c /\ text'[p] = c
      /\ \A q \in Paths : q # p => disk'[q] = disk[q] /\ (q \in failed' <=> q \in failed)
      /\ \A n \in Paths \cup Handles : n # p => text'[n] = text[n]
  BY <1>1 DEF Opened, FileInv, Types
<1>10. SoundFile(h)'
  <2>1. CASE m = "r"
    BY <1>2, <1>6, <1>8, <1>9, <2>1 DEF SoundFile
  <2>2. CASE m # "r"
    <3>1. f.pos <= Len(c)
      BY <1>2, <1>6, <2>2, LenProperties
    <3> QED BY <1>2, <1>6, <1>8, <1>9, <2>2, <3>1 DEF SoundFile
  <2> QED BY <2>1, <2>2
<1>11. \A g \in Open : files'[g] = files[g]
  BY <1>3, <1>5, RegistryBound DEF FileInv, Types
<1>12. ASSUME NEW g \in Open PROVE SoundFile(g)'
  <2>1. SoundFile(g) /\ files'[g] = files[g] /\ g \in Handles
    BY <1>11 DEF FileInv, FilesSound, Open
  <2>2. CASE m = "r"
    BY <1>9, <2>1, <2>2 DEF SoundFile
  <2>3. CASE m # "r" /\ files[g].writable
    <3>1. files[g].path # p
      BY <1>2, <2>3 DEF Writers
    <3> QED BY <1>9, <2>1, <2>3, <3>1 DEF SoundFile
  <2>4. CASE m # "r" /\ ~files[g].writable
    <3>1. files[g].path \in Paths /\ disk[files[g].path] \in Seq(Byte)
      BY <2>1, <2>4 DEF SoundFile
    <3>2. disk'[files[g].path] \in Seq(Byte)
      BY <1>2, <1>9, <2>4, <3>1
    <3> QED BY <2>1, <2>4, <3>1, <3>2 DEF SoundFile
  <2> QED BY <2>2, <2>3, <2>4
<1>13. ASSUME NEW g \in Open, Stored(g), files[g].path \in failed PROVE files[g].path \in failed'
  BY <1>2, <1>9, <1>13 DEF Stored, Writers
<1>14. ASSUME NEW q \in Paths, Writers(q) = {}, ~(f.writable /\ q = f.path), q \notin failed'
       PROVE  disk'[q] = text'[q]
  BY <1>6, <1>9, <1>14 DEF FileInv, ClosedFilesAreWritten
<1>15. (f.writable /\ f.path \in Paths => Writers(f.path) = {}) /\ f.path \in Paths \cup {h}
  BY <1>2, <1>6
<1>16. output' \in {output, h}
  BY <1>1
<1> QED BY <1>3, <1>5, <1>6, <1>7, <1>10, <1>12, <1>13, <1>14, <1>15, <1>16, Opens DEF Keeps

LEMMA TmpFileKeeps ==
    ASSUME FileInv, TmpFile
    PROVE  Keeps
<1>1. registry \in Nat /\ MaxFiles \in Nat /\ registry < MaxFiles
  BY RegistryBound DEF TmpFile, Publish
<1>2. PICK h \in Handles : h = registry + 1
  BY <1>1 DEF Handles
<1>3. <<>> \in Seq(Byte)
  BY EmptySeq
<1>4. PICK f \in FileState : f = NewFile(h, "w+", <<>>, FALSE)
  BY <1>3, NewFileState
<1>5. files' = [files EXCEPT ![h] = f] /\ registry' = h
  BY <1>2, <1>4 DEF TmpFile, Publish
<1>6. f.st = "open" /\ ~f.done /\ f.path = h /\ f.writable /\ ~f.direct /\ ~f.auto
      /\ f.content = <<>> /\ f.pos = 0
  BY <1>4 DEF NewFile
<1>7. disk' = disk /\ failed' = failed /\ output' = output /\ text' = [text EXCEPT ![h] = <<>>]
  BY <1>2 DEF TmpFile
<1>8. h \notin Paths /\ h \notin Open /\ files'[h] = f /\ \A g \in Open : files'[g] = files[g]
  <2>1. h \notin Paths
    BY FilesAssumption DEF Handles
  <2>2. h \notin Open
    BY <1>1, <1>2, RegistryBound
  <2> QED BY <1>5, <2>1, <2>2 DEF FileInv, Types, Open
<1>9. disk' \in [Paths -> Texts] /\ text' \in [Paths \cup Handles -> Texts]
  BY <1>3, <1>7 DEF FileInv, Types, Texts
<1>10. text'[h] = <<>> /\ \A n \in Paths \cup Handles : n # h => text'[n] = text[n]
  BY <1>7 DEF FileInv, Types
<1>11. SoundFile(h)'
  <2>1. f.pos <= Len(<<>>)
    BY <1>6, EmptySeq
  <2> QED BY <1>3, <1>6, <1>8, <1>10, <2>1 DEF SoundFile
<1>12. ASSUME NEW g \in Open PROVE SoundFile(g)'
  <2>1. SoundFile(g) /\ files'[g] = files[g] /\ g \in Handles /\ g # h
    BY <1>8 DEF FileInv, FilesSound, Open
  <2>2. files[g].writable => files[g].path \in Paths \cup {g} /\ files[g].path # h
    BY <1>8, <2>1 DEF SoundFile
  <2> QED BY <1>7, <1>10, <2>1, <2>2 DEF SoundFile
<1>13. \A q \in Paths : Writers(q) = {} /\ q \notin failed' => disk'[q] = text'[q]
  BY <1>7, <1>8, <1>10 DEF FileInv, ClosedFilesAreWritten
<1> QED BY <1>2, <1>5, <1>6, <1>7, <1>8, <1>9, <1>11, <1>12, <1>13, Opens DEF Keeps

\* The output before is flushed, which touches no path that is opened here.
LEMMA OutputToKeeps ==
    ASSUME FileInv, NEW p \in Paths, OutputTo(p)
    PROVE  Keeps
<1> DEFINE d == [disk EXCEPT ![p] = <<>>]
           bad == failed \ {p}
           o == files[output]
<1>1. /\ Prepare(p, "w", <<>>) /\ Publish(NewFile(p, "w", <<>>, FALSE))
      /\ text' = [text EXCEPT ![p] = <<>>] /\ output' = registry + 1
      /\ IF output \in Open THEN \E ok \in BOOLEAN : FlushFile(o, d, bad, ok)
         ELSE disk' = d /\ failed' = bad
  BY DEF OutputTo, Opened
<1>2. <<>> \in Seq(Byte) /\ Writers(p) = {} /\ registry + 1 \in Handles
  BY <1>1, EmptySeq, Prepared
<1>3. PICK h \in Handles : h = registry + 1
  BY <1>2
<1>4. PICK f \in FileState : f = NewFile(p, "w", <<>>, FALSE)
  BY <1>2, NewFileState
<1>5. files' = [files EXCEPT ![h] = f] /\ registry' = h /\ output' = h
  BY <1>1, <1>3, <1>4 DEF Publish
<1>6. f.st = "open" /\ ~f.done /\ f.path = p /\ f.writable /\ ~f.direct /\ ~f.auto
      /\ f.content = <<>> /\ f.pos = 0
  BY <1>4 DEF NewFile
<1>7. text' \in [Paths \cup Handles -> Texts] /\ text'[p] = <<>>
      /\ \A n \in Paths \cup Handles : n # p => text'[n] = text[n]
  BY <1>1, <1>2 DEF FileInv, Types, Texts
<1>8. d \in [Paths -> Texts] /\ d[p] = <<>> /\ \A q \in Paths : q # p => d[q] = disk[q]
  BY <1>2 DEF FileInv, Types, Texts
<1>9. ASSUME output \in Open, o.writable PROVE o.path # p
  BY <1>2, <1>9 DEF Writers
<1>10. ASSUME output \in Open PROVE o \in FileState /\ SoundFile(output)
  BY <1>10 DEF Open, FileInv, Types, FilesSound
<1> HIDE DEF d, bad
<1>11. /\ disk' \in [Paths -> Texts]
       /\ \A q \in Paths : ~(output \in Open /\ o.writable /\ q = o.path) =>
              disk'[q] = d[q] /\ (q \in failed' <=> q \in bad)
       /\ output \in Open /\ o.writable /\ o.path \in Paths =>
              disk'[o.path] \in Seq(Byte) \cup {d[o.path]} /\ (o.direct => disk'[o.path] = d[o.path])
  <2>1. CASE output \in Open
    <3>1. PICK ok \in BOOLEAN : FlushFile(o, d, bad, ok)
      BY <1>1, <2>1
    <3>2. /\ disk' \in [Paths -> Texts]
          /\ \A q \in Paths : q # o.path => disk'[q] = d[q] /\ (q \in failed' <=> q \in bad)
          /\ Flushed(o) => disk' = d /\ failed' = bad
          /\ ~Flushed(o) => o.path \in Paths /\ disk'[o.path] \in Seq(Byte) \cup {d[o.path]}
      BY <1>8, <1>10, <2>1, <3>1, Flushing
    <3>3. ~o.writable \/ o.direct => Flushed(o)
      BY DEF Flushed
    <3> QED BY <2>1, <3>2, <3>3
  <2>2. CASE output \notin Open
    BY <1>1, <1>8, <2>2
  <2> QED BY <2>1, <2>2
<1>12. files'[h] = f /\ \A g \in Open : files'[g] = files[g]
  BY <1>3, <1>5, RegistryBound DEF FileInv, Types
<1>13. SoundFile(h)'
  <2>1. f.pos <= Len(<<>>)
    BY <1>6, EmptySeq
  <2> QED BY <1>2, <1>6, <1>7, <1>12, <2>1 DEF SoundFile
<1>14. ASSUME NEW g \in Open PROVE SoundFile(g)'
  <2>1. SoundFile(g) /\ files'[g] = files[g] /\ g \in Handles
    BY <1>12 DEF FileInv, FilesSound, Open
  <2>2. CASE files[g].writable
    <3>1. files[g].path # p /\ files[g].path \in Paths \cup {g}
      BY <1>2, <2>1, <2>2 DEF Writers, SoundFile
    <3>2. text'[files[g].path] = text[files[g].path]
      BY <1>7, <2>1, <3>1
    <3>3. ASSUME files[g].direct PROVE disk'[files[g].path] = disk[files[g].path]
      <4>1. files[g].path \in Paths
        BY <2>1, <2>2, <3>3 DEF SoundFile
      <4>2. CASE output \in Open /\ o.writable /\ files[g].path = o.path
        <5>1. g = output
          BY <2>2, <4>2 DEF FileInv, OneWriter
        <5> QED BY <1>8, <1>11, <3>1, <3>3, <4>1, <4>2, <5>1
      <4>3. CASE ~(output \in Open /\ o.writable /\ files[g].path = o.path)
        BY <1>8, <1>11, <3>1, <4>1, <4>3
      <4> QED BY <4>2, <4>3
    <3> QED BY <2>1, <2>2, <3>2, <3>3 DEF SoundFile
  <2>3. CASE ~files[g].writable
    <3>1. files[g].path \in Paths /\ disk[files[g].path] \in Seq(Byte)
      BY <2>1, <2>3 DEF SoundFile
    <3>2. d[files[g].path] \in Seq(Byte)
      BY <1>2, <1>8, <3>1
    <3>3. disk'[files[g].path] \in Seq(Byte)
      BY <1>11, <3>1, <3>2
    <3> QED BY <2>1, <2>3, <3>1, <3>3 DEF SoundFile
  <2> QED BY <2>2, <2>3
<1>15. ASSUME NEW g \in Open, Stored(g), ~Reachable(g), files[g].path \in failed
       PROVE  files[g].path \in failed'
  <2>1. g # output /\ files[g].path # p /\ files[g].path \in Paths /\ files[g].writable
    BY <1>2, <1>15 DEF Stored, Reachable, Writers
  <2>2. ~(output \in Open /\ o.writable /\ files[g].path = o.path)
    BY <2>1 DEF FileInv, OneWriter
  <2> QED BY <1>11, <1>15, <2>1, <2>2 DEF bad
<1>16. ASSUME NEW q \in Paths, Writers(q) = {}, ~(f.writable /\ q = f.path), q \notin failed'
       PROVE  disk'[q] = text'[q]
  <2>1. q # p /\ ~(output \in Open /\ o.writable /\ q = o.path)
    BY <1>6, <1>16 DEF Writers
  <2>2. disk'[q] = disk[q] /\ text'[q] = text[q] /\ q \notin failed
    BY <1>7, <1>8, <1>11, <1>16, <2>1 DEF bad
  <2> QED BY <1>16, <2>2 DEF FileInv, ClosedFilesAreWritten
<1>17. (f.writable /\ f.path \in Paths => Writers(f.path) = {}) /\ f.path \in Paths \cup {h}
       /\ output' \in {output, h}
  BY <1>2, <1>5, <1>6
<1>18. registry' = h /\ disk' \in [Paths -> Texts] /\ text' \in [Paths \cup Handles -> Texts]
  BY <1>5, <1>7, <1>11
<1>19. files' = [files EXCEPT ![h] = f] /\ f.st = "open" /\ ~f.done /\ h = registry + 1
  BY <1>3, <1>5, <1>6
<1> HIDE DEF o
<1>20. FileInv' /\ (DoneDropped => DoneDropped')
  BY ONLY FileInv, <1>13, <1>14, <1>15, <1>16, <1>17, <1>18, <1>19, Opens
<1> QED BY <1>20 DEF Keeps

-----------------------------------------------------------------------------
(* Writing.                                                                *)

\* What a write may assume of its file: where the text is.
LEMMA Writing ==
    ASSUME FileInv, NEW h \in Mine, files[h].writable
    PROVE  LET f == files[h] IN
           /\ h \in Open /\ Reachable(h) /\ f \in FileState /\ SoundFile(h) /\ f.st = "open"
           /\ f.path \in Paths \cup Handles /\ text[f.path] \in Seq(Byte)
           /\ f.pos \in 0..Len(text[f.path])
           /\ (IF f.direct THEN disk[f.path] ELSE f.content) = text[f.path]
<1>1. h \in Open /\ Reachable(h) /\ files[h] \in FileState /\ SoundFile(h) /\ h \in Handles
      /\ files[h].st = "open"
  BY DEF Mine, Open, FileInv, Types, FilesSound
<1>2. files[h].pos \in Nat /\ text[files[h].path] \in Seq(Byte)
      /\ files[h].pos <= Len(text[files[h].path])
  BY <1>1 DEF FileState, SoundFile
<1>3. files[h].pos \in 0..Len(text[files[h].path])
  BY <1>2, LenProperties
<1> QED BY <1>1, <1>2, <1>3 DEF SoundFile

\* The text of a file that is open on a path changes, on the host too.
LEMMA ElsewhereWritten ==
    ASSUME FileInv, NEW h \in Open, files[h].writable, files[h].path \in Paths,
           NEW t \in Seq(Byte),
           disk' = [disk EXCEPT ![files[h].path] = t], text' = [text EXCEPT ![files[h].path] = t],
           failed' = failed \ {files[h].path}
    PROVE  Elsewhere(h) /\ disk'[files[h].path] = t /\ text'[files[h].path] = t
  BY DEF Elsewhere, FileInv, Types, Texts

LEMMA WriteDirectKeeps ==
    ASSUME FileInv, NEW h \in Mine, files[h].writable, NEW s \in Seq(Byte), WriteDirect(h, s)
    PROVE  Keeps
<1> DEFINE f == files[h]
           base == IF f.direct THEN disk[f.path] ELSE f.content
<1>1. /\ h \in Open /\ Reachable(h) /\ f \in FileState /\ SoundFile(h) /\ f.st = "open"
      /\ text[f.path] \in Seq(Byte) /\ f.pos \in 0..Len(text[f.path]) /\ base = text[f.path]
  BY Writing
<1>2. f.path \in Paths /\ ~f.explicit /\ registry' = registry /\ output' = output
  BY DEF WriteDirect, Direct
<1>3. ASSUME NEW w \in Seq(Byte), NEW k \in Nat,
             disk' = [disk EXCEPT ![f.path] = Overwrite(base, f.pos, w)],
             text' = Written(f, w), failed' = failed \ {f.path},
             k = 0 \/ k = Len(w),
             files' = [files EXCEPT ![h] = [f EXCEPT !.direct = TRUE, !.pos = f.pos + k]]
      PROVE  Keeps
  <2> DEFINE t == Overwrite(text[f.path], f.pos, w)
             g == [f EXCEPT !.direct = TRUE, !.pos = f.pos + k]
  <2>1. t \in Seq(Byte) /\ Len(t) >= f.pos + Len(w) /\ WriteAt(text[f.path], f.pos, w) = t
    BY <1>1, OverwriteText
  <2>2. text' = [text EXCEPT ![f.path] = t] /\ disk' = [disk EXCEPT ![f.path] = t]
    BY <1>1, <1>3, <2>1 DEF Written
  <2> HIDE DEF t
  <2>3. Elsewhere(h) /\ disk'[f.path] = t /\ text'[f.path] = t
    BY <1>1, <1>2, <1>3, <2>1, <2>2, ElsewhereWritten
  <2>4. f.pos + k <= Len(t) /\ f.pos + k \in Nat
    BY <1>1, <1>3, <2>1, LenProperties
  <2>5. g \in FileState /\ g.st = "open" /\ g.writable = f.writable /\ g.path = f.path
        /\ g.auto = f.auto /\ g.direct /\ g.explicit = f.explicit /\ g.pos = f.pos + k
        /\ g.done = f.done
    BY <1>1, <2>4 DEF FileState
  <2>6. files'[h] = g
    BY <1>1, <1>3 DEF FileInv, Types, Open
  <2> HIDE DEF g
  <2>7. SoundFile(h)'
    BY <1>1, <1>2, <2>1, <2>3, <2>4, <2>5, <2>6 DEF SoundFile
  <2> QED BY <1>1, <1>2, <1>3, <2>3, <2>5, <2>7, InUse, StaysOpen DEF Keeps, g
<1>4. CASE /\ disk' = [disk EXCEPT ![f.path] = Overwrite(base, f.pos, s)]
           /\ files' = [files EXCEPT ![h].direct = TRUE, ![h].pos = f.pos + Len(s)]
           /\ text' = Written(f, s) /\ failed' = failed \ {f.path}
  <2>1. files' = [files EXCEPT ![h] = [f EXCEPT !.direct = TRUE, !.pos = f.pos + Len(s)]]
    BY <1>1, <1>4 DEF FileInv, Types, Open
  <2>2. Len(s) \in Nat
    BY LenProperties
  <2> QED BY <1>3, <1>4, <2>1, <2>2
<1>5. CASE ~f.direct /\ FlushFile(f, disk, failed, FALSE) /\ UNCHANGED <<files, text>>
  <2>1. text' = text /\ files' = [files EXCEPT ![h] = f]
        /\ text' \in [Paths \cup Handles -> Texts]
    BY <1>1, <1>5 DEF FileInv, Types, Open
  <2>2. Elsewhere(h)
    BY <1>1, <1>5, <2>1, FlushingHere
  <2>3. SoundFile(h)'
    BY <1>1, <1>5 DEF SoundFile
  <2> QED BY <1>1, <1>2, <2>1, <2>2, <2>3, InUse, StaysOpen DEF Keeps
<1>6. ASSUME NEW k \in 0..Len(s)-1,
             disk' = [disk EXCEPT ![f.path] = Overwrite(base, f.pos, SubSeq(s, 1, k))],
             files' = [files EXCEPT ![h].direct = TRUE],
             text' = Written(f, SubSeq(s, 1, k)), failed' = failed \ {f.path}
      PROVE  Keeps
  <2>1. SubSeq(s, 1, k) \in Seq(Byte)
    BY PartOfText
  <2>2. f.pos \in Nat /\ f.pos + 0 = f.pos
    BY <1>1 DEF FileState
  <2>3. [f EXCEPT !.direct = TRUE, !.pos = f.pos + 0] = [f EXCEPT !.direct = TRUE]
    BY <1>1, <2>2 DEF FileState
  <2>4. files' = [files EXCEPT ![h] = [f EXCEPT !.direct = TRUE, !.pos = f.pos + 0]]
    BY <1>1, <1>6, <2>3 DEF FileInv, Types, Open
  <2> QED BY <1>3, <1>6, <2>1, <2>4
<1> QED BY <1>4, <1>5, <1>6 DEF WriteDirect

LEMMA WriteBufferedKeeps ==
    ASSUME FileInv, NEW h \in Mine, files[h].writable, NEW s \in Seq(Byte), WriteBuffered(h, s)
    PROVE  Keeps
<1> DEFINE f == files[h]
           t == WriteAt(f.content, f.pos, s)
           g == [f EXCEPT !.content = t, !.pos = f.pos + Len(s)]
<1>1. /\ h \in Open /\ Reachable(h) /\ f \in FileState /\ SoundFile(h) /\ f.st = "open"
      /\ f.path \in Paths \cup Handles /\ text[f.path] \in Seq(Byte)
      /\ f.pos \in 0..Len(text[f.path])
  BY Writing
<1>2. ~f.direct /\ f.content = text[f.path]
  BY <1>1 DEF WriteBuffered, Direct, SoundFile
<1>3. t \in Seq(Byte) /\ Len(t) >= f.pos + Len(s)
  BY <1>1, <1>2, OverwriteText
<1> HIDE DEF t
<1>4. f.pos + Len(s) \in Nat /\ f.pos + Len(s) <= Len(t)
  BY <1>1, <1>3, LenProperties
<1>5. g \in FileState /\ g.st = "open" /\ g.writable = f.writable /\ g.path = f.path
      /\ g.auto = f.auto /\ g.direct = f.direct /\ g.explicit = f.explicit
      /\ g.content = t /\ g.pos = f.pos + Len(s) /\ g.done = f.done
  BY <1>1, <1>3, <1>4 DEF FileState
<1>6. /\ files' = [files EXCEPT ![h] = g] /\ text' = [text EXCEPT ![f.path] = t]
      /\ (\E ok \in BOOLEAN : FlushFile(g, disk, failed, ok)) \/ UNCHANGED <<disk, failed>>
      /\ registry' = registry /\ output' = output
  BY <1>2 DEF WriteBuffered, Written, t
<1> HIDE DEF g
<1>7. /\ text' \in [Paths \cup Handles -> Texts] /\ text'[f.path] = t
      /\ \A n \in Paths \cup Handles : n # f.path => text'[n] = text[n]
  BY <1>1, <1>3, <1>6 DEF FileInv, Types, Texts
<1>8. Elsewhere(h)
  <2>1. CASE UNCHANGED <<disk, failed>>
    BY <1>7, <2>1 DEF Elsewhere, FileInv, Types
  <2>2. ASSUME NEW ok \in BOOLEAN, FlushFile(g, disk, failed, ok) PROVE Elsewhere(h)
    <3>1. /\ g.writable = files[h].writable /\ g.path = files[h].path
          /\ g.direct = files[h].direct /\ h \in Open /\ g \in FileState
          /\ text' \in [Paths \cup Handles -> Texts]
          /\ \A n \in Paths \cup Handles : ~g.writable \/ n # g.path => text'[n] = text[n]
      BY <1>1, <1>5, <1>7
    <3> QED BY ONLY FileInv, <2>2, <3>1, FlushingHere
  <2> QED BY <1>6, <2>1, <2>2
<1>9. files'[h] = g
  BY <1>1, <1>6 DEF FileInv, Types, Open
<1>10. SoundFile(h)'
  BY <1>1, <1>2, <1>3, <1>4, <1>5, <1>7, <1>9 DEF SoundFile
<1> QED BY <1>1, <1>5, <1>6, <1>8, <1>10, InUse, StaysOpen DEF Keeps

-----------------------------------------------------------------------------

\* All that the program does, and the collector.
LEMMA ProgramKeeps ==
    ASSUME Risks = {}, FileInv, Program
    PROVE  Keeps
<1>1. ASSUME NEW p \in Paths, NEW m \in Modes, OpenFile(p, m, FALSE) PROVE Keeps
  BY <1>1, OpenKeeps
<1>2. ASSUME NEW p \in Paths, OpenFile(p, "r", TRUE) PROVE Keeps
  BY <1>2, OpenKeeps
<1>3. ASSUME NEW p \in Paths, OutputTo(p) PROVE Keeps
  BY <1>3, OutputToKeeps
<1>4. CASE TmpFile
  BY <1>4, TmpFileKeeps
<1>5. ASSUME NEW h \in Mine, Use(h) PROVE Keeps
  <2>1. CASE Flush(h)
    BY <2>1, FlushKeeps
  <2>2. CASE Close(h)
    BY <2>2, CloseKeeps
  <2>3. CASE SetOutput(h)
    BY <2>3, SetOutputKeeps
  <2>4. CASE Seek(h)
    BY <2>4, SeekKeeps
  <2>5. CASE SetGc(h)
    BY <2>5, SetGcKeeps
  <2>6. ASSUME NEW s \in Writes, Write(h, s) PROVE Keeps
    <3>1. s \in Seq(Byte) /\ files[h].writable
      BY <2>6, FilesAssumption DEF Write
    <3> QED BY <2>6, <3>1, WriteDirectKeeps, WriteBufferedKeeps DEF Write
  <2>7. ASSUME NEW f \in Formats, Read(h, f) PROVE Keeps
    BY <2>7, ReadKeeps
  <2>8. ASSUME NEW b \in Buffers, SetVBuf(h, b) PROVE Keeps
    <3>1. b \in {"no", "line", "full"}
      BY FilesAssumption
    <3> QED BY <2>8, <3>1, SetVBufKeeps
  <2> QED BY <1>5, <2>1, <2>2, <2>3, <2>4, <2>5, <2>6, <2>7, <2>8 DEF Use
<1>6. ASSUME NEW h \in Open, NextLine(h) PROVE Keeps
  BY <1>6, NextLineKeeps
<1>7. ASSUME NEW h \in Open, Forget(h) PROVE Keeps
  BY <1>7, ForgetKeeps
<1> QED BY <1>1, <1>2, <1>3, <1>4, <1>5, <1>6, <1>7 DEF Program

-----------------------------------------------------------------------------
(* The close.                                                              *)

LEMMA MarkingKeeps ==
    ASSUME FileInv, files' = MarkFinalized(files), UNCHANGED <<disk, text, failed, registry>>
    PROVE  FileInv'
<1>1. files \in [Handles -> FileState]
  BY DEF FileInv, Types
<1>2. ASSUME NEW h \in Handles
      PROVE  /\ files'[h] \in FileState /\ files'[h].st = files[h].st
             /\ \E done \in BOOLEAN : files'[h] = [files[h] EXCEPT !.done = done]
  <2>1. files[h] \in FileState
    BY <1>1, <1>2
  <2>2. files'[h] = [files[h] EXCEPT !.done = TRUE] \/ files'[h] = files[h]
    BY <1>2 DEF MarkFinalized
  <2>3. files[h] = [files[h] EXCEPT !.done = files[h].done] /\ files[h].done \in BOOLEAN
    BY <2>1 DEF FileState
  <2>4. [files[h] EXCEPT !.done = TRUE] \in FileState
        /\ [files[h] EXCEPT !.done = TRUE].st = files[h].st
    BY <2>1 DEF FileState
  <2> QED BY <2>1, <2>2, <2>3, <2>4
<1>3. files' \in [Handles -> FileState]
  BY <1>2 DEF MarkFinalized
<1>4. Open' = Open /\ \A g \in Open : g \in Handles
  BY <1>2 DEF Open
<1>5. registry' = registry /\ UNCHANGED <<disk, text, failed>>
  OBVIOUS
<1> QED BY <1>2, <1>3, <1>4, <1>5, NothingElse

LEMMA DrainKeeps ==
    ASSUME IInv, DrainNext
    PROVE  IInv'
<1> DEFINE h == cursor + 1
<1>1. FileInv /\ cursor \in Nat /\ Drained /\ cursor' = h /\ phase' = "drain" /\ phase = "drain"
  BY DEF IInv, DrainNext
<1>2. CASE h \in Open
  <2>1. files[h].done \in BOOLEAN /\ CloseFile(h, files[h].done)
    BY <1>1, <1>2 DEF DrainNext, Open, FileInv, Types, FileState
  <2>2. PICK k \in Open : k = h
    BY <1>2
  <2>3. CloseFile(k, files[k].done) /\ files[k].done \in BOOLEAN
    BY <2>1, <2>2
  <2>4. /\ FileInv'
        /\ \A g \in Open' : /\ g \in Open
                            /\ g # k => files'[g] = files[g]
                            /\ Stored(g)' => Stored(g) /\ files'[g].path = files[g].path
        /\ k \in Open' /\ Stored(k)' => files'[k].path \in failed'
        /\ \A g \in Open : g # k /\ Stored(g) =>
               (files[g].path \in failed' <=> files[g].path \in failed)
    BY <1>1, <2>3, Closing
  <2>5. ASSUME NEW g \in Open', g <= cursor', Stored(g)' PROVE files'[g].path \in failed'
    <3>1. CASE g = k
      BY <2>4, <2>5, <3>1
    <3>2. CASE g # k
      <4>1. g \in Open /\ g \in Nat /\ Stored(g) /\ files'[g].path = files[g].path
        BY <1>1, <2>4, <2>5, RegistryBound DEF Handles
      <4>2. g <= cursor
        BY <1>1, <2>2, <2>5, <3>2, <4>1
      <4> QED BY <1>1, <2>4, <3>2, <4>1, <4>2 DEF Drained
    <3> QED BY <3>1, <3>2
  <2> QED BY <1>1, <2>4, <2>5 DEF IInv, Drained
<1>3. CASE h \notin Open
  <2>1. UNCHANGED <<disk, text, failed, files, registry>>
    BY <1>3 DEF DrainNext
  <2>2. FileInv'
    BY <1>1, <2>1 DEF FileInv, Types, FilesSound, SoundFile, OneWriter, Registered, Open,
                      ClosedFilesAreWritten, Writers
  <2>3. ASSUME NEW g \in Open', g <= cursor', Stored(g)' PROVE files'[g].path \in failed'
    <3>1. g \in Open /\ g \in Nat /\ g # h /\ Stored(g) /\ files'[g] = files[g]
      BY <1>1, <1>3, <2>1, <2>3, RegistryBound DEF Open, Stored, Handles
    <3>2. g <= cursor
      BY <1>1, <2>3, <3>1
    <3> QED BY <1>1, <2>1, <3>1, <3>2 DEF Drained
  <2> QED BY <1>1, <2>2, <2>3 DEF IInv, Drained
<1> QED BY <1>2, <1>3

\* Whatever is open at the end could not be written.
LEMMA DestroyAllKeeps ==
    ASSUME IInv, DestroyAll
    PROVE  IInv'
<1>1. FileInv /\ cursor \in Nat /\ Drained /\ phase' = "closed" /\ cursor' = 0 /\ registry' = 0
      /\ UNCHANGED <<disk, text, failed>>
      /\ files' = [h \in Handles |-> [NoFile EXCEPT !.st = "gone"]]
  BY DEF IInv, DestroyAll
<1>2. files' \in [Handles -> FileState] /\ \A h \in Handles : files'[h].st = "gone"
  BY <1>1, GoneState
<1>3. Open' = {}
  BY <1>2 DEF Open
<1>4. registry' \in 0..MaxFiles
  <2>1. MaxFiles \in Nat /\ registry' = 0
    BY <1>1, FilesAssumption
  <2> QED BY <2>1
<1>5. Types'
  BY <1>1, <1>2, <1>4 DEF FileInv, Types
<1>6. registry <= cursor
  <2>1. registry \in Nat /\ MaxFiles \in Nat /\ registry <= MaxFiles
    BY <1>1, RegistryBound
  <2>2. MaxHooks \in Nat /\ MaxHooks >= MaxFiles
    BY CloseAssumption
  <2>3. cursor = registry \/ cursor = MaxHooks
    BY DEF DestroyAll
  <2> QED BY <2>1, <2>2, <2>3
<1>7. ASSUME NEW p \in Paths, p \notin failed PROVE Writers(p) = {}
  <2>1. ASSUME NEW h \in Writers(p) PROVE FALSE
    <3>1. h \in Open /\ Stored(h) /\ files[h].path = p
      BY <1>7, <2>1 DEF Writers, Stored
    <3>2. h \in Nat /\ h <= cursor
      BY <1>1, <1>6, <3>1, RegistryBound DEF Handles
    <3> QED BY <1>1, <1>7, <3>1, <3>2 DEF Drained
  <2> QED BY <2>1
<1>8. ClosedFilesAreWritten'
  BY <1>1, <1>7 DEF FileInv, ClosedFilesAreWritten
<1>9. FileInv'
  BY <1>3, <1>5, <1>8 DEF FileInv, FilesSound, OneWriter, Registered
<1> QED BY <1>1, <1>9 DEF IInv

LEMMA Initially ==
    ASSUME CloseInit
    PROVE  IInv
<1>1. files \in [Handles -> FileState] /\ Open = {}
  <2>1. <<>> \in Seq(Byte)
    BY EmptySeq
  <2>2. Nil \in Paths \cup Handles \cup {Nil} /\ 0 \in Nat
    OBVIOUS
  <2>3. files = [h \in Handles |-> NoFile] /\ NoFile.st = "none"
    BY DEF CloseInit, Init, NoFile
  <2> HIDE DEF Handles
  <2>4. NoFile \in FileState
    BY <2>1, <2>2 DEF NoFile, FileState
  <2> QED BY <2>3, <2>4 DEF Open
<1>2. disk \in [Paths -> Texts] /\ text \in [Paths \cup Handles -> Texts]
  <2>1. \A w \in {Nil} \cup Writes : w \in Texts
    BY FilesAssumption DEF Texts
  <2> QED BY <2>1 DEF CloseInit, Init, Texts
<1>3. registry \in 0..MaxFiles
  <2>1. MaxFiles \in Nat /\ registry = 0
    BY FilesAssumption DEF CloseInit, Init
  <2> QED BY <2>1
<1>4. ClosedFilesAreWritten
  BY DEF CloseInit, Init, ClosedFilesAreWritten
<1>5. FileInv
  BY <1>1, <1>2, <1>3, <1>4 DEF FileInv, Types, FilesSound, OneWriter, Registered
<1> QED BY <1>1, <1>5 DEF IInv, DoneDropped, CloseInit

LEMMA Inductive ==
    ASSUME Risks = {}, IInv, [CloseNext]_<<vars, cvars>>
    PROVE  IInv'
<1>1. FileInv /\ cursor \in Nat
  BY DEF IInv
<1>2. CASE BeginClose
  <2>1. FileInv' /\ phase' = "finalize" /\ cursor' = cursor /\ phase = "run"
    BY <1>1, <1>2, MarkingKeeps DEF BeginClose
  <2> QED BY <1>1, <2>1 DEF IInv
<1>3. CASE FinalizeNext
  <2> DEFINE h == Head(pending)
  <2>1. phase = "finalize" /\ phase' = phase /\ cursor' = cursor
    BY <1>3 DEF FinalizeNext
  <2>2. CASE h \in Open
    <3>1. PICK k \in Open : k = h
      BY <2>2
    <3>2. CloseFile(k, TRUE)
      BY <1>3, <2>2, <3>1 DEF FinalizeNext
    <3>3. FileInv'
      BY <1>1, <3>2, Closing
    <3> QED BY <1>1, <2>1, <3>3 DEF IInv
  <2>3. CASE h \notin Open
    <3>1. UNCHANGED <<disk, text, failed, files, registry>>
      BY <1>3, <2>3 DEF FinalizeNext
    <3>2. FileInv'
      BY <1>1, <3>1 DEF FileInv, Types, FilesSound, SoundFile, OneWriter, Registered, Open,
                        ClosedFilesAreWritten, Writers
    <3> QED BY <1>1, <2>1, <3>2 DEF IInv
  <2> QED BY <2>2, <2>3
<1>4. CASE StartCallback
  <2>1. UNCHANGED <<disk, text, failed, files, registry, cursor>>
        /\ phase = "finalize" /\ phase' = "callback"
    BY <1>4 DEF StartCallback
  <2>2. FileInv'
    BY <1>1, <2>1 DEF FileInv, Types, FilesSound, SoundFile, OneWriter, Registered, Open,
                      ClosedFilesAreWritten, Writers
  <2> QED BY <1>1, <2>1, <2>2 DEF IInv
<1>5. CASE EndCallback
  <2>1. FileInv' /\ phase' = "finalize" /\ cursor' = cursor /\ phase = "callback"
    BY <1>1, <1>5, MarkingKeeps DEF EndCallback
  <2> QED BY <1>1, <2>1 DEF IInv
<1>6. CASE EndFinalizers
  <2>1. UNCHANGED <<disk, text, failed, files, registry, cursor>>
        /\ phase = "finalize" /\ phase' = "drain"
    BY <1>6 DEF EndFinalizers
  <2>2. FileInv'
    BY <1>1, <2>1 DEF FileInv, Types, FilesSound, SoundFile, OneWriter, Registered, Open,
                      ClosedFilesAreWritten, Writers
  <2>3. cursor' = 0 /\ \A g \in Open' : g >= 1
    BY <2>1 DEF IInv, Open, Handles
  <2>4. Drained'
    <3>1. ASSUME NEW g \in Open', g <= cursor' PROVE FALSE
      <4>1. g \in Nat /\ g >= 1
        BY <2>3, <3>1 DEF Open, Handles
      <4> QED BY <2>3, <3>1, <4>1
    <3> QED BY <3>1 DEF Drained
  <2> QED BY <1>1, <2>1, <2>2, <2>4 DEF IInv
<1>7. CASE DrainNext
  BY <1>7, DrainKeeps
<1>8. CASE DestroyAll
  BY <1>8, DestroyAllKeeps
<1>9. CASE RunStep
  <2>1. UNCHANGED <<phase, cursor>> /\ phase \in {"run", "callback"}
    BY <1>9 DEF RunStep, cvars
  <2>2. CASE Program
    <3>1. Keeps
      BY <1>1, <2>2, ProgramKeeps
    <3> QED BY <1>1, <2>1, <3>1 DEF IInv, Keeps
  <2>3. ASSUME NEW h \in Handles, phase = "run", Finalize(h) PROVE IInv'
    <3>1. Keeps
      BY <1>1, <2>3, FinalizeKeeps
    <3> QED BY <1>1, <2>1, <3>1 DEF IInv, Keeps
  <2>4. ASSUME NEW h \in Handles, phase = "run", Destroy(h) PROVE IInv'
    <3>1. Keeps
      BY <1>1, <2>4, DestroyKeeps DEF IInv
    <3> QED BY <1>1, <2>1, <3>1 DEF IInv, Keeps
  <2> QED BY <1>9, <2>2, <2>3, <2>4 DEF RunStep
<1>10. CASE UNCHANGED <<vars, cvars>>
  <2>1. UNCHANGED <<disk, text, failed, files, registry, output, phase, cursor>>
    BY <1>10 DEF vars, cvars
  <2> QED BY <2>1 DEF IInv, FileInv, Types, FilesSound, SoundFile, OneWriter, Registered, Open,
                      ClosedFilesAreWritten, Writers, DoneDropped, Dropped, Reachable, Stored,
                      Drained
<1> QED BY <1>2, <1>3, <1>4, <1>5, <1>6, <1>7, <1>8, <1>9, <1>10 DEF CloseNext, CloseStep

\* A path that nobody has open for writing has on the host what the program
\* wrote to it, unless its last write failed: after closes, collections and the
\* close of the Runtime, if setvbuf and reads do not follow a direct write.
THEOREM ClosedFilesStayWritten ==
    ASSUME Risks = {}
    PROVE  Spec => []ClosedFilesAreWritten
<1>1. CloseInit => IInv
  BY Initially
<1>2. IInv /\ [CloseNext]_<<vars, cvars>> => IInv'
  BY Inductive
<1>3. IInv => ClosedFilesAreWritten
  BY DEF IInv, FileInv
<1> QED BY <1>1, <1>2, <1>3, PTL DEF Spec

-----------------------------------------------------------------------------
(* The files implement streams: what a step of the library does to streams. *)

StreamOf(f) == [name |-> f.path, readable |-> f.readable, writable |-> f.writable,
                pos |-> f.pos, buffer |-> f.buffer]

\* io.lines opens its files to read them.
Lines == \A h \in Open : files[h].auto => files[h].readable

\* What is known before a step of the library, and what has to be shown of it.
Ready == FileInv /\ Lines /\ failed \subseteq Paths
Mapped == Abstract!Next /\ Lines'

LEMMA StreamsAre ==
    /\ DOMAIN streams = Open /\ Abstract!Open = Open
    /\ \A h \in Open : streams[h] = StreamOf(files[h])
    /\ Abstract!Writers = {h \in Open : files[h].writable}
<1>1. streams = [h \in Open |-> StreamOf(files[h])]
  BY DEF streams, StreamOf
<1>2. DOMAIN streams = Open /\ \A h \in Open : streams[h] = StreamOf(files[h])
  BY <1>1
<1>3. \A h \in Open : StreamOf(files[h]).writable = files[h].writable
  BY DEF StreamOf
<1> QED BY <1>2, <1>3 DEF Abstract!Open, Abstract!Writers

\* A stream that stays open, and moves.
LEMMA StreamMoves ==
    ASSUME Types, Lines, NEW h \in Open, NEW f, files' = [files EXCEPT ![h] = f], f.st = "open",
           f.path = files[h].path, f.readable = files[h].readable,
           f.writable = files[h].writable, f.auto = files[h].auto
    PROVE  /\ Lines' /\ DOMAIN streams' = Open /\ streams'[h] = StreamOf(f)
           /\ f.buffer = files[h].buffer => streams' = [streams EXCEPT ![h].pos = f.pos]
           /\ f.pos = files[h].pos => streams' = [streams EXCEPT ![h].buffer = f.buffer]
           /\ f.buffer = files[h].buffer /\ f.pos = files[h].pos => streams' = streams
<1>1. h \in Handles /\ files'[h] = f /\ Open' = Open /\ \A g \in Handles : g # h => files'[g] = files[g]
  BY DEF Types, Open
<1>2. Lines'
  BY <1>1 DEF Lines, Open
<1>3. streams' = [g \in Open |-> StreamOf(files'[g])]
  BY <1>1 DEF streams, StreamOf
<1>4. streams = [g \in Open |-> StreamOf(files[g])]
  BY DEF streams, StreamOf
<1>5. \A g \in Open : g # h => StreamOf(files'[g]) = StreamOf(files[g])
  BY <1>1 DEF Open
<1>6. f.buffer = files[h].buffer => StreamOf(f) = [StreamOf(files[h]) EXCEPT !.pos = f.pos]
  BY DEF StreamOf
<1>7. f.pos = files[h].pos => StreamOf(f) = [StreamOf(files[h]) EXCEPT !.buffer = f.buffer]
  BY DEF StreamOf
<1>8. f.buffer = files[h].buffer /\ f.pos = files[h].pos => StreamOf(f) = StreamOf(files[h])
  BY DEF StreamOf
<1>9. DOMAIN streams' = Open /\ streams'[h] = StreamOf(f)
  BY <1>1, <1>3
<1>10. ASSUME f.buffer = files[h].buffer PROVE streams' = [streams EXCEPT ![h].pos = f.pos]
  BY <1>1, <1>3, <1>4, <1>5, <1>6, <1>10
<1>11. ASSUME f.pos = files[h].pos PROVE streams' = [streams EXCEPT ![h].buffer = f.buffer]
  BY <1>1, <1>3, <1>4, <1>5, <1>7, <1>11
<1>12. ASSUME f.buffer = files[h].buffer, f.pos = files[h].pos PROVE streams' = streams
  BY <1>1, <1>3, <1>4, <1>5, <1>8, <1>12
<1> QED BY <1>2, <1>9, <1>10, <1>11, <1>12

\* Nothing that streams show of files has changed.
LEMMA StreamsStay ==
    ASSUME Types, Lines, Open' = Open,
           \A g \in Open : files[g] \in FileState /\ \E done \in BOOLEAN : files'[g] = [files[g] EXCEPT !.done = done]
    PROVE  streams' = streams /\ Lines'
<1>1. ASSUME NEW g \in Open
      PROVE  /\ StreamOf(files'[g]) = StreamOf(files[g])
             /\ files'[g].auto = files[g].auto /\ files'[g].readable = files[g].readable
  <2>1. PICK done \in BOOLEAN : files'[g] = [files[g] EXCEPT !.done = done]
    OBVIOUS
  <2> QED BY <2>1 DEF StreamOf, FileState
<1>2. streams' = [g \in Open |-> StreamOf(files'[g])] /\ streams = [g \in Open |-> StreamOf(files[g])]
  BY DEF streams, StreamOf
<1> QED BY <1>1, <1>2 DEF Lines

\* Streams that are open no more.
LEMMA StreamsClose ==
    ASSUME Types, Lines, NEW H \in SUBSET Open, Open' = Open \ H, \A g \in Open' : files'[g] = files[g]
    PROVE  streams' = Abstract!Without(H) /\ Lines'
<1>1. streams' = [g \in Open' |-> StreamOf(files'[g])] /\ streams = [g \in Open |-> StreamOf(files[g])]
  BY DEF streams, StreamOf
<1>2. streams' = [g \in Open \ H |-> streams[g]]
  BY <1>1
<1> QED BY <1>2, StreamsAre DEF Lines, Abstract!Without

\* A stream that is opened.
LEMMA StreamOpens ==
    ASSUME Types, Lines, NEW h \in Handles, h \notin Open, NEW f, files' = [files EXCEPT ![h] = f], f.st = "open",
           f.buffer = "full", f.auto => f.readable, Quiet
    PROVE  Abstract!NewStream(h, f.path, f.pos, f.readable, f.writable) /\ Lines'
<1>1. Open' = Open \cup {h} /\ files'[h] = f /\ \A g \in Open : files'[g] = files[g]
  BY DEF Types, Open
<1>2. streams' = [g \in Open \cup {h} |-> StreamOf(files'[g])] /\ streams = [g \in Open |-> StreamOf(files[g])]
  BY <1>1 DEF streams, StreamOf
<1>3. StreamOf(f) = [name |-> f.path, readable |-> f.readable, writable |-> f.writable,
                     pos |-> f.pos, buffer |-> "full"]
  BY DEF StreamOf
<1>4. streams' = [g \in Open \cup {h} |-> IF g \in Open THEN streams[g] ELSE StreamOf(f)]
  BY <1>1, <1>2
<1> QED BY <1>1, <1>3, <1>4, StreamsAre DEF Abstract!NewStream, Abstract!Quiet, Quiet, Lines

\* Where a step of Streams is one of its next-state relation.
LEMMA StreamSteps ==
    ASSUME NEW h \in Open
    PROVE  /\ Abstract!FlushStream(h) \/ Abstract!CloseStream(h) \/ Abstract!SeekStream(h)
                \/ Abstract!SetBuffer(h) => Abstract!Next
           /\ \A s \in Writes : Abstract!WriteStream(h, s) \/ Abstract!WriteFails(h, s) => Abstract!Next
           /\ \A f \in Formats : Abstract!ReadStream(h, f) => Abstract!Next
           /\ \A H \in SUBSET Open : Abstract!Abandon(H) => Abstract!Next
  BY StreamsAre DEF Abstract!Next

\* Both modules read and write texts in the same way.
LEMMA SameTexts ==
    ASSUME NEW c, NEW pos, NEW s, NEW format
    PROVE  Abstract!WriteAt(c, pos, s) = WriteAt(c, pos, s) /\ Abstract!ReadOne(c, pos, format) = ReadOne(c, pos, format)
<1>1. \A m, n : Abstract!Least(m, n) = Least(m, n)
  BY DEF Abstract!Least, Least
<1>2. \A d, p, t : Abstract!Overwrite(d, p, t) = Overwrite(d, p, t)
  BY DEF Abstract!Overwrite, Overwrite
<1>3. \A d, p : Abstract!AfterLine(d, p) = AfterLine(d, p)
  BY DEF Abstract!AfterLine, AfterLine, Abstract!Cardinality, Cardinality
<1>4. \A d, p : Abstract!Line(d, p) = Line(d, p)
  BY <1>3 DEF Abstract!Line, Line
<1> QED BY <1>1, <1>2, <1>3, <1>4 DEF Abstract!WriteAt, WriteAt, Abstract!ReadOne, ReadOne

LEMMA NothingHappens ==
    ASSUME Quiet, UNCHANGED <<disk, text, failed>>, streams' = streams
    PROVE  Abstract!Next
  BY DEF Abstract!Next, Abstract!Quiet, Quiet

\* A flush does nothing, or the host takes over the buffer, or it fails to.
LEMMA FlushIsStore ==
    ASSUME NEW f \in FileState, NEW d, NEW bad, NEW ok \in BOOLEAN, FlushFile(f, d, bad, ok)
    PROVE  \/ ok /\ Flushed(f) /\ disk' = d /\ failed' = bad
           \/ ok /\ ~Flushed(f) /\ Abstract!Store(d, bad, f.path, f.content)
           \/ ~ok /\ ~Flushed(f) /\ Abstract!StoreFails(d, bad, f.path, f.content)
<1>1. CASE ok /\ Flushed(f)
  BY <1>1 DEF FlushFile
<1>2. CASE ok /\ ~Flushed(f)
  BY <1>2 DEF FlushFile, Flushed, Abstract!Store
<1>3. CASE ~ok
  <2>1. ~Flushed(f) /\ f.path \in Paths /\ failed' = bad \cup {f.path}
    BY <1>3 DEF FlushFile, Flushed
  <2>2. disk' = d \/ \E k \in 0..Len(f.content)-1 : disk' = [d EXCEPT ![f.path] = SubSeq(f.content, 1, k)]
    BY <1>3 DEF FlushFile
  <2>3. f.content \in Seq(Byte)
    BY DEF FileState
  <2>4. PICK n \in Nat : n = Len(f.content)
    BY <2>3, LenProperties
  <2>5. disk' = d \/ \E k \in 0..Len(f.content) : disk' = [d EXCEPT ![f.path] = SubSeq(f.content, 1, k)]
    BY <2>2, <2>4
  <2> QED BY <1>3, <2>1, <2>5 DEF Abstract!StoreFails
<1> QED BY <1>1, <1>2, <1>3

LEMMA OpenFacts ==
    ASSUME FileInv, NEW h \in Open
    PROVE  h \in Handles /\ files[h] \in FileState /\ SoundFile(h) /\ files[h].st = "open"
  BY DEF Open, FileInv, Types, FilesSound

\* What is in the buffer of a file that a flush stores.
LEMMA BufferIsText ==
    ASSUME FileInv, NEW h \in Open, NEW f, f.path = files[h].path, f.writable = files[h].writable,
           f.direct = files[h].direct, f.content = files[h].content, ~Flushed(f)
    PROVE  h \in Abstract!Writers /\ streams[h].name = f.path /\ f.path \in Paths
           /\ f.content = text[f.path] /\ f.content = text[streams[h].name]
<1>1. f.writable /\ ~f.direct /\ f.path \in Paths
  BY DEF Flushed
<1>2. f.content = text[f.path]
  BY <1>1, OpenFacts DEF SoundFile
<1>3. streams[h].name = files[h].path
  BY StreamsAre DEF StreamOf
<1> QED BY <1>1, <1>2, <1>3, StreamsAre

LEMMA FlushHereMaps ==
    ASSUME Ready, NEW h \in Open, NEW ok \in BOOLEAN, FlushFile(files[h], disk, failed, ok),
           Quiet, UNCHANGED <<text, files>>
    PROVE  Mapped
<1>1. FileInv /\ Lines /\ files[h] \in FileState
  BY OpenFacts DEF Ready
<1>3. text' = text /\ files' = files /\ streams' = streams /\ Lines'
  BY <1>1 DEF streams, Open, Lines
<1>4. CASE disk' = disk /\ failed' = failed
  BY <1>3, <1>4, NothingHappens DEF Mapped
<1>5. CASE ~Flushed(files[h]) /\ \/ Abstract!Store(disk, failed, files[h].path, files[h].content)
                                 \/ Abstract!StoreFails(disk, failed, files[h].path, files[h].content)
  <2>1. /\ h \in Abstract!Writers /\ streams[h].name = files[h].path
        /\ files[h].content = text[streams[h].name]
    BY <1>1, <1>5, BufferIsText
  <2>2. Abstract!StoreOrFail(disk, failed, h)
    BY <1>5, <2>1 DEF Abstract!StoreOrFail
  <2>3. Abstract!FlushStream(h)
    BY <1>3, <2>1, <2>2 DEF Abstract!FlushStream, Abstract!Quiet, Quiet
  <2> QED BY <1>3, <2>3, StreamSteps DEF Mapped
<1> QED BY <1>1, <1>4, <1>5, FlushIsStore

LEMMA FlushMaps ==
    ASSUME Ready, NEW h \in Open, Flush(h)
    PROVE  Mapped
<1>1. PICK ok \in BOOLEAN : FlushFile(files[h], disk, failed, ok)
  BY DEF Flush
<1> QED BY <1>1, FlushHereMaps DEF Flush

LEMMA SetOutputMaps ==
    ASSUME Ready, NEW h \in Open, SetOutput(h)
    PROVE  Mapped
<1>1. Quiet /\ UNCHANGED <<text, files>>
  BY DEF SetOutput
<1>2. CASE output \in Open \ {h}
  <2>1. PICK ok \in BOOLEAN : FlushFile(files[output], disk, failed, ok)
    BY <1>2 DEF SetOutput
  <2>2. PICK k \in Open : k = output
    BY <1>2
  <2> QED BY <1>1, <2>1, <2>2, FlushHereMaps
<1>3. CASE output \notin Open \ {h}
  <2>1. UNCHANGED <<disk, text, failed>>
    BY <1>1, <1>3 DEF SetOutput
  <2>2. streams' = streams /\ Lines'
    BY <1>1 DEF streams, Open, Lines, Ready
  <2> QED BY <1>1, <2>1, <2>2, NothingHappens DEF Mapped
<1> QED BY <1>2, <1>3

\* A file that is closed while the host has its text is closed; one of which
\* the last flush failed, or that is temporary, is dropped.
LEMMA CloseFileMaps ==
    ASSUME Ready, NEW h \in Open, NEW done \in BOOLEAN, CloseFile(h, done)
    PROVE  Mapped
<1> DEFINE f == [files[h] EXCEPT !.done = done]
<1>1. FileInv /\ Types /\ Lines /\ files[h] \in FileState /\ files[h].st = "open" /\ SoundFile(h) /\ h \in Handles
  BY OpenFacts DEF Ready, FileInv
<1>2. PICK ok \in BOOLEAN :
          /\ FlushFile(f, disk, failed, ok)
          /\ files' = [files EXCEPT ![h] = IF ok THEN Closed(f) ELSE f]
          /\ UNCHANGED <<text, registry, output>> /\ Quiet
  BY DEF CloseFile
<1>3. f \in FileState
  BY <1>1 DEF FileState
<1>4. /\ f.st = "open" /\ f.path = files[h].path /\ f.writable = files[h].writable
      /\ f.auto = files[h].auto /\ f.content = files[h].content /\ f.direct = files[h].direct
      /\ f.pos = files[h].pos /\ f.readable = files[h].readable /\ f.buffer = files[h].buffer
  BY <1>1 DEF FileState
<1> HIDE DEF f
<1>5. text' = text /\ Abstract!Quiet
  BY <1>2 DEF Abstract!Quiet, Quiet
<1>n. streams[h].name = f.path /\ (h \in Abstract!Writers <=> f.writable)
  BY <1>4, StreamsAre DEF StreamOf
<1>6. CASE ok
  <2>1. Open' = Open \ {h} /\ \A g \in Open' : files'[g] = files[g]
    BY <1>1, <1>2, <1>3, <1>6, ClosedState DEF Open, Types
  <2>2. streams' = Abstract!Without({h}) /\ Lines'
    BY <1>1, <2>1, StreamsClose
  <2>3. CASE Flushed(f) /\ disk' = disk /\ failed' = failed
    <3>1. CASE h \notin Abstract!Writers
      <4>1. Abstract!CloseStream(h)
        BY <1>5, <2>2, <2>3, <3>1 DEF Abstract!CloseStream, Abstract!Keep
      <4> QED BY <2>2, <4>1, StreamSteps DEF Mapped
    <3>2. CASE f.path \in Paths => f.path \in failed
      <4>1. Abstract!Abandon({h})
        BY <1>5, <1>n, <2>2, <2>3, <3>2 DEF Abstract!Abandon, Abstract!Keep
      <4> QED BY <2>2, <4>1, StreamSteps DEF Mapped
    <3>3. CASE h \in Abstract!Writers /\ f.path \in Paths /\ f.path \notin failed
      <4>1. disk[f.path] = text[f.path] /\ disk \in [Paths -> Texts]
        BY <1>1, <1>4, <1>n, <2>3, <3>3 DEF SoundFile, Flushed, Types
      <4>2. Abstract!Store(disk, failed, f.path, text[f.path])
        BY <2>3, <3>3, <4>1 DEF Abstract!Store
      <4>3. Abstract!CloseStream(h)
        BY <1>5, <1>n, <2>2, <3>3, <4>2 DEF Abstract!CloseStream
      <4> QED BY <2>2, <4>3, StreamSteps DEF Mapped
    <3> QED BY <3>1, <3>2, <3>3
  <2>4. CASE ~Flushed(f) /\ Abstract!Store(disk, failed, f.path, f.content)
    <3>1. h \in Abstract!Writers /\ f.content = text[streams[h].name]
      BY <1>1, <1>4, <2>4, BufferIsText
    <3>2. Abstract!CloseStream(h)
      BY <1>5, <1>n, <2>2, <2>4, <3>1 DEF Abstract!CloseStream
    <3> QED BY <2>2, <3>2, StreamSteps DEF Mapped
  <2> QED BY <1>2, <1>3, <1>6, <2>3, <2>4, FlushIsStore
<1>7. CASE ~ok
  <2>1. files' = [files EXCEPT ![h] = f]
    BY <1>2, <1>7
  <2>2. streams' = streams /\ Lines'
    BY <1>1, <1>4, <2>1, StreamMoves
  <2>3. ~Flushed(f) /\ Abstract!StoreFails(disk, failed, f.path, f.content)
    BY <1>2, <1>3, <1>7, FlushIsStore
  <2>4. h \in Abstract!Writers /\ f.content = text[streams[h].name]
    BY <1>1, <1>4, <2>3, BufferIsText
  <2>5. Abstract!FlushStream(h)
    BY <1>5, <1>n, <2>2, <2>3, <2>4 DEF Abstract!FlushStream, Abstract!StoreOrFail
  <2> QED BY <2>2, <2>5, StreamSteps DEF Mapped
<1> QED BY <1>6, <1>7

\* What the program changes of a file without reading or writing it.
LEMMA TouchMaps ==
    ASSUME Ready, NEW h \in Open, SetGc(h) \/ Forget(h) \/ Seek(h)
    PROVE  Mapped
<1> DEFINE f == files[h]
<1>1. FileInv /\ Types /\ Lines /\ f \in FileState /\ f.st = "open" /\ SoundFile(h) /\ h \in Handles
  BY OpenFacts DEF Ready, FileInv
<1>2. Quiet /\ UNCHANGED <<disk, text, failed>>
  BY DEF SetGc, Forget, Seek
<1>3. CASE SetGc(h)
  <2>1. PICK g : g = [f EXCEPT !.gc = "lua"] /\ files' = [files EXCEPT ![h] = g]
    BY <1>1, <1>3 DEF SetGc, Types
  <2>g. /\ g.st = "open" /\ g.path = f.path /\ g.readable = f.readable /\ g.writable = f.writable
        /\ g.auto = f.auto /\ g.buffer = f.buffer /\ g.pos = f.pos
    BY <1>1, <2>1 DEF FileState
  <2>2. streams' = streams /\ Lines'
    BY <1>1, <2>1, <2>g, StreamMoves
  <2> QED BY <1>2, <2>2, NothingHappens DEF Mapped
<1>4. CASE Forget(h)
  <2>1. PICK g : g = [f EXCEPT !.held = FALSE] /\ files' = [files EXCEPT ![h] = g]
    BY <1>1, <1>4 DEF Forget, Types
  <2>g. /\ g.st = "open" /\ g.path = f.path /\ g.readable = f.readable /\ g.writable = f.writable
        /\ g.auto = f.auto /\ g.buffer = f.buffer /\ g.pos = f.pos
    BY <1>1, <2>1 DEF FileState
  <2>2. streams' = streams /\ Lines'
    BY <1>1, <2>1, <2>g, StreamMoves
  <2> QED BY <1>2, <2>2, NothingHappens DEF Mapped
<1>5. CASE Seek(h)
  <2>1. PICK pos \in Nat : files' = [files EXCEPT ![h].pos = pos]
    <3>1. MaxLen \in Nat
      BY FilesAssumption
    <3>2. (IF f.writable THEN Len(IF f.direct THEN disk[f.path] ELSE f.content) ELSE MaxLen) \in Nat
      <4>1. f.content \in Seq(Byte)
        BY <1>1 DEF FileState
      <4>2. f.writable /\ f.direct => disk[f.path] \in Seq(Byte)
        BY <1>1 DEF SoundFile
      <4> QED BY <3>1, <4>1, <4>2, LenProperties
    <3>3. PICK end \in Nat : \E pos \in 0..end : files' = [files EXCEPT ![h].pos = pos]
      BY <1>5, <3>2 DEF Seek
    <3>4. \A pos \in 0..end : pos \in Nat
      OBVIOUS
    <3> QED BY <3>3, <3>4
  <2>2. PICK g : g = [f EXCEPT !.pos = pos] /\ files' = [files EXCEPT ![h] = g]
    BY <1>1, <2>1 DEF Types
  <2>g. /\ g.st = "open" /\ g.path = f.path /\ g.readable = f.readable /\ g.writable = f.writable
        /\ g.auto = f.auto /\ g.buffer = f.buffer /\ g.pos = pos
    BY <1>1, <2>2 DEF FileState
  <2>3. /\ Lines' /\ DOMAIN streams' = Open /\ streams'[h] = StreamOf(g)
        /\ streams' = [streams EXCEPT ![h].pos = g.pos]
    BY <1>1, <2>2, <2>g, StreamMoves
  <2>4. streams'[h].pos = pos /\ streams' = [streams EXCEPT ![h].pos = pos]
    BY <2>3, <2>g DEF StreamOf
  <2>5. Abstract!SeekStream(h)
    BY <1>2, <2>1, <2>3, <2>4 DEF Abstract!SeekStream, Abstract!Quiet, Quiet, Abstract!Keep
  <2> QED BY <2>3, <2>5, StreamSteps DEF Mapped
<1> QED BY <1>3, <1>4, <1>5

LEMMA SetVBufMaps ==
    ASSUME Ready, NEW h \in Open, NEW b \in {"no", "line", "full"}, SetVBuf(h, b)
    PROVE  Mapped
<1> DEFINE f == files[h]
           g == [f EXCEPT !.buffer = b, !.explicit = TRUE]
<1>1. Types /\ Lines /\ f \in FileState /\ f.st = "open" /\ h \in Handles
  BY OpenFacts DEF Ready, FileInv
<1>2. Quiet /\ UNCHANGED <<disk, text, failed>> /\ files' = [files EXCEPT ![h] = g]
  BY <1>1 DEF SetVBuf, Types
<1>3. /\ g.st = "open" /\ g.path = f.path /\ g.readable = f.readable /\ g.writable = f.writable
      /\ g.auto = f.auto /\ g.pos = f.pos /\ g.buffer = b
  BY <1>1 DEF FileState
<1> HIDE DEF g
<1>4. Lines' /\ streams' = [streams EXCEPT ![h].buffer = b]
  BY <1>1, <1>2, <1>3, StreamMoves
<1>5. Abstract!SetBuffer(h)
  BY <1>2, <1>4 DEF Abstract!SetBuffer, Abstract!Quiet, Quiet, Abstract!Keep
<1> QED BY <1>4, <1>5, StreamSteps DEF Mapped

\* A read sees the stream's own text, or what the host has; the end of a file
\* that io.lines opened closes it.
LEMMA ReadMaps ==
    ASSUME Ready, NEW h \in Open, NEW format \in Formats, NEW eof \in BOOLEAN, ReadFrom(h, format, eof),
           files[h].readable, files[h].writable => ~eof /\ ~files[h].direct
    PROVE  Mapped
<1> DEFINE f == files[h]
<1>r. PICK read : read = ReadOne(Seen(f), f.pos, format)
  OBVIOUS
<1> DEFINE g == [f EXCEPT !.pos = read[2]]
<1>1. Types /\ Lines /\ f \in FileState /\ f.st = "open" /\ SoundFile(h) /\ h \in Handles
  BY OpenFacts DEF Ready, FileInv
<1>2. UNCHANGED <<disk, text, failed>> /\ result' = read[1]
      /\ \/ eof /\ read[1] = Nil /\ files' = [files EXCEPT ![h] = Closed(f)]
         \/ files' = [files EXCEPT ![h] = g]
  BY <1>r DEF ReadFrom
<1>3. streams[h] = StreamOf(f) /\ (h \in Abstract!Writers <=> f.writable)
  BY StreamsAre
<1>4. Seen(f) = IF h \in Abstract!Writers THEN text[streams[h].name] ELSE disk[streams[h].name]
  BY <1>1, <1>3 DEF Seen, SoundFile, StreamOf
<1>5. CASE eof /\ read[1] = Nil /\ files' = [files EXCEPT ![h] = Closed(f)]
  <2>1. Open' = Open \ {h} /\ \A k \in Open' : files'[k] = files[k]
    BY <1>1, <1>5, ClosedState DEF Open, Types
  <2>2. streams' = Abstract!Without({h}) /\ Lines'
    BY <1>1, <2>1, StreamsClose
  <2>3. Abstract!CloseStream(h)
    BY <1>2, <1>3, <1>5, <2>2 DEF Abstract!CloseStream, Abstract!Quiet, Abstract!Keep
  <2> QED BY <2>2, <2>3, StreamSteps DEF Mapped
<1>6. CASE files' = [files EXCEPT ![h] = g]
  <2>1. /\ g.st = "open" /\ g.path = f.path /\ g.readable = f.readable /\ g.writable = f.writable
        /\ g.auto = f.auto /\ g.buffer = f.buffer /\ g.pos = read[2]
    BY <1>1 DEF FileState
  <2> HIDE DEF g
  <2>2. Lines' /\ streams' = [streams EXCEPT ![h].pos = g.pos]
    BY <1>1, <1>6, <2>1, StreamMoves
  <2>3. streams[h].readable /\ streams[h].pos = f.pos /\ streams' = [streams EXCEPT ![h].pos = read[2]]
    BY <1>3, <2>1, <2>2 DEF StreamOf
  <2>4. read = Abstract!ReadOne(IF h \in Abstract!Writers THEN text[streams[h].name] ELSE disk[streams[h].name],
                                streams[h].pos, format)
    BY <1>4, <1>r, <2>3, SameTexts
  <2>5. Abstract!ReadStream(h, format)
    BY <1>2, <2>3, <2>4 DEF Abstract!ReadStream, Abstract!Keep
  <2> QED BY <2>2, <2>5, StreamSteps DEF Mapped
<1> QED BY <1>2, <1>5, <1>6

LEMMA WriteDirectMaps ==
    ASSUME Ready, NEW h \in Mine, files[h].writable, NEW s \in Writes, WriteDirect(h, s)
    PROVE  Mapped
<1> DEFINE f == files[h]
<1>1. /\ h \in Open /\ h \in Handles /\ f \in FileState /\ f.st = "open" /\ SoundFile(h)
      /\ Types /\ Lines /\ text[f.path] \in Seq(Byte) /\ f.pos \in Nat
      /\ (IF f.direct THEN disk[f.path] ELSE f.content) = text[f.path]
  BY Writing, OpenFacts DEF Ready, FileInv, FileState
<1>2. f.path \in Paths /\ Quiet /\ s \in Seq(Byte)
  BY FilesAssumption DEF WriteDirect, Direct
<1>3. streams[h] = StreamOf(f) /\ streams[h].name = f.path /\ streams[h].pos = f.pos /\ streams[h].writable
  BY <1>1, StreamsAre DEF StreamOf
<1>n. PICK n \in Nat : n = Len(s)
  BY <1>2, LenProperties
<1>4. ASSUME NEW w \in Seq(Byte), NEW t, t = WriteAt(text[f.path], f.pos, w),
             disk' = [disk EXCEPT ![f.path] =
                         Overwrite(IF f.direct THEN disk[f.path] ELSE f.content, f.pos, w)],
             text' = Written(f, w), failed' = failed \ {f.path}
      PROVE  /\ Abstract!Store(disk, failed, f.path, t) /\ text' = [text EXCEPT ![f.path] = t]
             /\ t = Abstract!WriteAt(text[f.path], f.pos, w)
  <2>1. f.pos \in 0..Len(text[f.path])
    BY <1>1, Writing DEF Ready
  <2>2. t = Overwrite(text[f.path], f.pos, w)
    BY <1>1, <1>4, <2>1, OverwriteText
  <2>3. text' = [text EXCEPT ![f.path] = t]
    BY <1>4 DEF Written
  <2>4. disk' = [disk EXCEPT ![f.path] = t]
    BY <1>1, <1>4, <2>2
  <2> QED BY <1>2, <1>4, <2>3, <2>4, SameTexts DEF Abstract!Store
<1>5. CASE /\ disk' = [disk EXCEPT ![f.path] =
                           Overwrite(IF f.direct THEN disk[f.path] ELSE f.content, f.pos, s)]
           /\ files' = [files EXCEPT ![h].direct = TRUE, ![h].pos = f.pos + Len(s)]
           /\ text' = Written(f, s) /\ failed' = failed \ {f.path}
  <2>1. PICK g : g = [f EXCEPT !.direct = TRUE, !.pos = f.pos + n] /\ files' = [files EXCEPT ![h] = g]
    BY <1>1, <1>5, <1>n DEF Types
  <2>2. /\ g.st = "open" /\ g.path = f.path /\ g.readable = f.readable /\ g.writable = f.writable
        /\ g.auto = f.auto /\ g.buffer = f.buffer /\ g.pos = f.pos + n
    BY <1>1, <2>1 DEF FileState
  <2>3. Lines' /\ streams' = [streams EXCEPT ![h].pos = g.pos]
    BY <1>1, <2>1, <2>2, StreamMoves
  <2>4. streams' = [streams EXCEPT ![h].pos = @ + Len(s)]
    BY <1>1, <1>3, <1>n, <2>2, <2>3, StreamsAre
  <2>t. PICK t : t = WriteAt(text[f.path], f.pos, s)
    OBVIOUS
  <2>5. /\ Abstract!Store(disk, failed, f.path, t) /\ text' = [text EXCEPT ![f.path] = t]
        /\ t = Abstract!WriteAt(text[f.path], f.pos, s)
    BY <1>2, <1>4, <1>5, <2>t
  <2>6. Abstract!WriteStream(h, s)
    BY <1>2, <1>3, <2>4, <2>5 DEF Abstract!WriteStream, Abstract!Quiet, Quiet
  <2> QED BY <1>1, <2>3, <2>6, StreamSteps DEF Mapped
<1>6. CASE ~f.direct /\ FlushFile(f, disk, failed, FALSE) /\ UNCHANGED <<files, text>>
  <2>1. streams' = streams /\ Lines'
    BY <1>1, <1>6 DEF streams, Open, Lines
  <2>2. Abstract!StoreFails(disk, failed, f.path, text[f.path])
    BY <1>1, <1>6, FlushIsStore
  <2>3. Abstract!WriteFails(h, s)
    BY <1>2, <1>3, <1>6, <2>1, <2>2 DEF Abstract!WriteFails, Abstract!Quiet, Quiet
  <2> QED BY <1>1, <2>1, <2>3, StreamSteps DEF Mapped
<1>7. ASSUME NEW k \in 0..Len(s)-1,
             disk' = [disk EXCEPT ![f.path] =
                         Overwrite(IF f.direct THEN disk[f.path] ELSE f.content, f.pos, SubSeq(s, 1, k))],
             files' = [files EXCEPT ![h].direct = TRUE],
             text' = Written(f, SubSeq(s, 1, k)), failed' = failed \ {f.path}
      PROVE  Mapped
  <2>1. PICK g : g = [f EXCEPT !.direct = TRUE] /\ files' = [files EXCEPT ![h] = g]
    BY <1>1, <1>7 DEF Types
  <2>2. /\ g.st = "open" /\ g.path = f.path /\ g.readable = f.readable /\ g.writable = f.writable
        /\ g.auto = f.auto /\ g.buffer = f.buffer /\ g.pos = f.pos
    BY <1>1, <2>1 DEF FileState
  <2>3. Lines' /\ streams' = streams
    BY <1>1, <2>1, <2>2, StreamMoves
  <2>4. PICK w \in Seq(Byte) : w = SubSeq(s, 1, k)
    BY <1>2, PartOfText
  <2>t. PICK t : t = WriteAt(text[f.path], f.pos, w)
    OBVIOUS
  <2>5. /\ Abstract!Store(disk, failed, f.path, t) /\ text' = [text EXCEPT ![f.path] = t]
        /\ t = Abstract!WriteAt(text[f.path], f.pos, w)
    BY <1>4, <1>7, <2>4, <2>t
  <2>6. k \in 0..Len(s)
    BY <1>n
  <2>7. /\ Abstract!Store(disk, failed, streams[h].name, t) /\ text' = [text EXCEPT ![streams[h].name] = t]
        /\ t = Abstract!WriteAt(text[streams[h].name], streams[h].pos, SubSeq(s, 1, k))
    BY <1>3, <2>4, <2>5
  <2>8. Abstract!WriteFails(h, s)
    BY <1>2, <1>3, <2>3, <2>6, <2>7 DEF Abstract!WriteFails, Abstract!Quiet, Quiet
  <2> QED BY <1>1, <2>3, <2>8, StreamSteps DEF Mapped
<1> QED BY <1>5, <1>6, <1>7 DEF WriteDirect

LEMMA WriteBufferedMaps ==
    ASSUME Ready, NEW h \in Mine, files[h].writable, NEW s \in Writes, WriteBuffered(h, s)
    PROVE  Mapped
<1> DEFINE f == files[h]
<1>1. /\ h \in Open /\ h \in Handles /\ f \in FileState /\ f.st = "open" /\ SoundFile(h)
      /\ Types /\ Lines /\ text[f.path] \in Seq(Byte) /\ f.pos \in 0..Len(text[f.path]) /\ f.pos \in Nat
      /\ f.path \in Paths \cup Handles
  BY Writing, OpenFacts DEF Ready, FileInv, FileState
<1>2. s \in Seq(Byte) /\ Quiet /\ failed \subseteq Paths
  BY FilesAssumption DEF WriteBuffered, Ready
<1>3. ~f.direct /\ f.content = text[f.path]
  BY <1>1 DEF WriteBuffered, Direct, SoundFile
<1>n. PICK n \in Nat : n = Len(s)
  BY <1>2, LenProperties
<1>w. WriteAt(text[f.path], f.pos, s) \in Seq(Byte)
  BY <1>1, <1>2, OverwriteText
<1>t. PICK t \in Seq(Byte) : t = WriteAt(f.content, f.pos, s) /\ t = Abstract!WriteAt(text[f.path], f.pos, s)
  BY <1>3, <1>w, SameTexts
<1>g. PICK g : g = [f EXCEPT !.content = t, !.pos = f.pos + n]
  OBVIOUS
<1>4. /\ g \in FileState /\ g.st = "open" /\ g.path = f.path /\ g.readable = f.readable
      /\ g.writable = f.writable /\ g.auto = f.auto /\ g.buffer = f.buffer /\ g.pos = f.pos + n
      /\ g.content = t /\ g.direct = f.direct
  <2>1. f.pos + n \in Nat
    BY <1>1
  <2> QED BY <1>1, <1>g, <2>1 DEF FileState
<1>5. /\ files' = [files EXCEPT ![h] = g] /\ text' = [text EXCEPT ![f.path] = t]
      /\ IF f.buffer = "no" \/ (f.buffer = "line" /\ \E i \in 1..Len(s) : s[i] = NewLine)
           THEN \E ok \in BOOLEAN : FlushFile(g, disk, failed, ok)
           ELSE UNCHANGED <<disk, failed>>
  BY <1>3, <1>g, <1>n, <1>t DEF WriteBuffered, Written
<1>6. streams[h] = StreamOf(f) /\ streams[h].name = f.path /\ streams[h].pos = f.pos /\ streams[h].writable
      /\ streams[h].buffer = f.buffer
  BY <1>1, StreamsAre DEF StreamOf
<1>7. Lines' /\ streams' = [streams EXCEPT ![h].pos = g.pos]
  BY <1>1, <1>4, <1>5, StreamMoves
<1>8. streams' = [streams EXCEPT ![h].pos = @ + Len(s)]
  BY <1>1, <1>4, <1>6, <1>7, <1>n, StreamsAre
<1>9. \/ Abstract!Store(disk, failed, f.path, t) \/ Abstract!StoreFails(disk, failed, f.path, t)
      \/ ~Abstract!Immediate(h, s) /\ Abstract!Keep
  <2>1. CASE ~(f.buffer = "no" \/ (f.buffer = "line" /\ \E i \in 1..Len(s) : s[i] = NewLine))
    BY <1>5, <1>6, <2>1 DEF Abstract!Immediate, Abstract!Keep
  <2>2. ASSUME NEW ok \in BOOLEAN, FlushFile(g, disk, failed, ok)
        PROVE  Abstract!Store(disk, failed, f.path, t) \/ Abstract!StoreFails(disk, failed, f.path, t)
    <3>1. CASE Flushed(g) /\ disk' = disk /\ failed' = failed
      <4>1. f.path \notin Paths
        BY <1>3, <1>4, <3>1 DEF Flushed
      <4> QED BY <1>2, <3>1, <4>1 DEF Abstract!Store
    <3>2. \/ Flushed(g) /\ disk' = disk /\ failed' = failed
          \/ Abstract!Store(disk, failed, g.path, g.content)
          \/ Abstract!StoreFails(disk, failed, g.path, g.content)
      BY <1>4, <2>2, FlushIsStore
    <3> QED BY <1>4, <3>1, <3>2
  <2> QED BY <1>5, <2>1, <2>2
<1>10. Abstract!WriteStream(h, s)
  BY <1>2, <1>5, <1>6, <1>8, <1>9, <1>t DEF Abstract!WriteStream, Abstract!Quiet, Quiet
<1> QED BY <1>1, <1>7, <1>10, StreamSteps DEF Mapped

\* Files that are opened.
LEMMA OpenMaps ==
    ASSUME Ready, NEW p \in Paths, NEW m, NEW auto \in BOOLEAN, auto => m = "r",
           OpenFile(p, m, auto)
    PROVE  Mapped
<1>1. PICK c : /\ Prepare(p, m, c) /\ Publish(NewFile(p, m, c, auto)) /\ Quiet
               /\ disk' = Opened(disk, p, m, c) /\ text' = Opened(text, p, m, c)
               /\ failed' = IF m = "r" THEN failed ELSE failed \ {p}
  BY DEF OpenFile
<1>2. PICK h : h = registry + 1
  OBVIOUS
<1>3. PICK f : f = NewFile(p, m, c, auto)
  OBVIOUS
<1>4. h \in Handles /\ h \notin Open /\ files' = [files EXCEPT ![h] = f] /\ Types /\ Lines
  <2>1. FileInv /\ Publish(f)
    BY <1>1, <1>3 DEF Ready
  <2>2. h \in Handles
    BY <1>1, <1>2, <2>1, Prepared
  <2>3. h \notin Open
    BY <1>2, <2>1, RegistryBound DEF Handles
  <2> QED BY <1>2, <2>1, <2>2, <2>3 DEF Publish, Ready, FileInv
<1>5. /\ f.st = "open" /\ f.path = p /\ f.readable = (m \notin {"w", "a"}) /\ f.writable = (m # "r")
      /\ f.pos = (IF m \in {"a", "a+"} THEN Len(c) ELSE 0) /\ f.buffer = "full" /\ f.auto = auto
  BY <1>3 DEF NewFile
<1>6. Abstract!NewStream(h, p, f.pos, f.readable, f.writable) /\ Lines'
  <2>1. f.auto => f.readable
    BY <1>5
  <2> QED BY <1>1, <1>4, <1>5, <2>1, StreamOpens
<1>7. CASE m = "r"
  <2>1. f.pos = 0 /\ f.readable = TRUE /\ f.writable = FALSE
    BY <1>5, <1>7
  <2>2. disk[p] # Nil /\ UNCHANGED <<disk, failed, text>>
    BY <1>1, <1>7 DEF Prepare, Opened
  <2>3. Abstract!OpenReader(h, p)
    BY <1>6, <2>1, <2>2 DEF Abstract!OpenReader, Abstract!Keep
  <2> QED BY <1>4, <1>6, <2>3 DEF Mapped, Abstract!Next
<1>8. CASE m # "r"
  <2>1. f.pos \in {0, Len(c)} /\ f.readable \in BOOLEAN /\ f.writable = TRUE
    BY <1>5, <1>8
  <2>2. /\ \A k \in Abstract!Writers : streams[k].name # p
        /\ c = <<>> \/ (c = disk[p] /\ c # Nil)
    <3>1. Writers(p) = {} /\ (c = <<>> \/ (c = disk[p] /\ c # Nil))
      BY <1>1, <1>8 DEF Prepare
    <3> QED BY <3>1, StreamsAre DEF Writers, StreamOf
  <2>3. disk' = [disk EXCEPT ![p] = c] /\ failed' = failed \ {p} /\ text' = [text EXCEPT ![p] = c]
    BY <1>1, <1>8 DEF Opened
  <2>4. Abstract!OpenWriter(h, p, c)
    BY <1>6, <2>1, <2>2, <2>3 DEF Abstract!OpenWriter
  <2>5. Abstract!OpenWriter(h, p, <<>>) \/ Abstract!OpenWriter(h, p, disk[p])
    BY <2>2, <2>4
  <2> QED BY <1>4, <1>6, <2>5 DEF Mapped, Abstract!Next
<1> QED BY <1>7, <1>8

LEMMA TmpFileMaps ==
    ASSUME Ready, TmpFile
    PROVE  Mapped
<1>1. PICK h : h = registry + 1
  OBVIOUS
<1>2. PICK f : f = NewFile(h, "w+", <<>>, FALSE)
  OBVIOUS
<1>3. Publish(f) /\ Quiet /\ text' = [text EXCEPT ![h] = <<>>] /\ UNCHANGED <<disk, failed>>
  BY <1>1, <1>2 DEF TmpFile
<1>4. h \in Handles /\ h \notin Open /\ files' = [files EXCEPT ![h] = f] /\ Types /\ Lines
  <2>1. registry \in Nat /\ MaxFiles \in Nat /\ registry < MaxFiles /\ FileInv /\ \A k \in Open : k <= registry
    BY <1>3, RegistryBound DEF Ready, Publish
  <2> QED BY <1>1, <1>3, <2>1 DEF Publish, Ready, FileInv, Handles
<1>5. /\ f.st = "open" /\ f.path = h /\ f.readable = TRUE /\ f.writable = TRUE
      /\ f.pos = 0 /\ f.buffer = "full" /\ f.auto = FALSE
  BY <1>2 DEF NewFile
<1>6. Abstract!NewStream(h, h, 0, TRUE, TRUE) /\ Lines'
  BY <1>3, <1>4, <1>5, StreamOpens
<1>7. Abstract!OpenTemporary(h)
  BY <1>3, <1>6 DEF Abstract!OpenTemporary, Abstract!Keep
<1> QED BY <1>4, <1>6, <1>7 DEF Mapped, Abstract!Next

LEMMA OutputToMaps ==
    ASSUME Ready, NEW p \in Paths, OutputTo(p)
    PROVE  Mapped
<1> DEFINE d == [disk EXCEPT ![p] = <<>>]
           bad == failed \ {p}
<1>1. /\ Prepare(p, "w", <<>>) /\ Publish(NewFile(p, "w", <<>>, FALSE)) /\ Quiet
      /\ text' = [text EXCEPT ![p] = <<>>]
      /\ IF output \in Open THEN \E ok \in BOOLEAN : FlushFile(files[output], d, bad, ok)
         ELSE disk' = d /\ failed' = bad
  BY DEF OutputTo, Opened
<1>2. PICK h : h = registry + 1
  OBVIOUS
<1>3. PICK f : f = NewFile(p, "w", <<>>, FALSE)
  OBVIOUS
<1>4. h \in Handles /\ h \notin Open /\ files' = [files EXCEPT ![h] = f] /\ Types /\ Lines /\ FileInv
  <2>1. FileInv /\ Publish(f)
    BY <1>1, <1>3 DEF Ready
  <2>2. h \in Handles
    BY <1>1, <1>2, <2>1, Prepared
  <2>3. h \notin Open
    BY <1>2, <2>1, RegistryBound DEF Handles
  <2> QED BY <1>2, <2>1, <2>2, <2>3 DEF Publish, Ready, FileInv
<1>5. /\ f.st = "open" /\ f.path = p /\ f.readable = FALSE /\ f.writable = TRUE
      /\ f.pos = 0 /\ f.buffer = "full" /\ f.auto = FALSE
  BY <1>3 DEF NewFile
<1>6. Abstract!NewStream(h, p, 0, FALSE, TRUE) /\ Lines'
  BY <1>1, <1>4, <1>5, StreamOpens
<1>7. \A k \in Abstract!Writers : streams[k].name # p
  BY <1>1, StreamsAre DEF Prepare, Writers, StreamOf
<1>8. \/ disk' = d /\ failed' = bad
      \/ \E k \in Abstract!Writers : Abstract!StoreOrFail(d, bad, k)
  <2>1. CASE output \notin Open
    BY <1>1, <2>1
  <2>2. CASE output \in Open
    <3>1. PICK k \in Open : k = output
      BY <2>2
    <3>2. PICK ok \in BOOLEAN : FlushFile(files[k], d, bad, ok)
      BY <1>1, <2>2, <3>1
    <3>3. files[k] \in FileState
      BY <1>4, OpenFacts
    <3>4. CASE ~Flushed(files[k]) /\ \/ Abstract!Store(d, bad, files[k].path, files[k].content)
                                     \/ Abstract!StoreFails(d, bad, files[k].path, files[k].content)
      <4>1. /\ k \in Abstract!Writers /\ streams[k].name = files[k].path
            /\ files[k].content = text[streams[k].name]
        BY <1>4, <3>4, BufferIsText
      <4>2. Abstract!StoreOrFail(d, bad, k)
        BY <3>4, <4>1 DEF Abstract!StoreOrFail
      <4> QED BY <4>1, <4>2
    <3> HIDE DEF d, bad
    <3> QED BY <3>2, <3>3, <3>4, FlushIsStore
  <2> QED BY <2>1, <2>2
<1>9. Abstract!OpenWriter(h, p, <<>>)
  <2>1. 0 \in {0, Len(<<>>)} /\ FALSE \in BOOLEAN
    OBVIOUS
  <2> QED BY <1>1, <1>6, <1>7, <1>8, <2>1 DEF Abstract!OpenWriter
<1> QED BY <1>4, <1>6, <1>9 DEF Mapped, Abstract!Next

\* What the program does.
LEMMA ProgramMaps ==
    ASSUME Risks = {}, "line" \in Formats, Ready, Program
    PROVE  Mapped
<1>1. ASSUME NEW p \in Paths, NEW m \in Modes, OpenFile(p, m, FALSE) PROVE Mapped
  BY <1>1, OpenMaps
<1>2. ASSUME NEW p \in Paths, OpenFile(p, "r", TRUE) PROVE Mapped
  BY <1>2, OpenMaps
<1>3. ASSUME NEW p \in Paths, OutputTo(p) PROVE Mapped
  BY <1>3, OutputToMaps
<1>4. CASE TmpFile
  BY <1>4, TmpFileMaps
<1>5. ASSUME NEW h \in Mine, Use(h) PROVE Mapped
  <2>h. h \in Open
    BY DEF Mine
  <2>1. CASE Flush(h)
    BY <2>h, <2>1, FlushMaps
  <2>2. CASE Close(h)
    <3>1. files[h].done \in BOOLEAN /\ CloseFile(h, files[h].done)
      BY <2>h, <2>2, OpenFacts DEF Close, FileState, Ready
    <3> QED BY <2>h, <3>1, CloseFileMaps
  <2>3. CASE SetOutput(h) \/ Seek(h) \/ SetGc(h)
    BY <2>h, <2>3, TouchMaps, SetOutputMaps
  <2>4. ASSUME NEW s \in Writes, Write(h, s) PROVE Mapped
    BY <2>4, WriteDirectMaps, WriteBufferedMaps DEF Write
  <2>5. ASSUME NEW f \in Formats, Read(h, f) PROVE Mapped
    <3>1. files[h].readable /\ ~files[h].direct /\ ReadFrom(h, f, FALSE)
      BY <2>5 DEF Read
    <3> QED BY <2>h, <3>1, ReadMaps
  <2>6. ASSUME NEW b \in Buffers, SetVBuf(h, b) PROVE Mapped
    <3>1. b \in {"no", "line", "full"}
      BY FilesAssumption
    <3> QED BY <2>h, <2>6, <3>1, SetVBufMaps
  <2> QED BY <1>5, <2>1, <2>2, <2>3, <2>4, <2>5, <2>6 DEF Use
<1>6. ASSUME NEW h \in Open, NextLine(h) PROVE Mapped
  <2>1. files[h].auto /\ ReadFrom(h, "line", TRUE)
    BY <1>6 DEF NextLine
  <2>2. files[h].readable /\ ~files[h].writable
    BY <2>1, OpenFacts DEF Ready, Lines, SoundFile
  <2> QED BY <2>1, <2>2, ReadMaps
<1>7. ASSUME NEW h \in Open, Forget(h) PROVE Mapped
  BY <1>7, TouchMaps
<1> QED BY <1>1, <1>2, <1>3, <1>4, <1>5, <1>6, <1>7 DEF Program

\* What was finalized is dropped with the text that could not be written.
LEMMA DestroyMaps ==
    ASSUME Ready, DoneDropped, NEW h \in Handles, Destroy(h)
    PROVE  Mapped
<1>1. PICK f : f = [NoFile EXCEPT !.st = "gone"] /\ f.st = "gone"
  BY GoneState
<1>2. files' = [files EXCEPT ![h] = f] /\ UNCHANGED <<disk, text, failed>> /\ Quiet /\ Types /\ Lines
  BY <1>1 DEF Destroy, Ready, FileInv
<1>3. CASE h \in Open
  <2>1. Open' = Open \ {h} /\ \A g \in Open' : files'[g] = files[g]
    BY <1>1, <1>2, <1>3 DEF Open, Types
  <2>2. streams' = Abstract!Without({h}) /\ Lines'
    BY <1>2, <1>3, <2>1, StreamsClose
  <2>3. files[h].done
    BY <1>3 DEF Destroy, Open
  <2>4. Stored(h) => files[h].path \in failed
    BY <1>3, <2>3 DEF DoneDropped, Dropped
  <2>5. h \in Abstract!Writers /\ streams[h].name \in Paths => streams[h].name \in failed
    BY <1>3, <2>4, StreamsAre DEF Stored, StreamOf
  <2>6. Abstract!Abandon({h})
    BY <1>2, <2>2, <2>5 DEF Abstract!Abandon, Abstract!Quiet, Quiet, Abstract!Keep
  <2> QED BY <1>3, <2>2, <2>6, StreamSteps DEF Mapped
<1>4. CASE h \notin Open
  <2>1. Open' = Open /\ \A g \in Open : files'[g] = files[g]
    BY <1>1, <1>2, <1>4 DEF Open, Types
  <2>2. streams' = streams /\ Lines'
    BY <1>2, <2>1 DEF streams, Lines
  <2> QED BY <1>2, <2>2, NothingHappens DEF Mapped
<1> QED BY <1>3, <1>4

-----------------------------------------------------------------------------
(* The close, for the streams.                                             *)

LEMMA MarkingMaps ==
    ASSUME Ready, Quiet, files' = MarkFinalized(files), UNCHANGED <<disk, text, failed>>
    PROVE  Mapped
<1>1. Types /\ Lines /\ files \in [Handles -> FileState]
  BY DEF Ready, FileInv, Types
<1>2. ASSUME NEW h \in Handles
      PROVE  /\ files'[h].st = files[h].st
             /\ \E done \in BOOLEAN : files'[h] = [files[h] EXCEPT !.done = done]
  <2>1. files[h] \in FileState
    BY <1>1, <1>2
  <2>2. files'[h] = [files[h] EXCEPT !.done = TRUE] \/ files'[h] = files[h]
    BY <1>2 DEF MarkFinalized
  <2>3. files[h] = [files[h] EXCEPT !.done = files[h].done] /\ files[h].done \in BOOLEAN
    BY <2>1 DEF FileState
  <2>4. [files[h] EXCEPT !.done = TRUE].st = files[h].st
    BY <2>1 DEF FileState
  <2> QED BY <2>2, <2>3, <2>4
<1>3. Open' = Open /\ \A g \in Open : g \in Handles
  BY <1>2 DEF Open
<1>4. streams' = streams /\ Lines'
  BY <1>1, <1>2, <1>3, StreamsStay
<1> QED BY <1>4, NothingHappens DEF Mapped

\* The step of a file, or none if it is not open.
LEMMA CloseOrNot ==
    ASSUME Ready, NEW h, NEW done,
           h \in Open => CloseFile(h, done) /\ done \in BOOLEAN,
           h \notin Open => Quiet /\ UNCHANGED <<disk, text, failed, files>>
    PROVE  Mapped
<1>1. CASE h \in Open
  BY <1>1, CloseFileMaps
<1>2. CASE h \notin Open
  <2>1. streams' = streams /\ Lines'
    BY <1>2 DEF streams, Open, Lines, Ready
  <2> QED BY <1>2, <2>1, NothingHappens DEF Mapped
<1> QED BY <1>1, <1>2

\* The end of the Runtime drops what the hooks could not write.
LEMMA DestroyAllMaps ==
    ASSUME Ready, IInv, DestroyAll
    PROVE  Mapped
<1>1. /\ cursor \in Nat /\ Drained /\ Quiet /\ UNCHANGED <<disk, text, failed>> /\ Types /\ Lines
      /\ files' = [h \in Handles |-> [NoFile EXCEPT !.st = "gone"]]
  BY DEF IInv, DestroyAll, Ready, FileInv
<1>2. Open' = {}
  BY <1>1, GoneState DEF Open
<1>3. registry <= cursor /\ registry \in Nat
  <2>1. registry \in Nat /\ MaxFiles \in Nat /\ registry <= MaxFiles
    BY RegistryBound DEF Ready
  <2>2. MaxHooks \in Nat /\ MaxHooks >= MaxFiles
    BY CloseAssumption
  <2>3. cursor = registry \/ cursor = MaxHooks
    BY DEF DestroyAll
  <2> QED BY <1>1, <2>1, <2>2, <2>3
<1>4. streams' = Abstract!Without(Open) /\ Lines'
  BY <1>1, <1>2, StreamsClose
<1>5. ASSUME NEW h \in Open, files[h].writable, files[h].path \in Paths PROVE files[h].path \in failed
  <2>1. h \in Nat /\ h <= registry
    BY RegistryBound DEF Ready, Handles
  <2> QED BY <1>1, <1>3, <1>5, <2>1 DEF Drained, Stored
<1>6. \A h \in Abstract!Writers : streams[h].name \in Paths => streams[h].name \in failed
  BY <1>5, StreamsAre DEF StreamOf
<1>7. Abstract!Abandon(Open)
  BY <1>1, <1>4, <1>6 DEF Abstract!Abandon, Abstract!Quiet, Quiet, Abstract!Keep
<1>8. Abstract!Next
  BY <1>7, StreamsAre DEF Abstract!Next
<1> QED BY <1>4, <1>8 DEF Mapped

\* Only what Streams calls a failure is one.
LEMMA FailedPaths ==
    ASSUME failed \subseteq Paths, Abstract!Next
    PROVE  failed' \subseteq Paths
<1>1. \A bad, d, n, t : bad \subseteq Paths /\ (Abstract!Store(d, bad, n, t) \/ Abstract!StoreFails(d, bad, n, t))
                          => failed' \subseteq Paths
  BY DEF Abstract!Store, Abstract!StoreFails
<1>2. \A bad, d, h : bad \subseteq Paths /\ Abstract!StoreOrFail(d, bad, h) => failed' \subseteq Paths
  BY <1>1 DEF Abstract!StoreOrFail
<1>3. Abstract!Keep => failed' \subseteq Paths
  BY DEF Abstract!Keep
<1>4. ASSUME NEW h, NEW p, NEW c, Abstract!OpenWriter(h, p, c) PROVE failed' \subseteq Paths
  BY <1>2, <1>4 DEF Abstract!OpenWriter
<1>5. ASSUME NEW h, NEW s, Abstract!WriteStream(h, s) \/ Abstract!WriteFails(h, s) PROVE failed' \subseteq Paths
  BY <1>1, <1>3, <1>5 DEF Abstract!WriteStream, Abstract!WriteFails
<1>6. ASSUME NEW h, Abstract!FlushStream(h) \/ Abstract!CloseStream(h) PROVE failed' \subseteq Paths
  BY <1>1, <1>2, <1>3, <1>6 DEF Abstract!FlushStream, Abstract!CloseStream
<1>7. ASSUME NEW h, Abstract!SeekStream(h) \/ Abstract!SetBuffer(h) \/ Abstract!OpenTemporary(h) \/ Abstract!Abandon(h)
      PROVE  failed' \subseteq Paths
  BY <1>3, <1>7 DEF Abstract!SeekStream, Abstract!SetBuffer, Abstract!OpenTemporary, Abstract!Abandon
<1>8. ASSUME NEW h, NEW p, Abstract!OpenReader(h, p) \/ Abstract!ReadStream(h, p) PROVE failed' \subseteq Paths
  BY <1>3, <1>8 DEF Abstract!OpenReader, Abstract!ReadStream
<1> QED BY <1>4, <1>5, <1>6, <1>7, <1>8 DEF Abstract!Next

RInv == IInv /\ Lines /\ failed \subseteq Paths

\* Every step of the Runtime is one of Streams, or none.
LEMMA StepsMap ==
    ASSUME Risks = {}, "line" \in Formats, RInv, [CloseNext]_<<vars, cvars>>
    PROVE  [Abstract!Next]_(Abstract!avars) /\ RInv'
<1>1. Ready /\ IInv
  BY DEF RInv, IInv, Ready
<1>2. IInv'
  BY Inductive DEF RInv
<1>3. CASE CloseNext
  <2>1. CASE BeginClose \/ EndCallback
    <3>1. Quiet /\ files' = MarkFinalized(files) /\ UNCHANGED <<disk, text, failed>>
      BY <2>1 DEF BeginClose, EndCallback
    <3>2. Mapped
      BY <1>1, <3>1, MarkingMaps
    <3> QED BY <1>2, <3>2, FailedPaths DEF Mapped, RInv
  <2>2. CASE FinalizeNext
    <3>1. PICK h : h = Head(pending)
      OBVIOUS
    <3>2. /\ h \in Open => CloseFile(h, TRUE)
          /\ h \notin Open => Quiet /\ UNCHANGED <<disk, text, failed, files>>
      BY <2>2, <3>1 DEF FinalizeNext
    <3>3. Mapped
      BY <1>1, <3>2, CloseOrNot
    <3> QED BY <1>2, <3>3, FailedPaths DEF Mapped, RInv
  <2>3. CASE StartCallback \/ EndFinalizers
    <3>1. Quiet /\ UNCHANGED <<disk, text, failed, files>>
      BY <2>3 DEF StartCallback, EndFinalizers
    <3>2. streams' = streams /\ Lines'
      BY <1>1, <3>1 DEF streams, Open, Lines, Ready
    <3>3. Mapped
      BY <3>1, <3>2, NothingHappens DEF Mapped
    <3> QED BY <1>2, <3>3, FailedPaths DEF Mapped, RInv
  <2>4. CASE DrainNext
    <3>1. PICK h, done : h = cursor + 1 /\ done = files[h].done
      OBVIOUS
    <3>2. /\ h \in Open => CloseFile(h, done)
          /\ h \notin Open => Quiet /\ UNCHANGED <<disk, text, failed, files>>
      BY <2>4, <3>1 DEF DrainNext
    <3>3. h \in Open => done \in BOOLEAN
      BY <1>1, <3>1, OpenFacts DEF Ready, FileState
    <3>4. Mapped
      BY <1>1, <3>2, <3>3, CloseOrNot
    <3> QED BY <1>2, <3>4, FailedPaths DEF Mapped, RInv
  <2>5. CASE DestroyAll
    <3>1. Mapped
      BY <1>1, <2>5, DestroyAllMaps
    <3> QED BY <1>2, <3>1, FailedPaths DEF Mapped, RInv
  <2>6. CASE RunStep
    <3>1. ASSUME Program PROVE Mapped
      BY <1>1, <3>1, ProgramMaps
    <3>2. ASSUME NEW h \in Handles, Finalize(h) PROVE Mapped
      <4>1. h \in Open /\ CloseFile(h, TRUE)
        BY <3>2 DEF Finalize
      <4> QED BY <1>1, <4>1, CloseFileMaps
    <3>3. ASSUME NEW h \in Handles, phase = "run", Destroy(h) PROVE Mapped
      <4>1. DoneDropped
        BY <1>1, <3>3 DEF IInv
      <4> QED BY <1>1, <3>3, <4>1, DestroyMaps
    <3>4. Mapped
      BY <2>6, <3>1, <3>2, <3>3 DEF RunStep
    <3> QED BY <1>2, <3>4, FailedPaths DEF Mapped, RInv
  <2> QED BY <1>3, <2>1, <2>2, <2>3, <2>4, <2>5, <2>6 DEF CloseNext, CloseStep
<1>4. CASE UNCHANGED <<vars, cvars>>
  <2>1. UNCHANGED <<disk, text, failed, files, result>>
    BY <1>4 DEF vars
  <2>2. streams' = streams /\ Lines'
    BY <1>1, <2>1 DEF streams, Open, Lines, Ready
  <2> QED BY <1>2, <2>1, <2>2 DEF RInv, Abstract!avars
<1> QED BY <1>3, <1>4

LEMMA StreamsInitially ==
    ASSUME CloseInit
    PROVE  Abstract!Init /\ RInv
<1>1. IInv /\ Open = {}
  BY Initially DEF CloseInit, Init, Open, NoFile
<1>2. streams = <<>>
  <2>1. streams \in [1..0 -> {}]
    BY <1>1 DEF streams
  <2>2. streams \in Seq({}) /\ Len(streams) = 0
    BY <2>1
  <2> QED BY <2>2, EmptySeq
<1>3. failed = {} /\ result = Nil /\ text = [n \in Paths \cup Handles |-> IF n \in Paths THEN disk[n] ELSE Nil]
  BY DEF CloseInit, Init
<1> QED BY <1>1, <1>2, <1>3 DEF Abstract!Init, RInv, Lines

\* The files are streams, for all paths, texts, numbers of files and places of
\* failures: buffers, the direct mode, flushes, the collector's finalizers and
\* the close of the Runtime do nothing that a program could not explain by its
\* own writes and reads, and drop no text but one that the host refused last.
THEOREM FilesImplementStreams ==
    ASSUME Risks = {}, "line" \in Formats
    PROVE  Spec => FilesAreStreams
<1>1. CloseInit => Abstract!Init /\ RInv
  BY StreamsInitially
<1>2. RInv /\ [CloseNext]_<<vars, cvars>> => [Abstract!Next]_(Abstract!avars) /\ RInv'
  BY StepsMap
<1> QED BY <1>1, <1>2, PTL DEF Spec, FilesAreStreams, Abstract!Spec

-----------------------------------------------------------------------------
(* The types of what the invariant above leaves out.                       *)

\* A line begins at the position and ends behind it.
LEMMA LineIsText ==
    ASSUME NEW c \in Seq(Byte), NEW pos \in Nat, pos < Len(c)
    PROVE  Line(c, pos) \in Seq(Byte)
<1> DEFINE seen == {i \in 1..Len(c) : \A j \in pos+1..i-1 : c[j] # NewLine}
<1>1. Len(c) \in Nat /\ pos + 1 \in Nat /\ pos + 1 <= Len(c)
  OBVIOUS
<1>2. IsFiniteSet(1..Len(c)) /\ Cardinality(1..Len(c)) = Len(c)
  <2>1. 1 \in Int /\ Len(c) \in Int
    BY <1>1
  <2> QED BY <1>1, <2>1, FS_Interval, SMTT(30)
<1>3. IsFiniteSet(seen) /\ Cardinality(seen) \in Nat /\ Cardinality(seen) <= Len(c)
  <2>1. seen \subseteq 1..Len(c)
    OBVIOUS
  <2> HIDE DEF seen
  <2> QED BY <1>2, <2>1, FS_Subset, FS_CardinalityType
<1>4. PICK n \in Nat : n = AfterLine(c, pos) /\ n <= Len(c)
  BY <1>3 DEF AfterLine
<1>5. PICK k \in Int : k = IF c[n] = NewLine THEN n - 1 ELSE n
  BY <1>4
<1>6. k <= Len(c)
  BY <1>1, <1>4, <1>5
<1>7. \A i \in pos + 1..k : c[i] \in Byte
  BY <1>1, <1>6, ElementOfSeq
<1>8. SubSeq(c, pos + 1, k) \in Seq(Byte)
  <2>1. pos + 1 \in Int
    BY <1>1
  <2> QED BY <1>7, <2>1, SubSeqProperties
<1>9. Line(c, pos) = SubSeq(c, pos + 1, k)
  BY <1>4, <1>5 DEF Line
<1> QED BY <1>8, <1>9

LEMMA ReadText ==
    ASSUME NEW c \in Seq(Byte), NEW at \in Nat, NEW format
    PROVE  ReadOne(c, at, format)[1] \in Texts
<1>1. PICK pos \in 0..Len(c) : pos = Least(at, Len(c))
  BY DEF Least
<1>2. ASSUME NEW k \in 0..Len(c) PROVE SubSeq(c, pos + 1, k) \in Texts
  <2>1. \A i \in pos + 1..k : c[i] \in Byte
    BY <1>1, ElementOfSeq
  <2>2. pos + 1 \in Int /\ k \in Int
    BY <1>1
  <2>3. SubSeq(c, pos + 1, k) \in Seq(Byte)
    BY <2>1, <2>2, SubSeqProperties
  <2> QED BY <2>3 DEF Texts
<1>3. CASE format = "all"
  <2>1. ReadOne(c, at, format)[1] = SubSeq(c, pos + 1, Len(c))
    BY <1>1, <1>3 DEF ReadOne
  <2>2. Len(c) \in 0..Len(c)
    OBVIOUS
  <2> QED BY <1>2, <2>1, <2>2
<1>4. CASE format # "all" /\ pos = Len(c)
  <2>1. ReadOne(c, at, format)[1] = Nil
    BY <1>1, <1>4 DEF ReadOne
  <2> QED BY <2>1 DEF Texts
<1>5. CASE format = "line" /\ pos # Len(c)
  <2>1. ReadOne(c, at, format)[1] = Line(c, pos)
    BY <1>1, <1>5 DEF ReadOne
  <2>2. pos \in Nat /\ pos < Len(c)
    BY <1>1, <1>5
  <2> QED BY <2>1, <2>2, LineIsText DEF Texts
<1>6. CASE format # "all" /\ format # "line" /\ pos # Len(c)
  <2>1. ReadOne(c, at, format)[1] = SubSeq(c, pos + 1, pos + 1)
    BY <1>1, <1>6 DEF ReadOne
  <2>2. pos + 1 \in 0..Len(c)
    BY <1>1, <1>6
  <2> QED BY <1>2, <2>1, <2>2
<1> QED BY <1>3, <1>4, <1>5, <1>6

\* The finalizers that are queued: the handles from h down to 1 that wait for one.
Descends(fs, down) ==
    down = [h \in 0..MaxFiles |->
               IF h = 0 THEN <<>>
               ELSE IF Finalizable(fs, h) THEN <<h>> \o down[h - 1] ELSE down[h - 1]]

LEMMA DescentExists ==
    ASSUME NEW fs
    PROVE  \E down \in [0..MaxFiles -> Seq(Handles)] : Descends(fs, down)
<1> DEFINE S == 0..MaxFiles
           R == Seq(Handles)
           End == {0}
           Ground == [h \in S |-> <<>>]
           Down == [h \in S |-> h - 1]
           Up == [q \in S \X R |->
                     IF Finalizable(fs, q[1]) /\ q[1] # 0 THEN <<q[1]>> \o q[2] ELSE q[2]]
           Left == [h \in S |-> h]
<1>1. MaxFiles \in Nat
  BY FilesAssumption
<1>2. Ground \in [S -> R] /\ Left \in [S -> Nat]
  BY <1>1
<1>3. ASSUME NEW h \in S, NEW q \in R, h # 0
      PROVE  <<h>> \o q \in R
  <2>1. h \in Handles
    BY <1>1, <1>3 DEF Handles
  <2> QED BY <2>1
<1>4. Up \in [S \X R -> R]
  <2> SUFFICES ASSUME NEW q \in S \X R PROVE Up[q] \in R
    OBVIOUS
  <2>1. PICK h \in S, t \in R : q[1] = h /\ q[2] = t
    OBVIOUS
  <2>2. Up[q] = IF Finalizable(fs, h) /\ h # 0 THEN <<h>> \o t ELSE t
    BY <2>1
  <2> HIDE DEF R, S, Up
  <2> QED BY <1>3, <2>2
<1>5. \A h \in S \ End : Down[h] \in S /\ Left[Down[h]] < Left[h]
  BY <1>1
<1>6. PICK f \in [S -> R] : Recursive(f, S, End, Ground, Up, Down)
  <2> HIDE DEF S, R, End, Ground, Down, Up, Left
  <2> QED BY <1>2, <1>4, <1>5, RecursionExists, Zenon
<1>7. ASSUME NEW h \in S
      PROVE  f[h] = IF h = 0 THEN <<>>
                    ELSE IF Finalizable(fs, h) THEN <<h>> \o f[h - 1] ELSE f[h - 1]
  <2>1. f[h] = IF h \in End THEN Ground[h] ELSE Up[<<h, f[Down[h]]>>]
    BY <1>6 DEF Recursive
  <2>2. CASE h = 0
    BY <2>1, <2>2
  <2>3. CASE h # 0
    <3>1. h - 1 \in S /\ Down[h] = h - 1
      BY <1>1, <2>3
    <3>2. PICK t \in R : t = f[h - 1]
      <4> HIDE DEF R
      <4> QED BY <3>1
    <3>3. Up[<<h, t>>] = IF Finalizable(fs, h) /\ h # 0 THEN <<h>> \o t ELSE t
      <4> HIDE DEF R, S
      <4> QED OBVIOUS
    <3>4. h \notin End
      BY <2>3
    <3> HIDE DEF S, R, End, Ground, Down, Up, Left
    <3> QED BY <2>1, <2>3, <3>1, <3>2, <3>3, <3>4
  <2> QED BY <2>2, <2>3
<1>8. Descends(fs, f)
  <2>1. f = [h \in S |-> f[h]]
    <3> HIDE DEF S, R
    <3> QED OBVIOUS
  <2> HIDE DEF S, R
  <2>2. f = [h \in S |-> IF h = 0 THEN <<>>
                         ELSE IF Finalizable(fs, h) THEN <<h>> \o f[h - 1] ELSE f[h - 1]]
    BY <1>7, <2>1
  <2> QED BY <2>2 DEF Descends, S
<1> QED BY <1>8

\* Every function that answers like this answers with files.
LEMMA DescentType ==
    ASSUME NEW fs, NEW down, Descends(fs, down)
    PROVE  \A h \in 0..MaxFiles : down[h] \in Seq(Handles)
<1> DEFINE Bad == {h \in 0..MaxFiles : down[h] \notin Seq(Handles)}
<1>1. MaxFiles \in Nat
  BY FilesAssumption
<1>2. Bad = {}
  <2> SUFFICES ASSUME Bad # {} PROVE FALSE
    OBVIOUS
  <2>1. Bad \in SUBSET Nat
    BY <1>1
  <2>2. PICK h \in Bad : \A k \in Bad : h <= k
    BY <2>1, LeastNumber
  <2>3. down[h] = IF h = 0 THEN <<>>
                  ELSE IF Finalizable(fs, h) THEN <<h>> \o down[h - 1] ELSE down[h - 1]
    BY DEF Descends
  <2>4. h # 0
    <3>1. <<>> \in Seq(Handles)
      BY EmptySeq
    <3> QED BY <2>2, <2>3, <3>1
  <2>5. h - 1 \in 0..MaxFiles /\ ~ (h <= h - 1) /\ h \in Handles
    BY <1>1, <2>1, <2>4 DEF Handles
  <2>6. down[h - 1] \in Seq(Handles)
    BY <2>2, <2>5
  <2>7. <<h>> \o down[h - 1] \in Seq(Handles)
    BY <2>5, <2>6
  <2> QED BY <2>2, <2>3, <2>4, <2>6, <2>7
<1> QED BY <1>2

LEMMA QueueType ==
    ASSUME NEW fs, NEW queue \in Seq(Handles)
    PROVE  Queued(fs, queue) \in Seq(Handles)
<1> DEFINE down == CHOOSE down : Descends(fs, down)
<1>1. Descends(fs, down)
  BY DescentExists
<1>2. Queued(fs, queue) = queue \o down[MaxFiles]
  BY DEF Queued, Descends
<1>3. MaxFiles \in 0..MaxFiles
  <2>1. MaxFiles \in Nat
    BY FilesAssumption
  <2> QED BY <2>1
<1>4. down[MaxFiles] \in Seq(Handles)
  <2> HIDE DEF down
  <2> QED BY <1>1, <1>3, DescentType
<1> HIDE DEF down
<1> QED BY <1>2, <1>4

\* What was read last, where the output goes, and what the host refused.
Rest ==
    /\ failed \subseteq Paths /\ output \in Handles \cup {Nil}
    /\ result \in Texts /\ faults \in 0..MaxFaults

LEMMA RestStays ==
    ASSUME Rest, Quiet, UNCHANGED <<output, failed, faults>>
    PROVE  Rest'
  BY DEF Rest, Quiet, Texts

LEMMA FlushRest ==
    ASSUME NEW f, NEW d, NEW bad, NEW ok, FlushFile(f, d, bad, ok),
           bad \subseteq Paths, faults \in 0..MaxFaults
    PROVE  failed' \subseteq Paths /\ faults' \in 0..MaxFaults
<1>1. CASE ok
  BY <1>1 DEF FlushFile
<1>2. CASE ~ok
  <2>1. failed' = bad \cup {f.path} /\ faults < MaxFaults /\ faults' = faults + 1 /\ f.path \in Paths
    BY <1>2 DEF FlushFile, Flushed
  <2>2. MaxFaults \in Nat
    BY FilesAssumption
  <2> QED BY <2>1, <2>2
<1> QED BY <1>1, <1>2

LEMMA CloseRest ==
    ASSUME Rest, NEW h, NEW done, CloseFile(h, done)
    PROVE  Rest'
<1>1. PICK f, ok : Quiet /\ FlushFile(f, disk, failed, ok) /\ output' = output
  BY DEF CloseFile
<1> QED BY <1>1, FlushRest DEF Rest, Quiet, Texts

\* A read answers with a text or nothing.
LEMMA ReadRest ==
    ASSUME Rest, FileInv, NEW h \in Open, NEW format, NEW eof, ReadFrom(h, format, eof)
    PROVE  Rest'
<1>1. files[h] \in FileState /\ SoundFile(h)
  BY OpenFacts
<1>2. Seen(files[h]) \in Seq(Byte)
  BY <1>1 DEF Seen, SoundFile, FileState
<1>3. files[h].pos \in Nat
  BY <1>1 DEF FileState
<1>4. result' \in Texts
  <2>1. PICK c \in Seq(Byte), at \in Nat : c = Seen(files[h]) /\ at = files[h].pos
    BY <1>2, <1>3
  <2>2. result' = ReadOne(c, at, format)[1]
    BY <2>1 DEF ReadFrom
  <2> QED BY <2>2, ReadText
<1> QED BY <1>4 DEF Rest, ReadFrom

LEMMA WriteRest ==
    ASSUME Rest, FileInv, NEW h \in Open, NEW s, Write(h, s)
    PROVE  Rest'
<1>1. MaxFaults \in Nat
  BY FilesAssumption
<1>2. CASE WriteDirect(h, s)
  <2>1. Quiet /\ output' = output /\ files[h].path \in Paths
    BY <1>2 DEF WriteDirect, Direct
  <2>2. \/ failed' = failed \ {files[h].path} /\ UNCHANGED faults
        \/ FlushFile(files[h], disk, failed, FALSE)
        \/ failed' = failed \ {files[h].path} /\ faults < MaxFaults /\ faults' = faults + 1
    BY <1>2 DEF WriteDirect
  <2>3. failed' \subseteq Paths /\ faults' \in 0..MaxFaults
    <3>1. failed \subseteq Paths /\ faults \in 0..MaxFaults
      BY DEF Rest
    <3>2. CASE FlushFile(files[h], disk, failed, FALSE)
      BY <3>1, <3>2, FlushRest
    <3>3. CASE failed' = failed \ {files[h].path} /\ UNCHANGED faults
      BY <3>1, <3>3
    <3>4. CASE failed' = failed \ {files[h].path} /\ faults < MaxFaults /\ faults' = faults + 1
      BY <1>1, <3>1, <3>4
    <3> QED BY <2>2, <3>2, <3>3, <3>4
  <2> QED BY <2>1, <2>3 DEF Rest, Quiet, Texts
<1>3. CASE WriteBuffered(h, s)
  <2>1. Quiet /\ output' = output
    BY <1>3 DEF WriteBuffered
  <2>2. UNCHANGED <<failed, faults>> \/ \E g, ok : FlushFile(g, disk, failed, ok)
    BY <1>3 DEF WriteBuffered
  <2>3. failed' \subseteq Paths /\ faults' \in 0..MaxFaults
    BY <2>2, FlushRest DEF Rest
  <2> QED BY <2>1, <2>3 DEF Rest, Quiet, Texts
<1> QED BY <1>2, <1>3 DEF Write

LEMMA OutputToRest ==
    ASSUME Rest, FileInv, NEW p \in Paths, OutputTo(p)
    PROVE  Rest'
<1>1. Quiet /\ output' = registry + 1 /\ registry < MaxFiles
  BY DEF OutputTo, Publish
<1>2. registry \in Nat /\ MaxFiles \in Nat
  BY RegistryBound
<1>3. registry + 1 \in Handles
  BY <1>1, <1>2 DEF Handles
<1>4. PICK bad : bad = failed \ {p}
  OBVIOUS
<1>5. (failed' = bad /\ UNCHANGED faults) \/ \E f, d, ok : FlushFile(f, d, bad, ok)
  BY <1>4 DEF OutputTo
<1>6. failed' \subseteq Paths /\ faults' \in 0..MaxFaults
  BY <1>4, <1>5, FlushRest DEF Rest
<1> QED BY <1>1, <1>3, <1>6 DEF Rest, Quiet, Texts

LEMMA ProgramRest ==
    ASSUME Rest, FileInv, Program
    PROVE  Rest'
<1>1. ASSUME NEW p \in Paths, NEW m, NEW auto, OpenFile(p, m, auto) PROVE Rest'
  <2>1. Quiet /\ UNCHANGED <<output, faults>> /\ failed' \subseteq failed
    BY <1>1 DEF OpenFile
  <2> QED BY <2>1 DEF Rest, Quiet, Texts
<1>2. ASSUME NEW p \in Paths, OutputTo(p) PROVE Rest'
  BY <1>2, OutputToRest
<1>3. CASE TmpFile
  BY <1>3, RestStays DEF TmpFile
<1>4. ASSUME NEW h \in Mine, Use(h) PROVE Rest'
  <2>h. h \in Open /\ h \in Handles
    BY DEF Mine, Open
  <2>1. CASE Flush(h)
    <3>1. Quiet /\ output' = output /\ \E f, ok : FlushFile(f, disk, failed, ok)
      BY <2>1 DEF Flush
    <3> QED BY <3>1, FlushRest DEF Rest, Quiet, Texts
  <2>2. CASE Close(h)
    BY <2>2, CloseRest DEF Close
  <2>3. CASE SetOutput(h)
    <3>1. Quiet /\ output' = h /\ (UNCHANGED <<failed, faults>> \/ \E f, ok : FlushFile(f, disk, failed, ok))
      BY <2>3 DEF SetOutput
    <3>2. failed' \subseteq Paths /\ faults' \in 0..MaxFaults
      BY <3>1, FlushRest DEF Rest
    <3> QED BY <2>h, <3>1, <3>2 DEF Rest, Quiet, Texts
  <2>4. CASE Seek(h)
    BY <2>4, RestStays DEF Seek
  <2>5. CASE SetGc(h)
    BY <2>5, RestStays DEF SetGc
  <2>6. ASSUME NEW s \in Writes, Write(h, s) PROVE Rest'
    BY <2>h, <2>6, WriteRest
  <2>7. ASSUME NEW f \in Formats, Read(h, f) PROVE Rest'
    BY <2>h, <2>7, ReadRest DEF Read
  <2>8. ASSUME NEW b \in Buffers, SetVBuf(h, b) PROVE Rest'
    BY <2>8, RestStays DEF SetVBuf
  <2> QED BY <1>4, <2>1, <2>2, <2>3, <2>4, <2>5, <2>6, <2>7, <2>8 DEF Use
<1>5. ASSUME NEW h \in Open, NextLine(h) PROVE Rest'
  BY <1>5, ReadRest DEF NextLine
<1>6. ASSUME NEW h \in Open, Forget(h) PROVE Rest'
  BY <1>6, RestStays DEF Forget
<1> QED BY <1>1, <1>2, <1>3, <1>4, <1>5, <1>6 DEF Program

\* The parts of the close, and who waits in them.
Course ==
    /\ phase \in {"run", "finalize", "callback", "drain", "closed"}
    /\ pending \in Seq(Handles) /\ (phase \in {"run", "drain", "closed"} => pending = <<>>)
    /\ phase = "callback" => pending # <<>>
    /\ cursor \in 0..registry

TypeInv == IInv /\ Rest /\ Course

LEMMA TypesInitially == CloseInit => TypeInv
<1> SUFFICES ASSUME CloseInit PROVE TypeInv
  OBVIOUS
<1>1. MaxFaults \in Nat /\ <<>> \in Seq(Handles)
  BY FilesAssumption, EmptySeq
<1>2. Rest /\ Course
  BY <1>1 DEF CloseInit, Init, Rest, Course, Texts
<1> QED BY <1>2, Initially DEF TypeInv

LEMMA TypesAreKept ==
    ASSUME Risks = {}, TypeInv, [CloseNext]_<<vars, cvars>>
    PROVE  TypeInv'
<1>1. IInv /\ IInv' /\ FileInv /\ Rest /\ Course
  BY Inductive DEF TypeInv, IInv
<1>2. registry \in Nat /\ registry' \in Nat /\ cursor \in Nat /\ 0 \in 0..registry'
  <2>1. registry \in 0..MaxFiles /\ registry' \in 0..MaxFiles /\ MaxFiles \in Nat
    BY <1>1, FilesAssumption DEF IInv, FileInv, Types
  <2> QED BY <1>1, <2>1 DEF IInv
<1>3. SUFFICES Rest' /\ Course'
  BY <1>1 DEF TypeInv
<1>4. CASE BeginClose
  <2>1. Quiet /\ UNCHANGED <<output, failed, faults>>
    BY <1>4 DEF BeginClose
  <2>2. pending' \in Seq(Handles)
    BY <1>4, QueueType, EmptySeq DEF BeginClose
  <2> QED BY <1>1, <1>4, <2>1, <2>2, RestStays DEF BeginClose, Course
<1>5. CASE FinalizeNext
  <2>1. Rest'
    BY <1>1, <1>5, CloseRest, RestStays DEF FinalizeNext
  <2>2. /\ phase' = "finalize" /\ cursor' = cursor /\ registry' = registry
        /\ pending' = Tail(pending) /\ pending # <<>>
    BY <1>5 DEF FinalizeNext, CloseFile
  <2>3. pending' \in Seq(Handles)
    BY <1>1, <2>2 DEF Course
  <2> QED BY <1>1, <2>1, <2>2, <2>3 DEF Course
<1>6. CASE StartCallback
  BY <1>1, <1>6, RestStays DEF StartCallback, Course
<1>7. CASE EndCallback
  <2>1. Quiet /\ UNCHANGED <<output, failed, faults>> /\ pending # <<>> /\ pending \in Seq(Handles)
    BY <1>1, <1>7 DEF EndCallback, Course
  <2>2. Tail(pending) \in Seq(Handles)
    BY <2>1
  <2>3. pending' \in Seq(Handles)
    BY <1>7, <2>2, QueueType DEF EndCallback
  <2> QED BY <1>1, <1>7, <2>1, <2>3, RestStays DEF EndCallback, Course
<1>8. CASE EndFinalizers
  BY <1>1, <1>8, RestStays DEF EndFinalizers, Course
<1>9. CASE DrainNext
  <2>1. Rest'
    BY <1>1, <1>9, CloseRest, RestStays DEF DrainNext
  <2>2. /\ UNCHANGED <<phase, pending>> /\ registry' = registry
        /\ cursor' = cursor + 1 /\ cursor < registry
    BY <1>9 DEF DrainNext, CloseFile
  <2>3. cursor' \in 0..registry'
    BY <1>2, <2>2
  <2> QED BY <1>1, <2>1, <2>2, <2>3 DEF Course
<1>10. CASE DestroyAll
  <2>1. /\ phase = "drain" /\ phase' = "closed" /\ pending' = pending /\ cursor' = 0
        /\ output' = Nil /\ Quiet /\ UNCHANGED <<failed, faults>>
    BY <1>10 DEF DestroyAll
  <2>2. Rest'
    BY <1>1, <2>1 DEF Rest, Quiet, Texts
  <2> QED BY <1>1, <1>2, <2>1, <2>2 DEF Course
<1>11. CASE RunStep
  <2>1. UNCHANGED <<phase, pending, cursor>> /\ phase \in {"run", "callback"}
    BY <1>11 DEF RunStep, cvars
  <2>2. Rest'
    <3>1. CASE Program
      BY <1>1, <3>1, ProgramRest
    <3>2. ASSUME NEW h \in Handles, Finalize(h) PROVE Rest'
      BY <1>1, <3>2, CloseRest DEF Finalize
    <3>3. ASSUME NEW h \in Handles, Destroy(h) PROVE Rest'
      BY <1>1, <3>3, RestStays DEF Destroy
    <3> QED BY <1>11, <3>1, <3>2, <3>3 DEF RunStep
  <2>3. cursor = 0
    BY <1>1, <2>1 DEF IInv
  <2> QED BY <1>1, <1>2, <2>1, <2>2, <2>3 DEF Course
<1>12. CASE UNCHANGED <<vars, cvars>>
  BY <1>1, <1>12 DEF vars, cvars, Rest, Course
<1> QED BY <1>4, <1>5, <1>6, <1>7, <1>8, <1>9, <1>10, <1>11, <1>12 DEF CloseNext, CloseStep

\* TypeOK: every open file is registered, so that the hooks of the close find it;
\* no position of a writer is behind its text, whatever was written, sought and
\* lost; and only files wait for finalizers, only while there are some to call.
THEOREM CloseKeepsTypes ==
    ASSUME Risks = {}
    PROVE  Spec => []TypeOK
<1>1. CloseInit => TypeInv
  BY TypesInitially
<1>2. TypeInv /\ [CloseNext]_<<vars, cvars>> => TypeInv'
  BY TypesAreKept
<1>3. TypeInv => TypeOK
  <2> SUFFICES ASSUME TypeInv PROVE TypeOK
    OBVIOUS
  <2>1. FileInv /\ Rest /\ Course
    BY DEF TypeInv, IInv
  <2>2. \A h \in Open : h <= registry
    BY <2>1 DEF FileInv, Registered
  <2>3. \A h \in Open : files[h].writable => files[h].pos <= Len(text[files[h].path])
    BY <2>1 DEF FileInv, FilesSound, SoundFile
  <2> QED BY <2>1, <2>2, <2>3 DEF TypeOK, FileInv, Types, Rest, Course
<1> QED BY <1>1, <1>2, <1>3, PTL DEF Spec
=============================================================================
