------------------------------ MODULE IoFiles -------------------------------
(***************************************************************************)
(* The files of the io library (lua_stdlib/src/io.rs).  A file is a        *)
(* Userdata whose metatable keeps its state: the whole text of the file in *)
(* __content, a position, and how writes reach the host.  A file that can  *)
(* be read keeps what is written in __content until a flush writes all of  *)
(* it; one that can only be written, or that grows beyond a threshold,     *)
(* goes direct: from then on its handle has the text and __content is out  *)
(* of date.  The host may fail in every write.                             *)
(*                                                                         *)
(* Two streams that write to one path do not exist at the same time here:  *)
(* each would store a whole text of its own.                               *)
(***************************************************************************)
EXTENDS FileText

CONSTANTS Paths,      \* the names the program opens
          Modes,      \* and the modes: "r", "w", "a", "r+", "w+", "a+"
          Byte,       \* the bytes of texts
          Writes,     \* what one write appends
          Formats,    \* what one read asks for
          Buffers,    \* the buffer modes it sets: "no", "line", "full"
          Threshold,  \* DIRECT_WRITE_THRESHOLD
          Risks,      \* what else the program does, see SetVBuf and Read
          MaxFiles,   \* bound: files opened in a run
          MaxLen,     \* bound: bytes of all texts
          MaxFaults   \* bound: writes in which the host fails

ASSUME FilesAssumption ==
    /\ \A s \in Writes : s \in Seq(Byte)
    /\ Buffers \subseteq {"no", "line", "full"}
    /\ Paths \cap (1..MaxFiles) = {} /\ Nil \notin Paths \cup (1..MaxFiles)
    /\ Threshold \in Nat /\ MaxFiles \in Nat /\ MaxLen \in Nat /\ MaxFaults \in Nat
    /\ Risks \subseteq {"late setvbuf", "late read"}

VARIABLES disk,      \* what the host has under each path, or Nil
          text,      \* history: what the program wrote, by path or temporary file
          failed,    \* history: paths whose last attempt to be written failed
          files,     \* the Userdata, numbered as they are registered
          registry,  \* runtime_resources: how many of them were registered
          output,    \* the file in __output, Nil for the standard output
          result,    \* history: what the last operation read
          faults     \* how often the host has failed

vars == <<disk, text, failed, files, registry, output, result, faults>>

Handles == 1..MaxFiles

NoFile == [st |-> "none", path |-> Nil, readable |-> FALSE, writable |-> FALSE,
           content |-> <<>>, pos |-> 0, buffer |-> "full", explicit |-> FALSE,
           direct |-> FALSE, auto |-> FALSE, gc |-> "none", done |-> FALSE, held |-> FALSE]

\* build_file: the state of a new file with the text c.
NewFile(name, m, c, auto) ==
    [st |-> "open", path |-> name, readable |-> m \notin {"w", "a"}, writable |-> m # "r",
     content |-> IF m = "r" THEN <<>> ELSE c, pos |-> IF m \in {"a", "a+"} THEN Len(c) ELSE 0,
     buffer |-> "full", explicit |-> FALSE, direct |-> FALSE, auto |-> auto,
     gc |-> "io", done |-> FALSE, held |-> TRUE]

Open == {h \in Handles : files[h].st = "open"}
\* Where buffers, outputs and finalizers matter.
Stored(h) == files[h].writable /\ files[h].path \in Paths
Writers(p) == {h \in Open : files[h].writable /\ files[h].path = p}

\* The program has a reference to the file, or the io table has.
Reachable(h) == files[h].held \/ output = h
Mine == {h \in Open : Reachable(h) /\ ~files[h].auto}

Quiet == result' = Nil

-----------------------------------------------------------------------------
(* Opening files.                                                          *)

\* publish_file_to_stack: one more Userdata, registered for the close.
Publish(file) ==
    /\ registry < MaxFiles
    /\ files' = [files EXCEPT ![registry + 1] = file]
    /\ registry' = registry + 1

\* prepare_open_file and memory_file_construction: what is opened has the text
\* c, and opening for writing creates or empties the file.
Prepare(p, m, c) ==
    /\ m \in {"r", "r+"} => disk[p] # Nil
    /\ m # "r" => Writers(p) = {}
    /\ c = IF m \in {"w", "w+"} \/ disk[p] = Nil THEN <<>> ELSE disk[p]

Opened(d, p, m, c) == IF m = "r" THEN d ELSE [d EXCEPT ![p] = c]

OpenFile(p, m, auto) ==
    \E c \in {<<>>, disk[p]} :
        /\ Prepare(p, m, c) /\ Quiet
        /\ disk' = Opened(disk, p, m, c) /\ text' = Opened(text, p, m, c)
        /\ failed' = IF m = "r" THEN failed ELSE failed \ {p}
        /\ Publish(NewFile(p, m, c, auto))
        /\ UNCHANGED <<output, faults>>

\* lua_io_tmpfile: the text of a temporary file never leaves the program.
TmpFile ==
    /\ Quiet /\ Publish(NewFile(registry + 1, "w+", <<>>, FALSE))
    /\ text' = [text EXCEPT ![registry + 1] = <<>>]
    /\ UNCHANGED <<disk, failed, output, faults>>

-----------------------------------------------------------------------------
(* flush_file_to_disk, for the file state f on a host that has d.          *)

\* Mutant: whoever only writes is taken to be direct.
FlushedIfWriteOnly(f) == ~f.writable \/ ~f.readable \/ f.direct \/ f.path \notin Paths

\* Nothing to do: not a writer, a temporary file, or the handle has the text.
Flushed(f) == ~f.writable \/ f.direct \/ f.path \notin Paths

FlushFile(f, d, bad, ok) ==
    IF ok THEN
        /\ disk' = IF Flushed(f) THEN d ELSE [d EXCEPT ![f.path] = f.content]
        /\ failed' = IF Flushed(f) THEN bad ELSE bad \ {f.path}
        /\ UNCHANGED faults
    ELSE
        /\ ~Flushed(f) /\ faults < MaxFaults
        /\ disk' \in {d} \cup {[d EXCEPT ![f.path] = SubSeq(f.content, 1, k)] :
                                   k \in 0..Len(f.content)-1}
        /\ failed' = bad \cup {f.path}
        /\ faults' = faults + 1

Flush(h) ==
    /\ Quiet /\ \E ok \in BOOLEAN : FlushFile(files[h], disk, failed, ok)
    /\ UNCHANGED <<text, files, registry, output>>

\* What matters of a file that is closed: who has it makes no difference.
Closed(f) == [NoFile EXCEPT !.st = "closed", !.gc = f.gc, !.done = f.done]

\* close_file_handle and close_file_silent: what cannot be flushed stays open.
CloseFile(h, done) ==
    \E ok \in BOOLEAN :
        LET f == [files[h] EXCEPT !.done = done] IN
        /\ Quiet /\ FlushFile(f, disk, failed, ok)
        /\ files' = [files EXCEPT ![h] = IF ok THEN Closed(f) ELSE f]
        /\ UNCHANGED <<text, registry, output>>

Close(h) == CloseFile(h, files[h].done)

\* lua_io_output: with a name it opens that file, flushes the previous output,
\* whatever comes of it, and makes the new file the output.
OutputTo(p) ==
    /\ Prepare(p, "w", <<>>) /\ Quiet
    /\ text' = Opened(text, p, "w", <<>>)
    /\ LET d == Opened(disk, p, "w", <<>>)
           bad == failed \ {p} IN
       IF output \in Open
       THEN \E ok \in BOOLEAN : FlushFile(files[output], d, bad, ok)
       ELSE disk' = d /\ failed' = bad /\ UNCHANGED faults
    /\ Publish(NewFile(p, "w", <<>>, FALSE))
    /\ output' = registry + 1

\* set_current_output: with a file, another output before it is flushed, too.
SetOutput(h) ==
    /\ Stored(h) /\ Quiet
    /\ IF output \in Open \ {h}
       THEN \E ok \in BOOLEAN : FlushFile(files[output], disk, failed, ok)
       ELSE UNCHANGED <<disk, failed, faults>>
    /\ output' = h
    /\ UNCHANGED <<text, files, registry>>

-----------------------------------------------------------------------------
(* write_to_file.                                                          *)

\* should_write_direct
Direct(f, s) ==
    /\ ~f.explicit /\ f.path \in Paths
    /\ \/ ~f.readable \/ f.direct
       \/ Len(f.content) + Len(s) > Threshold \/ f.pos > Threshold

\* The text that the bytes s make of that of the file f.
Written(f, s) == [text EXCEPT ![f.path] = WriteAt(@, f.pos, s)]

\* write_direct: first the host gets all of the buffer, then what is written.
WriteDirect(h, s) ==
    LET f == files[h]
        base == IF f.direct THEN disk[f.path] ELSE f.content IN
    /\ Direct(f, s) /\ Quiet
    /\ \/ /\ disk' = [disk EXCEPT ![f.path] = Overwrite(base, f.pos, s)]
          /\ files' = [files EXCEPT ![h].direct = TRUE, ![h].pos = f.pos + Len(s)]
          /\ text' = Written(f, s) /\ failed' = failed \ {f.path}
          /\ UNCHANGED faults
       \/ /\ ~f.direct  \* std::fs::write fails
          /\ FlushFile(f, disk, failed, FALSE) /\ UNCHANGED <<files, text>>
       \/ \E k \in 0..Len(s)-1 :  \* write_all fails after k bytes
              LET part == SubSeq(s, 1, k) IN
              /\ faults < MaxFaults /\ faults' = faults + 1
              /\ disk' = [disk EXCEPT ![f.path] = Overwrite(base, f.pos, part)]
              /\ files' = [files EXCEPT ![h].direct = TRUE]
              /\ text' = Written(f, part) /\ failed' = failed \ {f.path}
    /\ UNCHANGED <<registry, output>>

\* A write into __content, which some buffer modes flush at once.  Nobody
\* learns whether that failed.
WriteBuffered(h, s) ==
    LET f == files[h]
        g == [f EXCEPT !.content = WriteAt(IF f.direct THEN <<>> ELSE @, f.pos, s),
                       !.pos = @ + Len(s)]
        now == f.buffer = "no" \/ (f.buffer = "line" /\ \E i \in 1..Len(s) : s[i] = NewLine) IN
    /\ ~Direct(f, s) /\ Quiet
    /\ files' = [files EXCEPT ![h] = g] /\ text' = Written(f, s)
    /\ IF now THEN \E ok \in BOOLEAN : FlushFile(g, disk, failed, ok)
       ELSE UNCHANGED <<disk, failed, faults>>
    /\ UNCHANGED <<registry, output>>

\* The bytes in all texts.
Bytes == LET names == {n \in Paths \cup Handles : text[n] # Nil} IN
         Cardinality(UNION {{n} \X DOMAIN text[n] : n \in names})

Write(h, s) ==
    /\ files[h].writable
    /\ WriteDirect(h, s) \/ WriteBuffered(h, s)
    /\ Bytes' <= MaxLen

-----------------------------------------------------------------------------
(* Reading, positions and buffers.                                         *)

\* Mutant: an update file is loaded from the host, too.
SeenOnHost(f) == IF f.path \in Paths THEN disk[f.path] ELSE f.content

\* What a read sees.  refresh_file_from_disk loads a file that is only read from
\* the host each time; what it had loaded before is not kept here.
Seen(f) == IF f.writable THEN f.content ELSE disk[f.path]

ReadFrom(h, format, eof) ==
    LET f == files[h]
        read == ReadOne(Seen(f), f.pos, format) IN
    /\ result' = read[1]
    /\ files' = [files EXCEPT ![h] =
                    IF eof /\ read[1] = Nil THEN Closed(f) ELSE [f EXCEPT !.pos = read[2]]]
    /\ UNCHANGED <<disk, text, failed, registry, output, faults>>

\* An update file that went direct reads its old __content: "late read".
Read(h, format) ==
    /\ files[h].readable /\ ("late read" \notin Risks => ~files[h].direct)
    /\ ReadFrom(h, format, FALSE)

\* lua_io_lines_iter, for the file that io.lines opened: the end closes it.
NextLine(h) == files[h].held /\ files[h].auto /\ ReadFrom(h, "line", TRUE)

\* Mutant: the position is not clamped.
SeekAnywhere(h) ==
    \E pos \in 0..MaxLen :
        /\ Quiet /\ files' = [files EXCEPT ![h].pos = pos]
        /\ UNCHANGED <<disk, text, failed, registry, output, faults>>

\* lua_io_file_seek: a position up to the end, of the host's text if direct.  A
\* file that is only read takes the end of what it loaded last, anywhere.
Seek(h) ==
    LET f == files[h]
        end == IF f.writable THEN Len(IF f.direct THEN disk[f.path] ELSE f.content)
               ELSE MaxLen IN
    \E pos \in 0..end :
        /\ Quiet /\ files' = [files EXCEPT ![h].pos = pos]
        /\ UNCHANGED <<disk, text, failed, registry, output, faults>>

\* lua_io_file_setvbuf takes a file out of the direct mode without emptying or
\* loading its buffer: "late setvbuf".
SetVBuf(h, b) ==
    /\ Stored(h) /\ ("late setvbuf" \notin Risks => ~files[h].direct)
    /\ Quiet /\ files' = [files EXCEPT ![h].buffer = b, ![h].explicit = TRUE]
    /\ UNCHANGED <<disk, text, failed, registry, output, faults>>

-----------------------------------------------------------------------------
(* References, and the collector.                                          *)

\* The program sets __gc in the metatable of a file to a function of its own.
\* For nil, with no call at all, stands a function that does nothing.
SetGc(h) ==
    /\ files[h].held /\ Stored(h) /\ Quiet
    /\ files' = [files EXCEPT ![h].gc = "lua"]
    /\ UNCHANGED <<disk, text, failed, registry, output, faults>>

\* It drops a file, which still has its finalizer.
Forget(h) ==
    /\ files[h].held /\ files[h].gc = "io" /\ Quiet
    /\ files' = [files EXCEPT ![h].held = FALSE]
    /\ UNCHANGED <<disk, text, failed, registry, output, faults>>

\* lua_io_file_gc: called once for a dead file.
Finalize(h) ==
    /\ h \in Open /\ ~Reachable(h) /\ files[h].gc = "io" /\ ~files[h].done
    /\ CloseFile(h, TRUE)

\* The sweep destroys it, open or not.
Destroy(h) ==
    /\ files[h].st # "none" /\ ~Reachable(h) /\ (files[h].done \/ files[h].st = "closed")
    /\ Quiet /\ files' = [files EXCEPT ![h] = [NoFile EXCEPT !.st = "gone"]]
    /\ UNCHANGED <<disk, text, failed, registry, output, faults>>

-----------------------------------------------------------------------------

\* What the program does to a file that it has.
Use(h) ==
    \/ Flush(h) \/ Close(h) \/ SetOutput(h) \/ Seek(h) \/ SetGc(h)
    \/ \E s \in Writes : Write(h, s)
    \/ \E f \in Formats : Read(h, f)
    \/ \E b \in Buffers : SetVBuf(h, b)

Program ==
    \/ \E p \in Paths, m \in Modes : OpenFile(p, m, FALSE)
    \/ \E p \in Paths : OpenFile(p, "r", TRUE) \/ OutputTo(p)
    \/ TmpFile
    \/ \E h \in Mine : Use(h)
    \/ \E h \in Open : NextLine(h) \/ Forget(h)

Init ==
    /\ disk \in [Paths -> {Nil} \cup Writes]
    /\ text = [n \in Paths \cup Handles |-> IF n \in Paths THEN disk[n] ELSE Nil]
    /\ failed = {} /\ files = [h \in Handles |-> NoFile]
    /\ registry = 0 /\ output = Nil /\ result = Nil /\ faults = 0

=============================================================================
