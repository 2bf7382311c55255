------------------------------ MODULE Streams -------------------------------
(***************************************************************************)
(* What a program may expect of its files, whatever the library keeps in   *)
(* memory.  A file that is open for writing has a text: every write        *)
(* changes it, every read through the same stream sees it.  The host, and  *)
(* with it every stream that only reads, has another one.  It takes over   *)
(* the text when a write that may not wait, a flush or a close succeeds,   *)
(* and may do so at any other write; it never has anything else.           *)
(***************************************************************************)
EXTENDS FileText

CONSTANTS Paths, Handles, Writes, Formats

VARIABLES disk,    \* what the host has: bytes, or Nil if there is no file
          text,    \* what the program wrote, by path or temporary file
          failed,  \* paths whose last attempt to be written failed
          stream,  \* the open streams
          result   \* what the last operation read

avars == <<disk, text, failed, stream, result>>

Open == DOMAIN stream
Writers == {h \in Open : stream[h].writable}

Without(H) == [h \in Open \ H |-> stream[h]]

Quiet == result' = Nil

\* The host d takes over the text t of the name n.  If that fails it keeps what
\* it has or gets a first part; bad has the failures before.
Store(d, bad, n, t) ==
    /\ disk' = IF n \in Paths THEN [d EXCEPT ![n] = t] ELSE d
    /\ failed' = bad \ {n}

StoreFails(d, bad, n, t) ==
    /\ n \in Paths /\ failed' = bad \cup {n}
    /\ disk' = d \/ \E k \in 0..Len(t) : disk' = [d EXCEPT ![n] = SubSeq(t, 1, k)]

StoreOrFail(d, bad, h) ==
    LET n == stream[h].name IN Store(d, bad, n, text[n]) \/ StoreFails(d, bad, n, text[n])

Keep == UNCHANGED <<disk, failed>>

NewStream(h, n, pos, readable, writable) ==
    /\ h \notin Open /\ Quiet
    /\ stream' = [g \in Open \cup {h} |->
           IF g \in Open THEN stream[g] ELSE [name |-> n, readable |-> readable,
                      writable |-> writable, pos |-> pos, buffer |-> "full"]]

OpenReader(h, n) ==
    /\ NewStream(h, n, 0, TRUE, FALSE)
    /\ disk[n] # Nil /\ Keep /\ UNCHANGED text

\* One stream writes a file.  Opening it leaves the old text or an empty one.
\* Another stream may be flushed at the same time, as io.output does.
OpenWriter(h, n, c) ==
    LET d == [disk EXCEPT ![n] = c]
        bad == failed \ {n} IN
    /\ \A g \in Writers : stream[g].name # n
    /\ c = <<>> \/ (c = disk[n] /\ c # Nil)
    /\ \E pos \in {0, Len(c)}, readable \in BOOLEAN : NewStream(h, n, pos, readable, TRUE)
    /\ text' = [text EXCEPT ![n] = c]
    /\ \/ disk' = d /\ failed' = bad
       \/ \E g \in Writers : StoreOrFail(d, bad, g)

OpenTemporary(h) ==
    NewStream(h, h, 0, TRUE, TRUE) /\ text' = [text EXCEPT ![h] = <<>>] /\ Keep

\* A write that may not wait in a buffer.
Immediate(h, s) ==
    \/ stream[h].buffer = "no"
    \/ stream[h].buffer = "line" /\ \E i \in 1..Len(s) : s[i] = NewLine

WriteStream(h, s) ==
    LET n == stream[h].name
        t == WriteAt(text[n], stream[h].pos, s) IN
    /\ stream[h].writable /\ Quiet
    /\ text' = [text EXCEPT ![n] = t]
    /\ stream' = [stream EXCEPT ![h].pos = @ + Len(s)]
    /\ \/ Store(disk, failed, n, t)
       \/ StoreFails(disk, failed, n, t)
       \/ ~Immediate(h, s) /\ Keep

\* A write that is reported to fail wrote nothing, or a first part.
WriteFails(h, s) ==
    LET n == stream[h].name IN
    /\ stream[h].writable /\ Quiet /\ UNCHANGED stream
    /\ \/ StoreFails(disk, failed, n, text[n]) /\ UNCHANGED text
       \/ \E k \in 0..Len(s) :
              LET t == WriteAt(text[n], stream[h].pos, SubSeq(s, 1, k)) IN
              Store(disk, failed, n, t) /\ text' = [text EXCEPT ![n] = t]

FlushStream(h) ==
    /\ Quiet /\ UNCHANGED <<text, stream>>
    /\ IF h \in Writers THEN StoreOrFail(disk, failed, h) ELSE Keep

\* Only what the host has taken over can be closed.
CloseStream(h) ==
    /\ Quiet /\ UNCHANGED text /\ stream' = Without({h})
    /\ IF h \in Writers THEN Store(disk, failed, stream[h].name, text[stream[h].name])
       ELSE Keep

\* A stream is dropped, by the collector or the end of the Runtime, without a
\* close only if its last flush failed.
Abandon(H) ==
    /\ Quiet /\ Keep /\ UNCHANGED text
    /\ \A h \in H \cap Writers : stream[h].name \in Paths => stream[h].name \in failed
    /\ stream' = Without(H)

SeekStream(h) ==
    /\ Quiet /\ Keep /\ UNCHANGED text
    /\ h \in DOMAIN stream' /\ stream'[h].pos \in Nat
    /\ stream' = [stream EXCEPT ![h].pos = stream'[h].pos]

SetBuffer(h) ==
    /\ Quiet /\ Keep /\ UNCHANGED text
    /\ \E b \in {"no", "line", "full"} : stream' = [stream EXCEPT ![h].buffer = b]

ReadStream(h, format) ==
    LET n == stream[h].name
        read == ReadOne(IF h \in Writers THEN text[n] ELSE disk[n], stream[h].pos, format) IN
    /\ stream[h].readable /\ Keep /\ UNCHANGED text
    /\ result' = read[1] /\ stream' = [stream EXCEPT ![h].pos = read[2]]

Init ==
    /\ text = [n \in Paths \cup Handles |-> IF n \in Paths THEN disk[n] ELSE Nil]
    /\ failed = {} /\ stream = <<>> /\ result = Nil

Next ==
    \/ \E h \in Handles :
           \/ OpenTemporary(h)
           \/ \E p \in Paths : OpenReader(h, p) \/ OpenWriter(h, p, <<>>) \/ OpenWriter(h, p, disk[p])
    \/ \E h \in Open :
           \/ FlushStream(h) \/ CloseStream(h) \/ SeekStream(h) \/ SetBuffer(h)
           \/ \E s \in Writes : WriteStream(h, s) \/ WriteFails(h, s)
           \/ \E f \in Formats : ReadStream(h, f)
    \/ \E H \in SUBSET Open : Abandon(H)
    \/ Quiet /\ UNCHANGED <<disk, text, failed, stream>>

Spec == Init /\ [][Next]_avars

=============================================================================
