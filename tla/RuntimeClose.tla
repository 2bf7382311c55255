---------------------------- MODULE RuntimeClose ----------------------------
(***************************************************************************)
(* Runtime::close (lua_vm/src/runtime.rs) and the files it finds: the      *)
(* finalizers of all userdata are called, reachable or not, then the hook  *)
(* of each registered file, then everything is destroyed.  A finalizer may *)
(* be the program's own; it may use the files that are left and open more. *)
(***************************************************************************)
EXTENDS IoFiles

CONSTANT MaxHooks  \* MAX_CLOSE_RESOURCE_HOOKS

ASSUME CloseAssumption == MaxHooks \in Nat /\ MaxHooks >= MaxFiles

VARIABLES phase,    \* "run", the parts of close, "closed"
          pending,  \* pending_finalizers
          cursor    \* runtime_resource_drain_cursor, and the hooks attempted

cvars == <<phase, pending, cursor>>

\* prepare_all_finalizable_userdata: the newest come first.
Finalizable(fs, h) == fs[h].st \in {"open", "closed"} /\ ~fs[h].done

Queued(fs, queue) ==
    LET down[h \in 0..MaxFiles] ==
            IF h = 0 THEN <<>>
            ELSE IF Finalizable(fs, h) THEN <<h>> \o down[h - 1] ELSE down[h - 1]
    IN  queue \o down[MaxFiles]

\* FINALIZED, for every file that is queued.
MarkFinalized(fs) ==
    [h \in Handles |-> IF Finalizable(fs, h) THEN [fs[h] EXCEPT !.done = TRUE] ELSE fs[h]]

BeginClose ==
    /\ phase = "run" /\ phase' = "finalize" /\ Quiet
    /\ pending' = Queued(files, <<>>) /\ files' = MarkFinalized(files)
    /\ UNCHANGED <<disk, text, failed, registry, output, faults, cursor>>

\* Mutant: a callback that finds its file closed is not acknowledged.
FinalizeOpenOnly ==
    LET h == Head(pending) IN
    /\ phase = "finalize" /\ pending # <<>> /\ files[h].gc = "io" /\ h \in Open
    /\ CloseFile(h, TRUE)
    /\ pending' = Tail(pending)
    /\ UNCHANGED <<phase, cursor>>

\* A callback of the io library closes its file, or fails to.  That makes no
\* other userdata finalizable.
FinalizeNext ==
    LET h == Head(pending) IN
    /\ phase = "finalize" /\ pending # <<>> /\ files[h].gc = "io"
    /\ IF h \in Open THEN CloseFile(h, TRUE)
       ELSE Quiet /\ UNCHANGED <<disk, text, failed, files, registry, output, faults>>
    /\ pending' = Tail(pending)
    /\ UNCHANGED <<phase, cursor>>

\* A callback of the program runs to its end or its error.
StartCallback ==
    /\ phase = "finalize" /\ pending # <<>> /\ files[Head(pending)].gc = "lua"
    /\ phase' = "callback" /\ Quiet
    /\ UNCHANGED <<disk, text, failed, files, registry, output, faults, pending, cursor>>

EndCallback ==
    /\ phase = "callback" /\ phase' = "finalize" /\ Quiet
    /\ pending' = Queued(files, Tail(pending)) /\ files' = MarkFinalized(files)
    /\ UNCHANGED <<disk, text, failed, registry, output, faults, cursor>>

EndFinalizers ==
    /\ phase = "finalize" /\ pending = <<>> /\ phase' = "drain" /\ Quiet
    /\ UNCHANGED <<disk, text, failed, files, registry, output, faults, pending, cursor>>

\* drain_io_file_resource, for the next registration.
DrainNext ==
    LET h == cursor + 1 IN
    /\ phase = "drain" /\ cursor < registry /\ cursor < MaxHooks
    /\ cursor' = cursor + 1
    /\ IF h \in Open THEN CloseFile(h, files[h].done)
       ELSE Quiet /\ UNCHANGED <<disk, text, failed, files, registry, output, faults>>
    /\ UNCHANGED <<phase, pending>>

\* shutdown_contents: the states and all objects are destroyed.
DestroyAll ==
    /\ phase = "drain" /\ (cursor = registry \/ cursor = MaxHooks)
    /\ phase' = "closed" /\ Quiet
    /\ files' = [h \in Handles |-> [NoFile EXCEPT !.st = "gone"]]
    /\ registry' = 0 /\ cursor' = 0 /\ output' = Nil
    /\ UNCHANGED <<disk, text, failed, faults, pending>>

CloseStep ==
    \/ BeginClose \/ FinalizeNext \/ StartCallback \/ EndCallback \/ EndFinalizers
    \/ DrainNext \/ DestroyAll

\* The program runs before the close and in its own finalizers.  The collector
\* does nothing while the close runs: a finalizer is called with its automatic
\* steps suspended, and no driver takes its requests (call_value_with_results).
RunStep ==
    /\ UNCHANGED cvars
    /\ \/ phase \in {"run", "callback"} /\ Program
       \/ phase = "run" /\ \E h \in Handles : Finalize(h) \/ Destroy(h)

CloseInit == Init /\ phase = "run" /\ pending = <<>> /\ cursor = 0

CloseNext == CloseStep \/ RunStep

Spec == CloseInit /\ [][CloseNext]_<<vars, cvars>>

-----------------------------------------------------------------------------

FileState ==
    [st : {"none", "open", "closed", "gone"}, path : Paths \cup Handles \cup {Nil},
     readable : BOOLEAN, writable : BOOLEAN, content : Seq(Byte), pos : Nat,
     buffer : {"no", "line", "full"}, explicit : BOOLEAN, direct : BOOLEAN,
     auto : BOOLEAN, gc : {"none", "io", "lua"}, done : BOOLEAN, held : BOOLEAN]

Texts == Seq(Byte) \cup {Nil}

\* What the variables hold.  A file that is open was registered, no finalizer
\* waits but in the close, and no position of a writer is behind its text.
TypeOK ==
    /\ disk \in [Paths -> Texts] /\ text \in [Paths \cup Handles -> Texts]
    /\ failed \subseteq Paths /\ files \in [Handles -> FileState]
    /\ registry \in 0..MaxFiles /\ output \in Handles \cup {Nil}
    /\ result \in Texts /\ faults \in 0..MaxFaults /\ cursor \in 0..registry
    /\ phase \in {"run", "finalize", "callback", "drain", "closed"}
    /\ pending \in Seq(Handles) /\ (phase \in {"run", "drain", "closed"} => pending = <<>>)
    /\ \A h \in Open : h <= registry
    /\ \A h \in Open : files[h].writable => files[h].pos <= Len(text[files[h].path])

\* A path that nobody has open for writing has on the host what the program
\* wrote to it, unless the host failed when it was written last: whatever way
\* the text took through buffers, flushes that failed before, the collector's
\* finalizer, or the finalizers and hooks of the close (lua_io_file_close,
\* lua_io_file_gc, drain_io_file_resource).
ClosedFilesAreWritten ==
    \A p \in Paths : Writers(p) = {} /\ p \notin failed => disk[p] = text[p]

\* The streams that are open, for somebody who knows nothing of buffers.
streams == [h \in Open |->
    [name |-> files[h].path, readable |-> files[h].readable,
     writable |-> files[h].writable, pos |-> files[h].pos, buffer |-> files[h].buffer]]

Abstract == INSTANCE Streams WITH stream <- streams

\* The files implement streams: reads see what the same stream wrote, the host
\* gets nothing else and gets it in time, and no text is dropped that could
\* have been stored.
FilesAreStreams == Abstract!Spec

\* Runtime::close is one call: it goes on until it is done, and a finalizer of
\* the program returns or fails at some time.
FairSpec == Spec /\ WF_<<vars, cvars>>(CloseStep)

\* The close ends, whatever the finalizers do with files, what fails, and how
\* many userdata they add, if that is a finite number (MaxFiles): none is
\* called twice (drain_finalizers_for_close).
CloseEnds == (phase # "run") ~> (phase = "closed")

=============================================================================
