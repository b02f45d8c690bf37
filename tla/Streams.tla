-------------------------------- MODULE Streams --------------------------------
(***************************************************************************)
(* ElsaCFileStream and ElsaCBaseStream::CopyFrom: a stream opened to read  *)
(* is copied to one opened to write, OnceReadBytes at a time. What the     *)
(* write returns is not looked at, so a full disk is not noticed.          *)
(***************************************************************************)
EXTENDS Integers, Sequences, SequencesExt, FiniteSets

CONSTANTS Files,         (* what the source file may hold                    *)
          OnceReadBytes,
          DiskRoom       (* how many bytes the disk takes                    *)

VARIABLES file,      (* what the source holds                                *)
          opened,    (* whether m_pFp of the source is not null              *)
          position,  (* where the source stands                              *)
          written,   (* what the other stream wrote                          *)
          copy,      (* the call of CopyFrom under way: its local variables  *)
          returned   (* what it returned, where it began, what it wrote to   *)

vars == <<file, opened, position, written, copy, returned>>

None == [active |-> FALSE]
AtMost(a, b) == IF a < b THEN a ELSE b

Init == /\ file \in Files /\ opened \in BOOLEAN /\ position = 0
        /\ written = <<>> /\ copy = None /\ returned = None

\* fread moves the position past what it read; at or beyond the end it reads nothing.
ReadAt(n) == IF opened THEN SubSeq(file, position + 1, AtMost(position + n, Len(file))) ELSE <<>>

\* Seek, to a place that may be past the end; a stream that is not open stays at 0.
Seek(n) == /\ ~copy.active
           /\ position' = IF opened THEN n ELSE 0
           /\ returned' = None
           /\ UNCHANGED <<file, opened, written, copy>>

Read(n) == /\ ~copy.active
           /\ position' = position + Len(ReadAt(n))
           /\ returned' = None
           /\ UNCHANGED <<file, opened, written, copy>>

Return(n, asked, from, before) ==
  returned' = [active |-> TRUE, value |-> n, asked |-> asked, from |-> from, before |-> before]

\* CopyFrom(stream, n) up to its loop: 0 stands for the whole of the stream, from its start.
CopyFrom(n) ==
  LET size == IF n # 0 THEN n ELSE IF opened THEN Len(file) ELSE 0
      start == IF n = 0 THEN 0 ELSE position
  IN /\ ~copy.active
     /\ position' = start
     /\ IF size <= 0
        THEN Return(size, size, position, written) /\ UNCHANGED copy
        ELSE /\ copy' = [active |-> TRUE, size |-> size, done |-> 0, from |-> position,
                         start |-> start, before |-> written]
             /\ returned' = None
     /\ UNCHANGED <<file, opened, written>>

Chunk == /\ copy.active /\ copy.done < copy.size
         /\ LET read == ReadAt(AtMost(copy.size - copy.done, OnceReadBytes))
                kept == SubSeq(read, 1, AtMost(Len(read), DiskRoom - Len(written)))
            IN /\ read # <<>>
               /\ position' = position + Len(read)
               /\ written' = written \o kept
               /\ copy' = [copy EXCEPT !.done = @ + Len(read)]
         /\ UNCHANGED <<file, opened, returned>>

Finish == /\ copy.active
          /\ copy.done < copy.size => ReadAt(1) = <<>>
          /\ position' = copy.from
          /\ Return(copy.done, copy.size, copy.start, copy.before)
          /\ copy' = None
          /\ UNCHANGED <<file, opened, written>>

Next == \/ \E n \in {0, 2, 5} : Seek(n)
        \/ \E n \in {1, 4} : Read(n)
        \/ \E n \in {-1, 0, 1, 3} : CopyFrom(n)
        \/ Chunk \/ Finish

Spec == Init /\ [][Next]_vars

\* While the disk has room, CopyFrom writes as many bytes as it returns, the next ones
\* of the source and no more than it was asked for, however many reads they take; and
\* on a full disk it writes a beginning of them, and nothing else.
CopiesWhole ==
  returned.active /\ returned.value > 0 =>
    LET asked == SubSeq(file, returned.from + 1, returned.from + returned.value)
    IN /\ Len(asked) = returned.value /\ returned.value <= returned.asked
       /\ IsPrefix(written, returned.before \o asked)
       /\ Len(written) < DiskRoom => written = returned.before \o asked
================================================================================
