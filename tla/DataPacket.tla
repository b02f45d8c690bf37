------------------------------ MODULE DataPacket ------------------------------
(***************************************************************************)
(* ElsaCDataPacket and the reader it extends, on a machine small enough to *)
(* check: a byte has Base values, and sizeof(unsigned short) and           *)
(* sizeof(unsigned int) are SHORT and INT. The four pointers are kept as   *)
(* offsets from m_cpMem.                                                   *)
(***************************************************************************)
EXTENDS Integers, Sequences, FiniteSetsExt

CONSTANTS Base, SHORT, INT,
          Atoms, Strings,  (* the values written: sequences of bytes; no string holds 0 *)
          AllocCount,      (* m_iAllocCount                                  *)
          MaxSize,         (* a bound                                        *)
          NULL             (* memory nothing has been written to             *)

VARIABLES mem,     (* the bytes from m_cpMem to m_cpEnd                      *)
          offset,  (* m_cpOffset                                            *)
          dataEnd, (* m_cpDataEnd                                           *)
          owner,   (* whether the packet has an allocator                   *)
          items    (* what was written, where, and not overwritten since    *)

vars == <<mem, offset, dataEnd, owner, items>>

Byte == 0 .. Base - 1
AtMost(a, b) == IF a < b THEN a ELSE b

Init == mem = <<>> /\ offset = 0 /\ dataEnd = 0 /\ owner = TRUE /\ items = {}

(* ---- memory ----------------------------------------------------------- *)
Mut_Resized(n) == [i \in 1 .. n + AllocCount |-> IF i <= offset THEN mem[i] ELSE NULL]
\* SetSize: only the first dataEnd bytes are copied.
Resized(n) == [i \in 1 .. n + AllocCount |-> IF i <= AtMost(dataEnd, Len(mem)) THEN mem[i] ELSE NULL]
Room(n) == IF n > Len(mem) THEN Resized(n) ELSE mem

Fits(n) == n <= Len(mem) \/ owner

\* The little-endian encoding of n in size bytes, which drops what is beyond them.
Encoded(n, size) == [i \in 1..size |-> (n \div Base^(i - 1)) % Base]
Decoded(bytes) == MapThenSumSet(LAMBDA i : bytes[i] * Base^(i - 1), DOMAIN bytes)

Overwrite(bytes) ==
  LET room == IF Len(mem) - offset < Len(bytes) THEN Resized(Len(mem) + Len(bytes)) ELSE mem
  IN [i \in DOMAIN room |-> IF i - offset \in DOMAIN bytes THEN bytes[i - offset] ELSE room[i]]

\* The items kept when the bytes from first to last change.
Outside(first, last) == {it \in items : it.at + it.size <= first \/ it.at >= last}

\* WriteBuf and WriteAtom, and a string as the three of them it consists of; what
\* the bytes say is remembered as item.
Write(bytes, kind, value) ==
  LET end == offset + Len(bytes) IN
  /\ owner \/ end <= Len(mem)
  /\ Len(mem) - offset < Len(bytes) => Len(mem) + Len(bytes) + AllocCount <= MaxSize
  /\ mem' = Overwrite(bytes)
  /\ offset' = end
  /\ dataEnd' = IF end > dataEnd THEN end ELSE dataEnd
  /\ items' = Outside(offset, end) \cup
              {[at |-> offset, size |-> Len(bytes), kind |-> kind, value |-> value]}
  /\ UNCHANGED owner

WriteAtom(bytes) == Write(bytes, "atom", bytes)

\* RawWriteStringLen<TL> of size bytes: -1 stands for the length of the string, cut
\* to TL; a length given must fit TL, for the header does not bound the body.
WriteString(str, len, size) ==
  LET n == IF len = -1 THEN Len(str) % Base^size ELSE AtMost(len, Len(str))
      body == SubSeq(str, 1, n)
  IN /\ n < Base^size
     /\ Write(Encoded(n, size) \o body \o <<0>>, IF size = SHORT THEN "short" ELSE "int", body)

\* A reader of a buffer of max bytes that WriteString_s filled, cutting the string.
Attach(str, max) ==
  LET body == SubSeq(str, 1, AtMost(max - SHORT - 1, Len(str)))
      bytes == Encoded(Len(body), SHORT) \o body \o <<0>>
  IN /\ max > SHORT /\ Len(body) < Base^SHORT /\ items = {}
     /\ mem' = [i \in 1..max |-> IF i \in DOMAIN bytes THEN bytes[i] ELSE NULL]
     /\ offset' = 0 /\ dataEnd' = max /\ owner' = FALSE
     /\ items' = {[at |-> 0, size |-> Len(bytes), kind |-> "short", value |-> body]}

Empty == /\ owner /\ mem # <<>>
         /\ mem' = <<>> /\ offset' = 0 /\ dataEnd' = 0 /\ items' = {}
         /\ UNCHANGED owner

(* ---- positions -------------------------------------------------------- *)
Bounded(n) == Fits(n) /\ n + AllocCount <= MaxSize

SetLength(n) == /\ Bounded(n) /\ mem' = Room(n) /\ dataEnd' = n
                /\ offset' = AtMost(offset, n)
                /\ items' = Outside(n, Len(mem) + 1) /\ UNCHANGED owner

SetPosition(n) == /\ Bounded(n) /\ mem' = Room(n) /\ offset' = n
                  /\ dataEnd' = IF n > dataEnd THEN n ELSE dataEnd
                  /\ UNCHANGED <<owner, items>>

\* AdjustOffset, and Reverse, which only makes room.
AdjustOffset(n) == SetPosition(IF offset + n < 0 THEN 0 ELSE offset + n)
Reverse(n) == /\ Bounded(n) /\ n > Len(mem) /\ mem' = Room(n)
              /\ UNCHANGED <<offset, dataEnd, owner, items>>

(* ---- reading ---------------------------------------------------------- *)
\* size bytes from at on; fill is what memory nothing was written to holds.
Bytes(at, size, fill) == [i \in 1..size |-> IF mem[at + i] = NULL THEN fill ELSE mem[at + i]]

\* ReadBuf and ReadAtom: what is missing reads as 0.
ReadAtom(at, size, fill) ==
  LET n == AtMost(size, dataEnd - at)
  IN [value |-> [i \in 1..size |-> IF i <= n THEN Bytes(at, n, fill)[i] ELSE 0], next |-> at + n]

\* RawReadStringLen into a buffer of room bytes: the string may be cut, the position
\* goes past all of it.
ReadShort(at, room, fill) ==
  IF dataEnd - at < SHORT THEN [value |-> <<>>, next |-> at]
  ELSE LET n == Decoded(Bytes(at, SHORT, fill))
           read == AtMost(AtMost(n, room), dataEnd - at - SHORT)
       IN [value |-> Bytes(at + SHORT, IF read < room THEN read ELSE room - 1, fill),
           next |-> AtMost(at + SHORT + n + 1, dataEnd)]

\* RawReadStringPtr: the string where it lies, or null.
ReadInt(at, fill) ==
  LET n == Decoded(Bytes(at, INT, fill)) IN
  IF dataEnd - at < INT + 1 \/ dataEnd - at < n + INT + 1 THEN [value |-> NULL, next |-> at]
  ELSE [value |-> Bytes(at + INT, n, fill), next |-> AtMost(at + n + INT + 1, Len(mem))]

Read(fill, room) == /\ offset' \in {ReadAtom(offset, room, fill).next, ReadShort(offset, room, fill).next,
                                    IF dataEnd - offset < INT THEN offset ELSE ReadInt(offset, fill).next}
                    /\ UNCHANGED <<mem, dataEnd, owner, items>>

Next == \/ \E a \in Atoms : WriteAtom(a)
        \/ \E s \in Strings, size \in {SHORT, INT}, len \in {-1, 1} : WriteString(s, len, size)
        \/ \E s \in Strings, n \in 1..MaxSize : Attach(s, n)
        \/ Empty \/ \E n \in 0..MaxSize : SetLength(n) \/ SetPosition(n) \/ Reverse(n)
        \/ \E n \in {-MaxSize, -2, 1} : AdjustOffset(n)
        \/ \E fill \in Byte, room \in {1, 3} : Read(fill, room)

Spec == Init /\ [][Next]_vars

===============================================================================
