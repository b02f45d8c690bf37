--------------------------------- MODULE MCSdk ---------------------------------
(***************************************************************************)
(* The components of the library that work by themselves, checked in one   *)
(* run: part says which of them a behaviour is of, and as only that one    *)
(* runs, they share the variables v1 to v10, which hold its variables in   *)
(* the order of its WITH list; the rest of them stay NULL.                 *)
(***************************************************************************)
EXTENDS Integers, Sequences, TLC

CONSTANTS NULL, Sentinel

VARIABLES part, v1, v2, v3, v4, v5, v6, v7, v8, v9, v10

vars == <<part, v1, v2, v3, v4, v5, v6, v7, v8, v9, v10>>

Pools == INSTANCE ObjectPools WITH
  Kinds <- {"mempool", "objpool", "objlist"}, ONE_TIME_COUNT <- 2, MaxObjects <- 6,
  kind <- v1, all <- v2, free <- v3, room <- v4, using <- v5, alive <- v6, held <- v7

Container == INSTANCE MemoryContainer WITH
  Containers <- {"a", "b"}, ONE_TIME_COUNT <- 2, MaxCount <- 3, MaxBlocks <- 2, MaxRegions <- 2,
  blocks <- v1, regions <- v2, used <- v3, total <- v4, registry <- v5

Align == INSTANCE AlignAllocator WITH
  Threads <- {"a", "b"}, MaxSize <- 4, Align <- 2, Counts <- {1, 2, 3, 5}, MaxTotal <- 1, MaxAllocated <- 8,
  total <- v1, freed <- v2, allocated <- v3, mutex <- v4, pc <- v5, want <- v6, own <- v7, old <- v8, seen <- v9

Keys == {"a", "b", "c", "d"}
Hash1 == [k \in Keys |-> CASE k = "b" -> 3 [] k = "d" -> 0 [] OTHER -> 1]
Hash == INSTANCE HashTables WITH
  Keys <- Keys, Hash1 <- Hash1, InitSize <- 2, MaxLen <- 8, Numbers <- {0, 1, 2, 3, 5}, MAX_NODE_NUM <- 3,
  node <- v1, len <- v2, nFree <- v3, puts <- v4, slot <- v5, size <- v6, latest <- v7, fellOff <- v8

Sorted == INSTANCE SortedList WITH Items <- {1, 2, 3}, MAX_NUM <- 5, list <- v1, bag <- v2

Packet == INSTANCE DataPacket WITH
  Base <- 2, SHORT <- 1, INT <- 2, Atoms <- {<<1, 0>>}, Strings <- {<<>>, <<1, 1, 1>>}, AllocCount <- 1, MaxSize <- 6,
  mem <- v1, offset <- v2, dataEnd <- v3, owner <- v4, items <- v5

Stream == INSTANCE Streams WITH
  Files <- {<<>>, <<1, 2, 3>>}, OnceReadBytes <- 2, DiskRoom <- 4,
  file <- v1, opened <- v2, position <- v3, written <- v4, copy <- v5, returned <- v6

Time == INSTANCE SecondTime WITH
  YearBase <- 2010, SecOfDay <- 2, RecordFlag <- 49710, Years <- {2010, 2012, 2076}, Months <- 1..12,
  MaxTicks <- 13, Waits <- {0, 1, 2},
  now <- v1, date <- v2, ticks <- v3, tv <- v4, due <- v5

String == INSTANCE RefString WITH
  Handles <- {"h", "g"}, Bodies <- {1, 2, 3}, Chars <- {"x"}, MaxLen <- 1, Garbage <- {-1, 1}, MaxCount <- 2,
  m_pRef <- v1, body <- v2, text <- v3, shared <- v4, unset <- v5, dropped <- v6

Message == INSTANCE Messages WITH
  Threads <- {"h", "g"}, Functions <- {"f1", "f2"}, Lengths <- {0, 4, 6, 12}, CodeLength <- 3, ErrorLength <- 3,
  TMPBUFSIZE <- 10, TableSize <- 3,
  g_OutputMsgFn <- v1, mutex <- v2, tempMsgBuf <- v3, pc <- v4, call <- v5, delivered <- v6,
  cryptTable <- v7, cryptTableInited <- v8, filled <- v9, hashes <- v10

Ids == {<<1,1,0,1,0,5,1,9,4,9,1,2,3,1,0,0,2,10>>, <<1,1,0,1,0,5,9,0,0,1,0,5,1,2,3>>}
Todays == {[y |-> d[1], m |-> d[2], d |-> d[3]] :
             d \in {<<2019, 12, 31>>, <<2018, 12, 30>>, <<2008, 1, 5>>, <<2009, 1, 4>>}}
Person == INSTANCE Identity WITH
  Ids <- Ids, Todays <- Todays, NotDigit <- 11, correct <- v1, id <- v2, mistakes <- v3

Requires == [m \in {"a", "b", "c"} |-> CASE m = "a" -> <<"b">> [] m = "b" -> <<>> [] m = "c" -> <<"b", "a">>]
Mains == {<<"a", "b">>, <<"c", "a">>}
Paths == {<<"t">>, <<"t", "t">>, <<"t", "u">>, <<"u">>}
Script == INSTANCE Scripts WITH
  Modules <- DOMAIN Requires, Mains <- Mains, Requires <- Requires, Names <- {"t", "u"}, Tables <- Paths,
  MaxVersion <- 2, MaxStack <- 5, MaxDepth <- 4,
  vm <- v1, version <- v2, loaded <- v3, setAt <- v4, running <- v5, runs <- v6, failed <- v7,
  stack <- v8, names <- v9, sound <- v10

Rest3 == v3 = NULL
Rest4 == v4 = NULL
Rest6 == v6 = NULL /\ v7 = NULL
Rest8 == v8 = NULL
Rest9 == v9 = NULL
Rest10 == v10 = NULL

Init == \/ part = "pools" /\ Pools!Init /\ Rest8 /\ Rest9 /\ Rest10
        \/ part = "container" /\ Container!Init /\ Rest6 /\ Rest8 /\ Rest9 /\ Rest10
        \/ part = "align" /\ Align!Init /\ Rest10
        \/ part = "strtable" /\ Hash!Init /\ Rest9 /\ Rest10
        \/ part = "statictable" /\ Hash!Init /\ Rest9 /\ Rest10
        \/ part = "sorted" /\ Sorted!Init /\ Rest3 /\ Rest4 /\ v5 = NULL /\ Rest6 /\ Rest8 /\ Rest9 /\ Rest10
        \/ part = "packet" /\ Packet!Init /\ Rest6 /\ Rest8 /\ Rest9 /\ Rest10
        \/ part = "stream" /\ Stream!Init /\ v7 = NULL /\ Rest8 /\ Rest9 /\ Rest10
        \/ part = "time" /\ Time!Init /\ Rest6 /\ Rest8 /\ Rest9 /\ Rest10
        \/ part = "string" /\ String!Init /\ v7 = NULL /\ Rest8 /\ Rest9 /\ Rest10
        \/ part = "message" /\ Message!Init
        \/ part = "identity" /\ Person!Init /\ Rest4 /\ v5 = NULL /\ Rest6 /\ Rest8 /\ Rest9 /\ Rest10
        \/ part = "script" /\ Script!Init

Next == /\ UNCHANGED part
        /\ \/ part = "pools" /\ Pools!Next /\ UNCHANGED <<v8, v9, v10>>
           \/ part = "container" /\ Container!Next /\ UNCHANGED <<v6, v7, v8, v9, v10>>
           \/ part = "align" /\ Align!Next /\ UNCHANGED v10
           \/ part = "strtable" /\ Hash!StrNext /\ UNCHANGED <<v9, v10>>
           \/ part = "statictable" /\ Hash!StaticNext /\ UNCHANGED <<v9, v10>>
           \/ part = "sorted" /\ Sorted!Next /\ UNCHANGED <<v3, v4, v5, v6, v7, v8, v9, v10>>
           \/ part = "packet" /\ Packet!Next /\ UNCHANGED <<v6, v7, v8, v9, v10>>
           \/ part = "stream" /\ Stream!Next /\ UNCHANGED <<v7, v8, v9, v10>>
           \/ part = "time" /\ Time!Next /\ UNCHANGED <<v6, v7, v8, v9, v10>>
           \/ part = "string" /\ String!Next /\ UNCHANGED <<v7, v8, v9, v10>>
           \/ part = "message" /\ Message!Next
           \/ part = "identity" /\ Person!Next /\ UNCHANGED <<v4, v5, v6, v7, v8, v9, v10>>
           \/ part = "script" /\ Script!Next

Spec == Init /\ [][Next]_vars


\* The headers of the align allocator count the blocks in use under any interleaving.
CountersAgree == part = "align" => Align!CountersAgree





\* Messages of several threads arrive whole, and no hash reads a half filled table.
MessagesWhole == part = "message" => Message!MessagesWhole

================================================================================
