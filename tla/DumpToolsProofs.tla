-------------------------- MODULE DumpToolsProofs --------------------------
(***************************************************************************)
(* Proofs about the two threads that dump through one descriptor and one   *)
(* file name, for every size of the ring and every number of pictures.     *)
(***************************************************************************)
EXTENDS DumpTools, TLAPS

-----------------------------------------------------------------------------
(* The inductive invariant *)

Places    == {"idle", "name", "open", "return", "store", "check", "header", "headed", "write",
              "close"}
Chunks    == {"header", "picture", "raw", "cut"} \X Int
KeptNames == {<<"frame", n>> : n \in DOMAIN kept}
Untouched == {s \in Slots : ring[s] = [id |-> s, pixels |-> s]}

\* processing() dumps only in a frozen system, and in the synchronised build no picture
\* was selected by then.
BuildInv ==
    /\ selected \in Nat /\ waiting \in 0 .. selected /\ freeze_system \in {0, 1}
    /\ frame_num_s \in Nat /\ i \in Nat
    /\ pc \in [Threads -> Places] /\ DOMAIN ret = Threads
    /\ pc["processing"] \notin {"header", "headed"}
    /\ pc["processing"] # "idle" => freeze_system = 1 /\ i < SCAN_BUF_SIZE
    /\ pc["writeout"] # "idle" => selected > 0
    /\ build = "sync" => ~overlap /\ (freeze_system = 1 => selected = 0)

\* No file that is kept is open, or named by a thread about to open one.
KeptInv ==
    /\ \A u \in Threads : pc[u] = "open" => filename \notin KeptNames
    /\ \A d \in DOMAIN open : /\ open[d] = [name |-> open[d].name, at |-> open[d].at]
                             /\ open[d].name \notin KeptNames
    /\ \A n \in DOMAIN kept :
         /\ <<"frame", n>> \in DOMAIN files
         /\ Len(files[<<"frame", n>>]) = 2
         /\ files[<<"frame", n>>][1] \in {<<"header", kept[n]>>, <<"cut", Cut>>}
         /\ files[<<"frame", n>>][2] \in {<<"picture", kept[n]>>, <<"cut", Cut>>}

\* As long as only one thread dumps, the only descriptor is the one in fd, and it is of
\* the file in filename, at position n.
Has(n)  == /\ fd # -1 /\ DOMAIN open = {fd} /\ open[fd] = [name |-> filename, at |-> n]
           /\ filename \in DOMAIN files
HasNone == DOMAIN open = {}

Holds(u) ==
    /\ pc[u] \in {"idle", "name", "open"} => HasNone
    /\ pc[u] \in {"return", "store", "check"} => Has(0) \/ (fd = -1 /\ HasNone)
    /\ pc[u] \in {"store", "headed"} => ret[u] = fd
    /\ pc[u] \in {"header", "headed"} => Has(0)
    /\ pc[u] = "write" => Has(IF u = "writeout" THEN 1 ELSE 0)
    /\ pc[u] = "close" => Has(IF u = "writeout" THEN 2 ELSE 1)

AloneInv == /\ \E u \in Threads : pc[u] = "idle"
            /\ \A u \in Threads : pc[Other(u)] = "idle" => Holds(u)

Fits(f, content) == /\ content \in Seq(Chunks) /\ Len(content) <= 2
                    /\ f[1] = "error" => Len(content) <= 1

\* What is in the files then, and in the one writeout() is at.
FilesInv ==
    /\ \A f \in DOMAIN files : Fits(f, files[f])
    /\ pc["writeout"] \notin {"idle", "name"} => filename = <<"frame", frame_num_s>>
    /\ pc["writeout"] \in {"write", "close"} =>
         Len(files[filename]) >= 1 /\ files[filename][1] \in {<<"header", Picture>>, <<"cut", Cut>>}
    /\ pc["writeout"] = "close" =>
         Len(files[filename]) = 2 /\ files[filename][2] \in {<<"picture", Picture>>, <<"cut", Cut>>}

\* The ring, and the file processing() is at: the id of a slot names the file of that
\* slot only, and is the slot's number until frame() has copied into the slot.
RingInv ==
    /\ slot \in Slots
    /\ ring \in [Slots -> [id : Int, pixels : Int]]
    /\ \A s \in Slots : ring[s].id \in {s, SCAN_BUF_SIZE + s}

SlotInv ==
    /\ pc["processing"] = "name" =>
         /\ ret["processing"] \in {i, SCAN_BUF_SIZE + i}
         /\ i \in Untouched => ret["processing"] = i
    /\ pc["processing"] \notin {"idle", "name"} =>
         /\ filename \in {<<"error", i>>, <<"error", SCAN_BUF_SIZE + i>>}
         /\ i \in Untouched => filename = <<"error", i>>
    /\ \A s \in Slots : <<"error", s>> \in DOMAIN files =>
         /\ s <= i
         /\ s = i => pc["processing"] \in {"return", "store", "check", "write", "close"} /\ fd # -1
         /\ s \in Untouched /\ (s = i => pc["processing"] = "close") =>
              files[<<"error", s>>] \in {<<<<"raw", s>>>>, <<<<"cut", Cut>>>>}

DumpInv == BuildInv /\ KeptInv /\ RingInv /\ (~overlap => AloneInv /\ FilesInv /\ SlotInv)

-----------------------------------------------------------------------------
(* Proofs *)

\* There are two threads.
LEMMA TwoThreads ==
    ASSUME NEW u \in Threads
    PROVE  Other(u) \in Threads /\ Other(u) # u /\ Other(Other(u)) = u /\ Threads = {u, Other(u)}
BY DEF Threads, Other

\* A step of one thread leaves the place of the other alone.
LEMMA GotoStep ==
    ASSUME pc \in [Threads -> Places], NEW u \in Threads, NEW place \in Places, Goto(u, place)
    PROVE  /\ pc' \in [Threads -> Places]
           /\ pc'[u] = place /\ pc'[Other(u)] = pc[Other(u)]
BY TwoThreads DEF Goto

\* q after e is written at position n
Written(q, n, e) == [k \in 1 .. Len(q) \cup {n + 1} |-> IF k = n + 1 THEN e ELSE q[k]]

\* A sequence stays one when its next entry is written, or over one it has.
LEMMA WriteEntry ==
    ASSUME NEW S, NEW q \in Seq(S), NEW n \in 0 .. Len(q), NEW e \in S
    PROVE  /\ Written(q, n, e) \in Seq(S)
           /\ Len(Written(q, n, e)) = IF n = Len(q) THEN n + 1 ELSE Len(q)
           /\ Written(q, n, e)[n + 1] = e
           /\ \A k \in 1 .. Len(q) : k # n + 1 => Written(q, n, e)[k] = q[k]
<1> DEFINE r == Written(q, n, e)
<1> DEFINE m == IF n = Len(q) THEN n + 1 ELSE Len(q)
<1>1. m \in Nat /\ 1 .. Len(q) \cup {n + 1} = 1 .. m
  OBVIOUS
<1>2. r = [k \in 1 .. m |-> IF k = n + 1 THEN e ELSE q[k]]
  BY <1>1, Zenon DEF Written
<1>3. \A k \in 1 .. m : (IF k = n + 1 THEN e ELSE q[k]) \in S
  OBVIOUS
<1> HIDE DEF m, r
<1>4. m \in Nat
  BY <1>1
<1>5. r \in Seq(S) /\ Len(r) = m
  BY <1>2, <1>3, <1>4
<1>6. n + 1 \in 1 .. m /\ 1 .. Len(q) \subseteq 1 .. m
  BY DEF m
<1>7. r[n + 1] = e /\ \A k \in 1 .. Len(q) : k # n + 1 => r[k] = q[k]
  BY <1>2, <1>6
<1> QED
  BY <1>5, <1>7 DEF m, r

\* What a write to the one open file does, when only one thread dumps.
LEMMA WriteAlone ==
    ASSUME NEW n \in Nat, Has(n), NEW chunk \in Chunks, Write(fd, chunk), Cut \in Int,
           files[filename] \in Seq(Chunks), n <= Len(files[filename]),
           UNCHANGED <<fd, filename>>
    PROVE  /\ Has(n + 1)'
           /\ DOMAIN files' = DOMAIN files
           /\ \A f \in DOMAIN files : f # filename => files'[f] = files[f]
           /\ files'[filename] \in Seq(Chunks)
           /\ Len(files'[filename]) = IF n = Len(files[filename]) THEN n + 1 ELSE Len(files[filename])
           /\ files'[filename][n + 1] \in {chunk, <<"cut", Cut>>}
           /\ \A k \in 1 .. Len(files[filename]) :
                k # n + 1 => files'[filename][k] = files[filename][k]
<1> DEFINE q == files[filename]
<1>1. fd \in DOMAIN open /\ open[fd] = [name |-> filename, at |-> n] /\ filename \in DOMAIN files
  BY DEF Has
<1>2. /\ open' = [open EXCEPT ![fd].at = @ + 1]
      /\ \E put \in {chunk, <<"cut", Cut>>} :
           files' = [files EXCEPT ![filename] =
                       [k \in 1 .. Len(@) \cup {n + 1} |-> IF k = n + 1 THEN put ELSE @[k]]]
  <2>1. /\ open' = [open EXCEPT ![fd].at = @ + 1]
        /\ \E put \in {chunk} \cup (IF NoCutYet THEN {<<"cut", Cut>>} ELSE {}) :
             files' = [files EXCEPT ![open[fd].name] =
                         [k \in 1 .. Len(@) \cup {open[fd].at + 1} |->
                            IF k = open[fd].at + 1 THEN put ELSE @[k]]]
    BY <1>1, Zenon DEF Write
  <2>2. open[fd].name = filename /\ open[fd].at = n
    BY <1>1
  <2> QED
    BY <2>1, <2>2
<1>3. Has(n + 1)'
  <2>1. open'[fd] = [name |-> filename, at |-> n + 1] /\ DOMAIN open' = DOMAIN open
    BY <1>1, <1>2
  <2>2. DOMAIN files' = DOMAIN files
    BY <1>2
  <2> QED
    BY <1>1, <2>1, <2>2 DEF Has
<1>4. PICK put \in {chunk, <<"cut", Cut>>} :
        files' = [files EXCEPT ![filename] =
                    [k \in 1 .. Len(@) \cup {n + 1} |-> IF k = n + 1 THEN put ELSE @[k]]]
  BY <1>2
<1>5. put \in Chunks
  BY DEF Chunks
<1> DEFINE r == files'[filename]
<1>6. r = [k \in 1 .. Len(q) \cup {n + 1} |-> IF k = n + 1 THEN put ELSE q[k]]
  BY <1>1, <1>4
<1>7. q \in Seq(Chunks) /\ n \in 0 .. Len(q)
  OBVIOUS
<1>8. DOMAIN files' = DOMAIN files /\ \A f \in DOMAIN files : f # filename => files'[f] = files[f]
  BY <1>4
<1> HIDE DEF q, r
<1>9. /\ r \in Seq(Chunks)
      /\ Len(r) = IF n = Len(q) THEN n + 1 ELSE Len(q)
      /\ r[n + 1] = put
      /\ \A k \in 1 .. Len(q) : k # n + 1 => r[k] = q[k]
  <2>1. r = Written(q, n, put)
    BY <1>6 DEF Written
  <2> QED
    <3>1. /\ Written(q, n, put) \in Seq(Chunks)
          /\ Len(Written(q, n, put)) = IF n = Len(q) THEN n + 1 ELSE Len(q)
          /\ Written(q, n, put)[n + 1] = put
          /\ \A k \in 1 .. Len(q) : k # n + 1 => Written(q, n, put)[k] = q[k]
      BY <1>5, <1>7, WriteEntry
    <3> HIDE DEF Written
    <3> QED
      BY <2>1, <3>1
<1> QED
  BY <1>3, <1>8, <1>9 DEF q, r

\* Whatever is open, a write changes only a file that is.
LEMMA WriteElsewhere ==
    ASSUME KeptInv, NEW d, NEW chunk, Write(d, chunk)
    PROVE  /\ DOMAIN open' = DOMAIN open
           /\ \A e \in DOMAIN open : /\ open'[e] = [name |-> open'[e].name, at |-> open'[e].at]
                                     /\ open'[e].name = open[e].name
           /\ \A n \in DOMAIN kept : /\ <<"frame", n>> \in DOMAIN files'
                                     /\ files'[<<"frame", n>>] = files[<<"frame", n>>]
<1>1. CASE d \notin DOMAIN open
  BY <1>1 DEF Write, KeptInv
<1>2. CASE d \in DOMAIN open
  <2>1. open' = [open EXCEPT ![d].at = @ + 1]
    BY <1>2 DEF Write
  <2>2. open'[d] = [name |-> open[d].name, at |-> open[d].at + 1]
    <3>1. open[d] = [name |-> open[d].name, at |-> open[d].at]
      BY <1>2 DEF KeptInv
    <3>2. open'[d] = [open[d] EXCEPT !.at = @ + 1]
      BY <1>2, <2>1
    <3> QED
      BY <3>1, <3>2
  <2>3. \A e \in DOMAIN open : e # d => open'[e] = open[e]
    BY <2>1
  <2>4. \E new : files' = [files EXCEPT ![open[d].name] = new]
    BY <1>2 DEF Write
  <2>5. \A n \in DOMAIN kept : <<"frame", n>> # open[d].name
    BY <1>2 DEF KeptInv, KeptNames
  <2>6. \A n \in DOMAIN kept : /\ <<"frame", n>> \in DOMAIN files'
                               /\ files'[<<"frame", n>>] = files[<<"frame", n>>]
    BY <2>4, <2>5 DEF KeptInv
  <2> QED
    BY <1>2, <2>1, <2>2, <2>3, <2>6 DEF KeptInv
<1> QED
  BY <1>1, <1>2

-----------------------------------------------------------------------------
(* When there is something to dump *)

\* Nothing is dumped, selected or open at the start.
LEMMA DumpInit == Init => DumpInv
<1> SUFFICES ASSUME Init PROVE DumpInv
  OBVIOUS
<1> USE DumpToolsAssumption DEF Init
<1>1. DOMAIN open = {} /\ DOMAIN files = {} /\ DOMAIN kept = {}
  OBVIOUS
<1>2. BuildInv
  BY DEF BuildInv, Threads, Places
<1>3. KeptInv
  BY <1>1 DEF KeptInv, KeptNames
<1>4. RingInv
  BY DEF RingInv, Slots
<1>5. AloneInv
  BY <1>1 DEF AloneInv, Holds, HasNone, Threads, Other
<1>6. FilesInv /\ SlotInv
  BY <1>1 DEF FilesInv, SlotInv, Threads
<1> QED
  BY <1>2, <1>3, <1>4, <1>5, <1>6 DEF DumpInv

\* processing() dumps only after the freeze; in the synchronised build writeout() then
\* never has a picture.
LEMMA BuildStep == BuildInv /\ [Next]_vars => BuildInv'
<1> SUFFICES ASSUME BuildInv, [Next]_vars PROVE BuildInv'
  OBVIOUS
<1> USE DumpToolsAssumption DEF BuildInv, queueVars, dumpVars, frameVars
<1>1. CASE Select
  BY <1>1 DEF Select
<1>2. CASE Freeze
  BY <1>2 DEF Freeze, FreezeAllowed
<1>3. CASE PictureArrives
  <2>1. "writeout" \in Threads /\ "processing" \in Threads /\ Other("writeout") = "processing"
    BY DEF Threads, Other
  <2>2. /\ pc' \in [Threads -> Places]
        /\ pc'["writeout"] = "name" /\ pc'["processing"] = pc["processing"]
    BY <1>3, <2>1, GotoStep DEF PictureArrives, Begins, Places
  <2> QED
    <3>1. waiting > 0 /\ waiting' = waiting - 1 /\ selected' = selected /\ freeze_system' = freeze_system
      BY <1>3 DEF PictureArrives
    <3>2. pc["processing"] = "idle" \/ build # "sync"
      BY <3>1
    <3>3. overlap' = (overlap \/ pc["processing"] # "idle") /\ build' = build
      BY <1>3, <2>1 DEF PictureArrives, Begins
    <3>4. build' = "sync" => ~overlap' /\ (freeze_system' = 1 => selected' = 0)
      BY <3>1, <3>2, <3>3
    <3> QED
      BY <1>3, <2>2, <3>1, <3>4 DEF PictureArrives
<1>4. CASE SlotDump
  <2>1. "writeout" \in Threads /\ "processing" \in Threads /\ Other("processing") = "writeout"
    BY DEF Threads, Other
  <2>2. /\ pc' \in [Threads -> Places]
        /\ pc'["processing"] = "name" /\ pc'["writeout"] = pc["writeout"]
    BY <1>4, <2>1, GotoStep DEF SlotDump, Begins, Places
  <2> QED
    <3>1. /\ freeze_system = 1 /\ i < SCAN_BUF_SIZE /\ i' = i
          /\ UNCHANGED <<selected, waiting, freeze_system, build, frame_num_s>> /\ DOMAIN ret' = DOMAIN ret
      BY <1>4 DEF SlotDump
    <3>2. pc["writeout"] = "idle" \/ build # "sync"
      BY <3>1
    <3>3. overlap' = (overlap \/ pc["writeout"] # "idle")
      BY <1>4, <2>1 DEF SlotDump, Begins
    <3>4. build' = "sync" => ~overlap' /\ (freeze_system' = 1 => selected' = 0)
      BY <3>1, <3>2, <3>3
    <3> QED
      BY <2>2, <3>1, <3>4
<1>5. ASSUME NEW u \in Threads, NEW place \in Places, Goto(u, place), pc[u] # "idle", Rest,
             DOMAIN ret' = DOMAIN ret, frame_num_s' \in Nat,
             i' = i \/ (i' = i + 1 /\ u = "processing" /\ place = "idle"),
             u = "processing" => place \notin {"header", "headed"}
      PROVE  BuildInv'
  <2>1. pc' \in [Threads -> Places] /\ pc'[u] = place /\ \A t \in Threads : t # u => pc'[t] = pc[t]
    BY <1>5 DEF Goto
  <2>2. pc'["processing"] \notin {"header", "headed"}
    BY <1>5, <2>1 DEF Threads
  <2>3. pc'["processing"] # "idle" => pc["processing"] # "idle" /\ i' < SCAN_BUF_SIZE
    BY <1>5, <2>1 DEF Threads
  <2>4. pc'["writeout"] # "idle" => pc["writeout"] # "idle"
    BY <1>5, <2>1 DEF Threads
  <2> QED
    BY <1>5, <2>1, <2>2, <2>3, <2>4 DEF Rest
<1>6. ASSUME NEW u \in Threads, Name(u) \/ Open(u) \/ Return(u) \/ Store(u) \/ WriteBuffer(u)
      PROVE  BuildInv'
  BY <1>5, <1>6 DEF Name, Open, Return, Store, WriteBuffer, Step, Places
<1>7. ASSUME NEW u \in Threads, Check(u) PROVE BuildInv'
  <2>1. CASE fd = -1
    BY <1>5, <1>7, <2>1 DEF Check, NextSlot, Places
  <2>2. CASE fd # -1
    BY <1>5, <1>7, <2>2 DEF Check, NextSlot, Places
  <2> QED
    BY <2>1, <2>2
<1>8. ASSUME NEW u \in Threads, Close(u) PROVE BuildInv'
  <2>1. frame_num_s' \in Nat
    BY <1>8 DEF Close, NextNumber
  <2> QED
    BY <1>5, <1>8, <2>1 DEF Close, Step, NextSlot, Places
<1>9. CASE Header \/ WriteHeader
  BY <1>5, <1>9 DEF Header, WriteHeader, Step, Places, Threads
<1>10. CASE FrameCopies \/ FrameCopied
  BY <1>10 DEF FrameCopies, FrameCopied, FrameStep
<1>11. CASE UNCHANGED vars
  BY <1>11 DEF vars
<1> QED
  BY <1>1, <1>2, <1>3, <1>4, <1>6, <1>7, <1>8, <1>9, <1>10, <1>11 DEF Next

-----------------------------------------------------------------------------
(* The files that are kept *)

\* Numbers make different names.
LEMMA FrameNames == \A m, n : <<"frame", m>> = <<"frame", n>> => m = n
OBVIOUS

\* No step writes to a file that is kept, and none names or opens one: a number whose
\* turn it is again is not kept any more.
LEMMA KeptStep == DumpInv /\ [Next]_vars => KeptInv'
<1> SUFFICES ASSUME DumpInv, [Next]_vars PROVE KeptInv'
  OBVIOUS
<1> USE DEF queueVars, dumpVars, frameVars
<1>0. KeptInv /\ pc \in [Threads -> Places]
  BY DEF DumpInv, BuildInv
<1>1. ASSUME UNCHANGED <<filename, open, files, kept>>,
             \A u \in Threads : pc'[u] = "open" => pc[u] = "open"
      PROVE  KeptInv'
  BY <1>0, <1>1 DEF KeptInv, KeptNames
<1>2. CASE Select \/ Freeze \/ FrameCopies \/ FrameCopied \/ UNCHANGED vars
  BY <1>1, <1>2 DEF Select, Freeze, FrameCopies, FrameCopied, FrameStep, vars
<1>3. ASSUME NEW u \in Threads, NEW place \in Places, Goto(u, place), place # "open",
             UNCHANGED <<filename, open, files, kept>>
      PROVE  KeptInv'
  <2>1. \A t \in Threads : pc'[t] = "open" => pc[t] = "open"
    BY <1>0, <1>3 DEF Goto
  <2> QED
    BY <1>1, <1>3, <2>1
<1>4. CASE PictureArrives \/ SlotDump
  BY <1>3, <1>4 DEF PictureArrives, SlotDump, Begins, Threads, Places
<1>5. ASSUME NEW u \in Threads, Return(u) \/ Store(u) \/ Check(u) PROVE KeptInv'
  BY <1>3, <1>5 DEF Return, Store, Check, Step, Places
<1>6. CASE Header
  BY <1>3, <1>6 DEF Header, Step, Threads, Places
<1>7. ASSUME NEW u \in Threads, Name(u) PROVE KeptInv'
  <2>1. /\ kept' = [n \in DOMAIN kept \ (IF u = "writeout" THEN {frame_num_s} ELSE {}) |-> kept[n]]
        /\ filename' = IF u = "writeout" THEN <<"frame", frame_num_s>> ELSE <<"error", ret[u]>>
        /\ UNCHANGED <<open, files>>
    BY <1>7 DEF Name
  <2>2. /\ DOMAIN kept' \subseteq DOMAIN kept
        /\ \A n \in DOMAIN kept' : kept'[n] = kept[n]
        /\ u = "writeout" => frame_num_s \notin DOMAIN kept'
    BY <2>1
  <2>3. filename' \notin KeptNames'
    <3>1. CASE u = "writeout"
      BY <2>1, <2>2, <3>1, FrameNames DEF KeptNames
    <3>2. CASE u # "writeout"
      BY <2>1, <3>2 DEF KeptNames
    <3> QED
      BY <3>1, <3>2
  <2>4. KeptNames' \subseteq KeptNames
    BY <2>2 DEF KeptNames
  <2> QED
    BY <1>0, <2>1, <2>2, <2>3, <2>4 DEF KeptInv
<1>8. ASSUME NEW u \in Threads, Open(u) PROVE KeptInv'
  <2>1. pc[u] = "open" /\ Goto(u, "return") /\ UNCHANGED <<filename, kept>>
    BY <1>8 DEF Open, Step
  <2>2. \A t \in Threads : pc'[t] = "open" => pc[t] = "open"
    BY <1>0, <2>1 DEF Goto
  <2>3. filename \notin KeptNames /\ KeptNames' = KeptNames
    BY <1>0, <2>1 DEF KeptInv, KeptNames
  <2>4. CASE UNCHANGED <<open, files>>
    BY <1>1, <2>1, <2>2, <2>4
  <2>5. ASSUME NEW new,
               open' = [d \in DOMAIN open \cup {new} |->
                          IF d = new THEN [name |-> filename, at |-> Position] ELSE open[d]],
               files' = [f \in DOMAIN files \cup {filename} |->
                           IF f \in DOMAIN files THEN files[f] ELSE <<>>]
        PROVE  KeptInv'
    <3>1. \A d \in DOMAIN open' : /\ open'[d] = [name |-> open'[d].name, at |-> open'[d].at]
                                  /\ open'[d].name \notin KeptNames
      <4> SUFFICES ASSUME NEW d \in DOMAIN open'
                   PROVE  /\ open'[d] = [name |-> open'[d].name, at |-> open'[d].at]
                          /\ open'[d].name \notin KeptNames
        OBVIOUS
      <4>1. CASE d = new
        BY <2>3, <2>5, <4>1
      <4>2. CASE d # new
        BY <1>0, <2>5, <4>2 DEF KeptInv
      <4> QED
        BY <4>1, <4>2
    <3>2. \A n \in DOMAIN kept : /\ <<"frame", n>> \in DOMAIN files'
                                 /\ files'[<<"frame", n>>] = files[<<"frame", n>>]
      BY <1>0, <2>5 DEF KeptInv
    <3> QED
      BY <1>0, <2>1, <2>2, <2>3, <3>1, <3>2 DEF KeptInv
  <2> DEFINE free == CHOOSE d \in 1 .. 5 : d \notin DOMAIN open /\ 1 .. d - 1 \subseteq DOMAIN open
  <2>6. \/ /\ open' = [d \in DOMAIN open \cup {free} |->
                          IF d = free THEN [name |-> filename, at |-> Position] ELSE open[d]]
           /\ files' = [f \in DOMAIN files \cup {filename} |->
                           IF f \in DOMAIN files THEN files[f] ELSE <<>>]
        \/ UNCHANGED <<open, files>>
    BY <1>8, Zenon DEF Open
  <2> HIDE DEF free
  <2> QED
    BY <2>4, <2>5, <2>6
<1>9. ASSUME NEW u \in Threads, NEW d, NEW chunk, Write(d, chunk), Goto(u, "write") \/ Goto(u, "close"),
             UNCHANGED <<filename, kept>>
      PROVE  KeptInv'
  <2>1. /\ DOMAIN open' = DOMAIN open
        /\ \A e \in DOMAIN open : /\ open'[e] = [name |-> open'[e].name, at |-> open'[e].at]
                                  /\ open'[e].name = open[e].name
        /\ \A n \in DOMAIN kept : /\ <<"frame", n>> \in DOMAIN files'
                                  /\ files'[<<"frame", n>>] = files[<<"frame", n>>]
    BY <1>0, <1>9, WriteElsewhere
  <2>2. \A t \in Threads : pc'[t] = "open" => pc[t] = "open"
    BY <1>0, <1>9 DEF Goto
  <2>3. KeptNames' = KeptNames
    BY <1>9 DEF KeptNames
  <2> QED
    BY <1>0, <1>9, <2>1, <2>2, <2>3 DEF KeptInv
<1>10. ASSUME NEW u \in Threads, WriteBuffer(u) PROVE KeptInv'
  BY <1>9, <1>10 DEF WriteBuffer, Step
<1>11. CASE WriteHeader
  BY <1>9, <1>11 DEF WriteHeader, Step, Threads
<1>12. ASSUME NEW u \in Threads, Close(u) PROVE KeptInv'
  <2>1. /\ pc[u] = "close" /\ Goto(u, "idle") /\ open' = [d \in DOMAIN open \ {fd} |-> open[d]]
        /\ UNCHANGED <<filename, files, overlap>>
    BY <1>12 DEF Close, Closed, Step, Rest
  <2>2. \A t \in Threads : pc'[t] = "open" => pc[t] = "open"
    BY <1>0, <2>1 DEF Goto
  <2>3. CASE UNCHANGED kept
    <3>1. DOMAIN open' \subseteq DOMAIN open /\ \A d \in DOMAIN open' : open'[d] = open[d]
      BY <2>1
    <3> QED
      BY <1>0, <2>1, <2>2, <2>3, <3>1 DEF KeptInv, KeptNames
  <2>4. CASE u = "writeout" /\ ~overlap
    <3>1. pc[Other(u)] = "idle" /\ Other(u) \in Threads /\ Threads = {u, Other(u)}
      BY <2>1, <2>4, TwoThreads DEF DumpInv, AloneInv
    <3>2. Holds(u) /\ FilesInv
      BY <2>4, <3>1 DEF DumpInv, AloneInv
    <3>3. DOMAIN open' = {}
      BY <2>1, <3>2 DEF Holds, Has
    <3>4. \A t \in Threads : pc'[t] # "open"
      BY <1>0, <2>1, <3>1 DEF Goto
    <3>5. /\ filename = <<"frame", frame_num_s>> /\ filename \in DOMAIN files
          /\ Len(files[filename]) = 2
          /\ files[filename][1] \in {<<"header", Picture>>, <<"cut", Cut>>}
          /\ files[filename][2] \in {<<"picture", Picture>>, <<"cut", Cut>>}
      BY <2>1, <2>4, <3>2 DEF Holds, Has, FilesInv
    <3>6. /\ DOMAIN kept' = DOMAIN kept \cup {frame_num_s} /\ kept'[frame_num_s] = Picture
          /\ \A n \in DOMAIN kept : n # frame_num_s => kept'[n] = kept[n]
      BY <1>12, <2>4 DEF Close
    <3> QED
      BY <1>0, <2>1, <3>3, <3>4, <3>5, <3>6 DEF KeptInv
  <2> QED
    BY <1>12, <2>3, <2>4 DEF Close
<1> QED
  BY <1>2, <1>4, <1>5, <1>6, <1>7, <1>8, <1>10, <1>11, <1>12 DEF Next

-----------------------------------------------------------------------------
(* The ring, which frame() may still copy into *)

\* A slot frame() has copied into never looks untouched again, and its new id is not
\* the number of any slot.
LEMMA RingStep ==
    RingInv /\ [Next]_vars => /\ RingInv' /\ Untouched' \subseteq Untouched
                             /\ \A s \in Slots : ring'[s].id \in {ring[s].id, SCAN_BUF_SIZE + s}
<1> SUFFICES ASSUME RingInv, [Next]_vars
             PROVE  /\ RingInv' /\ Untouched' \subseteq Untouched
                    /\ \A s \in Slots : ring'[s].id \in {ring[s].id, SCAN_BUF_SIZE + s}
  OBVIOUS
<1> USE DumpToolsAssumption DEF RingInv, Untouched
<1>1. CASE FrameCopies
  <2>1. ring' = [ring EXCEPT ![slot] = [ring[slot] EXCEPT !.pixels = Mixed]] /\ slot' = slot
    BY <1>1 DEF FrameCopies, FrameStep
  <2>2. ring'[slot] = [id |-> ring[slot].id, pixels |-> -2] /\ \A s \in Slots : s # slot => ring'[s] = ring[s]
    BY <2>1 DEF Mixed
  <2>3. ring' \in [Slots -> [id : Int, pixels : Int]]
    BY <2>1, <2>2
  <2> QED
    BY <2>1, <2>2, <2>3 DEF Slots
<1>2. CASE FrameCopied
  <2>1. ring' = [ring EXCEPT ![slot] = [id |-> NewId, pixels |-> NewId]]
        /\ slot' = (slot + 1) % SCAN_BUF_SIZE
    BY <1>2 DEF FrameCopied, FrameStep
  <2>2. slot' \in Slots
    BY <2>1 DEF Slots
  <2>3. ring'[slot] = [id |-> SCAN_BUF_SIZE + slot, pixels |-> SCAN_BUF_SIZE + slot]
        /\ \A s \in Slots : s # slot => ring'[s] = ring[s]
    BY <2>1 DEF NewId
  <2>4. ring' \in [Slots -> [id : Int, pixels : Int]]
    BY <2>1, <2>3 DEF Slots, NewId
  <2>5. \A s \in Slots : ring'[s].id \in {ring[s].id, SCAN_BUF_SIZE + s}
    BY <2>3
  <2>6. slot \notin Untouched'
    BY <2>3 DEF Slots
  <2>7. Untouched' \subseteq Untouched
    BY <2>3, <2>6
  <2> QED
    BY <2>2, <2>4, <2>5, <2>7
<1>3. CASE UNCHANGED <<ring, slot>>
  BY <1>3
<1> QED
  BY <1>1, <1>2, <1>3 DEF Next, Select, Freeze, PictureArrives, SlotDump, Name, Open, Return, Store,
     Check, WriteBuffer, Close, Header, WriteHeader, Rest, frameVars, vars

-----------------------------------------------------------------------------
(* One thread dumps at a time *)

\* The thread that dumps is the only one, and has what its place says.
LEMMA Alone ==
    ASSUME DumpInv, ~overlap, NEW u \in Threads, pc[u] # "idle"
    PROVE  pc[Other(u)] = "idle" /\ Holds(u)
BY TwoThreads DEF DumpInv, AloneInv

\* The new descriptor is the only one, of a file that is empty or has what it had.
LEMMA OpenAlone ==
    ASSUME DumpInv, ~overlap, NEW u \in Threads, Open(u)
    PROVE  /\ \/ fd' = -1 /\ HasNone' /\ files' = files
              \/ /\ Has(0)'
                 /\ files' = [f \in DOMAIN files \cup {filename} |->
                                IF f \in DOMAIN files THEN files[f] ELSE <<>>]
           /\ filename' = filename
<1>1. HasNone /\ filename' = filename
  BY Alone DEF Open, Step, Holds
<1> DEFINE free == CHOOSE d \in 1 .. 5 : d \notin DOMAIN open /\ 1 .. d - 1 \subseteq DOMAIN open
<1>2. \/ /\ fd' = free
         /\ open' = [d \in DOMAIN open \cup {free} |->
                        IF d = free THEN [name |-> filename, at |-> Position] ELSE open[d]]
         /\ files' = [f \in DOMAIN files \cup {filename} |->
                         IF f \in DOMAIN files THEN files[f] ELSE <<>>]
      \/ fd' = -1 /\ UNCHANGED <<open, files>>
  BY Zenon DEF Open
<1>3. free \in 1 .. 5
  <2>1. 1 \in 1 .. 5 /\ 1 \notin DOMAIN open /\ 1 .. 1 - 1 \subseteq DOMAIN open
    BY <1>1 DEF HasNone
  <2> QED
    BY <2>1
<1> HIDE DEF free
<1>4. ASSUME fd' = free,
             open' = [d \in DOMAIN open \cup {free} |->
                        IF d = free THEN [name |-> filename, at |-> Position] ELSE open[d]],
             files' = [f \in DOMAIN files \cup {filename} |->
                         IF f \in DOMAIN files THEN files[f] ELSE <<>>]
      PROVE  Has(0)'
  <2>1. DOMAIN open' = {free} /\ open'[free] = [name |-> filename, at |-> 0]
    BY <1>1, <1>4 DEF HasNone, Position
  <2>2. filename \in DOMAIN files'
    BY <1>4
  <2> QED
    BY <1>1, <1>3, <1>4, <2>1, <2>2 DEF Has
<1>5. ASSUME UNCHANGED <<open, files>> PROVE HasNone'
  BY <1>1, <1>5 DEF HasNone
<1> QED
  BY <1>1, <1>2, <1>4, <1>5

\* The header goes to the beginning of the file.
LEMMA HeaderAlone ==
    ASSUME DumpInv, ~overlap, WriteHeader
    PROVE  /\ Has(1)' /\ UNCHANGED <<fd, filename>>
           /\ DOMAIN files' = DOMAIN files
           /\ \A f \in DOMAIN files : f # filename => files'[f] = files[f]
           /\ files'[filename] \in Seq(Chunks) /\ Len(files'[filename]) >= 1 /\ Len(files'[filename]) <= 2
           /\ files'[filename][1] \in {<<"header", Picture>>, <<"cut", Cut>>}
<1> DEFINE chunk == <<"header", Picture>>
<1>1. Holds("writeout") /\ pc["writeout"] = "headed"
  BY Alone DEF WriteHeader, Step, Threads
<1>2. Has(0) /\ ret["writeout"] = fd /\ UNCHANGED <<fd, filename>>
  BY <1>1 DEF Holds, WriteHeader
<1>3. Write(fd, chunk)
  BY <1>2 DEF WriteHeader
<1>4. chunk \in Chunks /\ Cut \in Int
  BY DEF Chunks, Picture, DumpInv, BuildInv, Cut
<1>5. /\ filename = <<"frame", frame_num_s>>
      /\ files[filename] \in Seq(Chunks) /\ Len(files[filename]) \in Nat /\ Len(files[filename]) <= 2
  <2>1. filename = <<"frame", frame_num_s>> /\ filename \in DOMAIN files
    BY <1>1, <1>2 DEF Has, DumpInv, FilesInv
  <2>2. files[filename] \in Seq(Chunks) /\ Len(files[filename]) <= 2
    BY <2>1 DEF DumpInv, FilesInv, Fits
  <2>3. Len(files[filename]) \in Nat
    BY <2>2
  <2> QED
    BY <2>1, <2>2, <2>3
<1> HIDE DEF chunk
<1>6. /\ Has(0 + 1)' /\ DOMAIN files' = DOMAIN files
      /\ \A f \in DOMAIN files : f # filename => files'[f] = files[f]
      /\ files'[filename] \in Seq(Chunks)
      /\ Len(files'[filename]) = IF 0 = Len(files[filename]) THEN 0 + 1 ELSE Len(files[filename])
      /\ files'[filename][0 + 1] \in {chunk, <<"cut", Cut>>}
  <2>1. 0 \in Nat /\ 0 <= Len(files[filename])
    BY <1>5
  <2> QED
    BY <1>2, <1>3, <1>4, <1>5, <2>1, WriteAlone
<1> QED
  BY <1>2, <1>5, <1>6 DEF chunk

\* The pixels go after the header, or to the beginning of a file without one; that is
\* then the end of it.
LEMMA BufferAlone ==
    ASSUME DumpInv, ~overlap, NEW u \in Threads, WriteBuffer(u)
    PROVE  LET n == IF u = "writeout" THEN 1 ELSE 0
               chunk == IF u = "writeout" THEN <<"picture", Picture>> ELSE <<"raw", ring[i].pixels>>
           IN  /\ Has(n + 1)' /\ UNCHANGED <<fd, filename>>
               /\ DOMAIN files' = DOMAIN files
               /\ \A f \in DOMAIN files : f # filename => files'[f] = files[f]
               /\ files'[filename] \in Seq(Chunks) /\ Len(files'[filename]) = n + 1
               /\ files'[filename][n + 1] \in {chunk, <<"cut", Cut>>}
               /\ u = "writeout" => files'[filename][1] = files[filename][1]
<1> DEFINE n == IF u = "writeout" THEN 1 ELSE 0
           chunk == IF u = "writeout" THEN <<"picture", Picture>> ELSE <<"raw", ring[i].pixels>>
<1>1. Holds(u) /\ pc[u] = "write" /\ pc[Other(u)] = "idle"
  BY Alone DEF WriteBuffer, Step
<1>2. Has(n) /\ n \in Nat /\ UNCHANGED <<fd, filename>> /\ filename \in DOMAIN files
  BY <1>1 DEF Holds, Has, WriteBuffer
<1>3. Write(fd, chunk)
  BY DEF WriteBuffer
<1>4. chunk \in Chunks /\ Cut \in Int
  <2>1. CASE u = "writeout"
    BY <2>1 DEF Chunks, Picture, DumpInv, BuildInv, Cut
  <2>2. CASE u = "processing"
    <3>1. i \in Slots
      BY <1>1, <2>2, DumpToolsAssumption DEF DumpInv, BuildInv, Slots
    <3>2. ring[i].pixels \in Int
      BY <3>1 DEF DumpInv, RingInv
    <3> QED
      BY <2>2, <3>2 DEF Chunks, Cut
  <2> QED
    BY <2>1, <2>2 DEF Threads
<1>5. /\ files[filename] \in Seq(Chunks) /\ Len(files[filename]) \in Nat
      /\ n <= Len(files[filename]) /\ Len(files[filename]) <= n + 1
  <2>1. files[filename] \in Seq(Chunks) /\ Len(files[filename]) <= 2
    BY <1>2 DEF DumpInv, FilesInv, Fits
  <2>2. filename[1] = "error" => Len(files[filename]) <= 1
    BY <1>2 DEF DumpInv, FilesInv, Fits
  <2>3. CASE u = "writeout"
    <3>1. Len(files[filename]) >= 1
      BY <1>1, <2>3 DEF DumpInv, FilesInv
    <3> QED
      BY <2>1, <2>3, <3>1
  <2>4. CASE u = "processing"
    <3>1. filename[1] = "error"
      BY <1>1, <2>4 DEF DumpInv, SlotInv
    <3>2. Len(files[filename]) <= 1
      BY <2>2, <3>1
    <3> QED
      BY <2>1, <2>4, <3>2
  <2> QED
    BY <2>3, <2>4 DEF Threads
<1> HIDE DEF chunk, n
<1>6. /\ Has(n + 1)' /\ DOMAIN files' = DOMAIN files
      /\ \A f \in DOMAIN files : f # filename => files'[f] = files[f]
      /\ files'[filename] \in Seq(Chunks)
      /\ Len(files'[filename]) = IF n = Len(files[filename]) THEN n + 1 ELSE Len(files[filename])
      /\ files'[filename][n + 1] \in {chunk, <<"cut", Cut>>}
      /\ \A k \in 1 .. Len(files[filename]) :
           k # n + 1 => files'[filename][k] = files[filename][k]
  <2>1. n <= Len(files[filename])
    BY <1>2, <1>5
  <2> QED
    BY <1>2, <1>3, <1>4, <1>5, <2>1, WriteAlone
<1>7. Len(files'[filename]) = n + 1
  BY <1>2, <1>5, <1>6
<1>8. u = "writeout" => files'[filename][1] = files[filename][1]
  BY <1>2, <1>5, <1>6 DEF n
<1> QED
  BY <1>2, <1>6, <1>7, <1>8 DEF n, chunk

\* What is to be shown of the thread that makes a step.
LEMMA AloneFrom ==
    ASSUME NEW u \in Threads, pc'[Other(u)] = "idle", Holds(u)', pc'[u] = "idle" => HasNone'
    PROVE  AloneInv'
<1>1. Other(u) \in Threads
  BY TwoThreads
<1> SUFFICES ASSUME NEW t \in Threads, pc'[Other(t)] = "idle" PROVE Holds(t)'
  BY <1>1 DEF AloneInv
<1>2. CASE t = u
  BY <1>2
<1>3. CASE t = Other(u)
  <2>1. pc'[u] = "idle" /\ HasNone' /\ pc'[t] = "idle"
    BY <1>3, TwoThreads
  <2> QED
    BY <2>1 DEF Holds
<1> QED
  BY <1>2, <1>3, TwoThreads

\* One thread at a time opens one file, writes it and closes it.
LEMMA AloneStep == DumpInv /\ [Next]_vars /\ ~overlap' => AloneInv'
<1> SUFFICES ASSUME DumpInv, [Next]_vars, ~overlap' PROVE AloneInv'
  OBVIOUS
<1> USE DEF queueVars, dumpVars, frameVars
<1>0. pc \in [Threads -> Places] /\ DOMAIN ret = Threads
  BY DEF DumpInv, BuildInv
<1>1. CASE Select \/ Freeze \/ FrameCopies \/ FrameCopied \/ UNCHANGED vars
  <2>1. UNCHANGED <<fd, filename, open, files, pc, ret, overlap>>
    BY <1>1 DEF Select, Freeze, FrameCopies, FrameCopied, FrameStep, vars
  <2> QED
    BY <2>1 DEF DumpInv, AloneInv, Holds, Has, HasNone
<1>2. ASSUME NEW u \in Threads, Begins(u), UNCHANGED open PROVE AloneInv'
  <2>1. ~overlap /\ pc[u] = "idle" /\ pc[Other(u)] = "idle"
    BY <1>2 DEF Begins
  <2>2. HasNone
    BY <2>1 DEF DumpInv, AloneInv, Holds
  <2>3. pc'[u] = "name" /\ pc'[Other(u)] = "idle"
    BY <1>0, <1>2, <2>1, GotoStep DEF Begins, Places
  <2>4. Holds(u)'
    BY <1>2, <2>2, <2>3 DEF Holds, HasNone
  <2> QED
    BY <2>3, <2>4, AloneFrom
<1>3. CASE PictureArrives \/ SlotDump
  BY <1>2, <1>3 DEF PictureArrives, SlotDump, Threads
<1>4. ASSUME NEW u \in Threads, NEW place \in Places, pc[u] # "idle", Goto(u, place), UNCHANGED overlap
      PROVE  ~overlap /\ pc'[u] = place /\ pc'[Other(u)] = "idle" /\ Holds(u)
  BY <1>0, <1>4, Alone, GotoStep
<1>5. ASSUME NEW u \in Threads, Name(u) PROVE AloneInv'
  <2>1. pc[u] = "name" /\ pc'[u] = "open" /\ pc'[Other(u)] = "idle" /\ Holds(u) /\ UNCHANGED open
    BY <1>4, <1>5 DEF Name, Step, Rest, Places
  <2>2. Holds(u)'
    BY <2>1 DEF Holds, HasNone
  <2> QED
    BY <2>1, <2>2, AloneFrom
<1>6. ASSUME NEW u \in Threads, Open(u) PROVE AloneInv'
  <2>1. ~overlap /\ pc'[u] = "return" /\ pc'[Other(u)] = "idle"
    BY <1>4, <1>6 DEF Open, Step, Rest, Places
  <2>2. (fd' = -1 /\ HasNone') \/ Has(0)'
    BY <1>6, <2>1, OpenAlone
  <2>3. Holds(u)'
    BY <2>1, <2>2 DEF Holds
  <2> QED
    BY <2>1, <2>3, AloneFrom
<1>7. ASSUME NEW u \in Threads, Return(u) PROVE AloneInv'
  <2>1. /\ pc[u] = "return" /\ pc'[u] = "store" /\ pc'[Other(u)] = "idle" /\ Holds(u)
        /\ UNCHANGED <<fd, filename, open, files>> /\ ret'[u] = fd
    BY <1>0, <1>4, <1>7 DEF Return, Step, Rest, Places
  <2>2. Holds(u)'
    BY <2>1 DEF Holds, Has, HasNone
  <2> QED
    BY <2>1, <2>2, AloneFrom
<1>8. ASSUME NEW u \in Threads, Store(u) PROVE AloneInv'
  <2>1. /\ pc[u] = "store" /\ pc'[u] = "check" /\ pc'[Other(u)] = "idle" /\ Holds(u)
        /\ UNCHANGED <<filename, open, files>> /\ fd' = ret[u]
    BY <1>4, <1>8 DEF Store, Step, Rest, Places
  <2>2. fd' = fd /\ (Has(0) \/ (fd = -1 /\ HasNone))
    BY <2>1 DEF Holds
  <2>3. Holds(u)'
    BY <2>1, <2>2 DEF Holds, Has, HasNone
  <2> QED
    BY <2>1, <2>3, AloneFrom
<1>9. ASSUME NEW u \in Threads, Check(u) PROVE AloneInv'
  <2>1. PICK place \in {"idle", "header", "write"} :
          /\ Goto(u, place)
          /\ fd = -1 <=> place = "idle"
          /\ place # "idle" => place = IF u = "writeout" THEN "header" ELSE "write"
    BY <1>9 DEF Check
  <2>2. /\ pc[u] = "check" /\ pc'[u] = place /\ pc'[Other(u)] = "idle" /\ Holds(u)
        /\ UNCHANGED <<fd, filename, open, files>>
    BY <1>4, <1>9, <2>1 DEF Check, Rest, Places
  <2>3. Has(0) \/ (fd = -1 /\ HasNone)
    BY <2>2 DEF Holds
  <2>4. place = "idle" => HasNone'
    BY <2>1, <2>2, <2>3 DEF Has, HasNone
  <2>5. place # "idle" => Has(0)'
    BY <2>1, <2>2, <2>3 DEF Has, HasNone
  <2>6. Holds(u)'
    BY <2>1, <2>2, <2>4, <2>5 DEF Holds
  <2> QED
    BY <2>2, <2>4, <2>6, AloneFrom
<1>10. CASE Header
  <2>1. "writeout" \in Threads
    BY DEF Threads
  <2>2. /\ pc["writeout"] = "header" /\ pc'["writeout"] = "headed"
        /\ pc'[Other("writeout")] = "idle" /\ Holds("writeout")
        /\ UNCHANGED <<fd, filename, open, files>> /\ ret'["writeout"] = fd
    BY <1>0, <1>4, <1>10, <2>1 DEF Header, Step, Rest, Places
  <2>3. Holds("writeout")'
    BY <2>2 DEF Holds, Has
  <2> QED
    BY <2>1, <2>2, <2>3, AloneFrom
<1>11. CASE WriteHeader
  <2>1. "writeout" \in Threads
    BY DEF Threads
  <2>2. ~overlap /\ pc'["writeout"] = "write" /\ pc'[Other("writeout")] = "idle"
    BY <1>4, <1>11, <2>1 DEF WriteHeader, Step, Rest, Places
  <2>3. Has(1)'
    BY <1>11, <2>2, HeaderAlone
  <2>4. Holds("writeout")'
    BY <2>2, <2>3 DEF Holds
  <2> QED
    BY <2>1, <2>2, <2>4, AloneFrom
<1>12. ASSUME NEW u \in Threads, WriteBuffer(u) PROVE AloneInv'
  <2>1. ~overlap /\ pc'[u] = "close" /\ pc'[Other(u)] = "idle"
    BY <1>4, <1>12 DEF WriteBuffer, Step, Rest, Places
  <2>2. Has((IF u = "writeout" THEN 1 ELSE 0) + 1)'
    BY <1>12, <2>1, BufferAlone
  <2>3. Has(IF u = "writeout" THEN 2 ELSE 1)'
    BY <2>2
  <2>4. Holds(u)'
    BY <2>1, <2>3 DEF Holds
  <2> QED
    BY <2>1, <2>4, AloneFrom
<1>13. ASSUME NEW u \in Threads, Close(u) PROVE AloneInv'
  <2>1. /\ pc[u] = "close" /\ pc'[u] = "idle" /\ pc'[Other(u)] = "idle" /\ Holds(u)
        /\ open' = [d \in DOMAIN open \ {fd} |-> open[d]]
    BY <1>4, <1>13 DEF Close, Closed, Step, Rest, Places
  <2>2. HasNone'
    BY <2>1 DEF Holds, Has, HasNone
  <2>3. Holds(u)'
    BY <2>1, <2>2 DEF Holds
  <2> QED
    BY <2>1, <2>2, <2>3, AloneFrom
<1> QED
  BY <1>1, <1>3, <1>5, <1>6, <1>7, <1>8, <1>9, <1>10, <1>11, <1>12, <1>13 DEF Next

\* The pictures stay in order as long as the descriptor is not shared: the file of the
\* picture writeout() is at is written from its beginning.
LEMMA FilesStep == DumpInv /\ [Next]_vars /\ ~overlap' => FilesInv'
<1> SUFFICES ASSUME DumpInv, [Next]_vars, ~overlap' PROVE FilesInv'
  OBVIOUS
<1> USE DEF queueVars, dumpVars, frameVars
<1>0. pc \in [Threads -> Places] /\ "writeout" \in Threads /\ "processing" \in Threads
  BY DEF DumpInv, BuildInv, Threads
<1>1. ~overlap => FilesInv
  BY DEF DumpInv
<1>2. ASSUME UNCHANGED <<filename, files, frame_num_s, pc, overlap>>, Picture' = Picture
      PROVE  FilesInv'
  BY <1>1, <1>2 DEF FilesInv
<1>3. CASE Select \/ Freeze \/ FrameCopies \/ FrameCopied \/ UNCHANGED vars
  <2>1. UNCHANGED <<filename, files, frame_num_s, pc, overlap>>
    BY <1>3 DEF Select, Freeze, FrameCopies, FrameCopied, FrameStep, vars
  <2>2. selected \in Nat /\ waiting \in Nat
    BY DEF DumpInv, BuildInv
  <2>3. CASE Select
    BY <1>2, <2>1, <2>2, <2>3 DEF Select, Picture
  <2>4. CASE ~Select
    BY <1>2, <1>3, <2>1, <2>4 DEF Freeze, FrameCopies, FrameCopied, FrameStep, vars, Picture
  <2> QED
    BY <2>3, <2>4
<1>4. CASE PictureArrives
  <2>1. pc'["writeout"] = "name" /\ UNCHANGED files /\ ~overlap
    BY <1>0, <1>4, GotoStep DEF PictureArrives, Begins, Places
  <2> QED
    BY <1>1, <2>1 DEF FilesInv
<1>5. CASE SlotDump
  <2>1. /\ pc'["writeout"] = pc["writeout"] /\ UNCHANGED <<filename, files, frame_num_s>> /\ ~overlap
        /\ Picture' = Picture
    BY <1>0, <1>5, GotoStep DEF SlotDump, Begins, Places, Picture, Threads, Other
  <2> QED
    BY <1>1, <2>1 DEF FilesInv
<1>6. ASSUME NEW u \in Threads, pc[u] # "idle", ~overlap, u = "processing"
      PROVE  pc["writeout"] = "idle"
  BY <1>6, Alone DEF Other
<1>7. ASSUME NEW u \in Threads, NEW place \in Places, pc[u] # "idle", Goto(u, place), ~overlap,
             UNCHANGED <<files, frame_num_s>>, Picture' = Picture,
             u = "writeout" => /\ place # "idle" => filename' = <<"frame", frame_num_s>>
                               /\ place \notin {"write", "close"}
      PROVE  FilesInv'
  <2>1. pc'[u] = place /\ pc'[Other(u)] = pc[Other(u)]
    BY <1>0, <1>7, GotoStep
  <2>2. CASE u = "writeout"
    BY <1>1, <1>7, <2>1, <2>2 DEF FilesInv
  <2>3. CASE u = "processing"
    <3>1. pc'["writeout"] = "idle"
      BY <1>6, <1>7, <2>1, <2>3 DEF Other
    <3> QED
      BY <1>1, <1>7, <3>1 DEF FilesInv
  <2> QED
    BY <2>2, <2>3 DEF Threads
<1>8. ASSUME NEW u \in Threads, Name(u) PROVE FilesInv'
  BY <1>7, <1>8 DEF Name, Step, Rest, Places, Picture
<1>9. ASSUME NEW u \in Threads, Return(u) \/ Store(u) PROVE FilesInv'
  BY <1>1, <1>7, <1>9 DEF Return, Store, Step, Rest, Places, Picture, FilesInv
<1>10. CASE Header
  BY <1>0, <1>1, <1>7, <1>10 DEF Header, Step, Rest, Places, Picture, FilesInv
<1>11. ASSUME NEW u \in Threads, Check(u) PROVE FilesInv'
  <2>1. PICK place \in {"idle", "header", "write"} :
          Goto(u, place) /\ (place = "write" => u # "writeout")
    BY <1>11 DEF Check
  <2>2. /\ pc[u] = "check" /\ ~overlap /\ UNCHANGED <<filename, files, frame_num_s>>
        /\ Picture' = Picture
    BY <1>11 DEF Check, Rest, Picture
  <2>3. u = "writeout" => filename' = <<"frame", frame_num_s>>
    BY <1>1, <2>2 DEF FilesInv
  <2> QED
    BY <1>7, <2>1, <2>2, <2>3 DEF Places
<1>12. ASSUME NEW u \in Threads, Open(u) PROVE FilesInv'
  <2>1. /\ pc[u] = "open" /\ pc'[u] = "return" /\ pc'[Other(u)] = pc[Other(u)] /\ ~overlap
        /\ UNCHANGED <<filename, frame_num_s>>
    BY <1>0, <1>12, GotoStep DEF Open, Step, Rest, Places
  <2>2. \/ files' = files
        \/ files' = [f \in DOMAIN files \cup {filename} |-> IF f \in DOMAIN files THEN files[f] ELSE <<>>]
    BY <1>12, <2>1, OpenAlone
  <2>3. \A f \in DOMAIN files' : files'[f] = <<>> \/ (f \in DOMAIN files /\ files'[f] = files[f])
    BY <2>2
  <2>4. \A f \in DOMAIN files' : Fits(f, files'[f])
    <3>1. \A f : Fits(f, <<>>)
      BY DEF Fits
    <3> QED
      BY <1>1, <2>1, <2>3, <3>1 DEF FilesInv
  <2>5. CASE u = "writeout"
    BY <1>1, <2>1, <2>4, <2>5 DEF FilesInv
  <2>6. CASE u = "processing"
    <3>1. pc'["writeout"] = "idle"
      BY <1>6, <2>1, <2>6 DEF Other
    <3> QED
      BY <2>4, <3>1 DEF FilesInv
  <2> QED
    BY <2>5, <2>6 DEF Threads
<1>13. CASE WriteHeader
  <2>1. /\ pc["writeout"] = "headed" /\ pc'["writeout"] = "write" /\ ~overlap
        /\ UNCHANGED <<filename, frame_num_s>> /\ Picture' = Picture
    BY <1>0, <1>13, GotoStep DEF WriteHeader, Step, Rest, Places, Picture
  <2>2. /\ DOMAIN files' = DOMAIN files
        /\ \A f \in DOMAIN files : f # filename => files'[f] = files[f]
        /\ files'[filename] \in Seq(Chunks) /\ Len(files'[filename]) >= 1 /\ Len(files'[filename]) <= 2
        /\ files'[filename][1] \in {<<"header", Picture>>, <<"cut", Cut>>}
    BY <1>13, <2>1, HeaderAlone
  <2>3. filename = <<"frame", frame_num_s>> /\ filename[1] # "error"
    BY <1>1, <2>1 DEF FilesInv
  <2>4. \A f \in DOMAIN files' : Fits(f, files'[f])
    <3>1. Fits(filename, files'[filename])
      BY <2>2, <2>3 DEF Fits
    <3> QED
      BY <1>1, <2>1, <2>2, <3>1 DEF FilesInv
  <2> QED
    BY <2>1, <2>2, <2>3, <2>4 DEF FilesInv
<1>14. ASSUME NEW u \in Threads, WriteBuffer(u) PROVE FilesInv'
  <2>1. /\ pc[u] = "write" /\ pc'[u] = "close" /\ pc'[Other(u)] = pc[Other(u)] /\ ~overlap
        /\ UNCHANGED <<filename, frame_num_s>> /\ Picture' = Picture
    BY <1>0, <1>14, GotoStep DEF WriteBuffer, Step, Rest, Places, Picture
  <2>2. /\ DOMAIN files' = DOMAIN files
        /\ \A f \in DOMAIN files : f # filename => files'[f] = files[f]
        /\ files'[filename] \in Seq(Chunks)
    BY <1>14, <2>1, BufferAlone
  <2>3. CASE u = "writeout"
    <3>1. /\ Len(files'[filename]) = 2
          /\ files'[filename][2] \in {<<"picture", Picture>>, <<"cut", Cut>>}
          /\ files'[filename][1] = files[filename][1]
      <4>1. /\ Len(files'[filename]) = 1 + 1
            /\ files'[filename][1 + 1] \in {<<"picture", Picture>>, <<"cut", Cut>>}
            /\ files'[filename][1] = files[filename][1]
        BY <1>14, <2>1, <2>3, BufferAlone
      <4> QED
        BY <4>1
    <3>2. /\ filename = <<"frame", frame_num_s>> /\ filename[1] # "error"
          /\ files[filename][1] \in {<<"header", Picture>>, <<"cut", Cut>>}
      BY <1>1, <2>1, <2>3 DEF FilesInv
    <3>3. \A f \in DOMAIN files' : Fits(f, files'[f])
      <4>1. Fits(filename, files'[filename])
        BY <2>2, <3>1, <3>2 DEF Fits
      <4> QED
        BY <1>1, <2>1, <2>2, <4>1 DEF FilesInv
    <3> QED
      BY <2>1, <2>3, <3>1, <3>2, <3>3 DEF FilesInv
  <2>4. CASE u = "processing"
    <3>1. Len(files'[filename]) = 1
      <4>1. Len(files'[filename]) = 0 + 1
        BY <1>14, <2>1, <2>4, BufferAlone
      <4> QED
        BY <4>1
    <3>2. pc'["writeout"] = "idle"
      BY <1>6, <2>1, <2>4 DEF Other
    <3>3. \A f \in DOMAIN files' : Fits(f, files'[f])
      <4>1. Fits(filename, files'[filename])
        BY <2>2, <3>1 DEF Fits
      <4> QED
        BY <1>1, <2>1, <2>2, <4>1 DEF FilesInv
    <3> QED
      BY <3>2, <3>3 DEF FilesInv
  <2> QED
    BY <2>3, <2>4 DEF Threads
<1>15. ASSUME NEW u \in Threads, Close(u) PROVE FilesInv'
  <2>1. pc[u] = "close" /\ pc'[u] = "idle" /\ pc'[Other(u)] = pc[Other(u)] /\ ~overlap /\ UNCHANGED files
    BY <1>0, <1>15, GotoStep DEF Close, Step, Rest, Places
  <2>2. pc'["writeout"] = "idle"
    BY <1>6, <2>1 DEF Threads, Other
  <2> QED
    BY <1>1, <2>1, <2>2 DEF FilesInv
<1> QED
  BY <1>3, <1>4, <1>5, <1>8, <1>9, <1>10, <1>11, <1>12, <1>13, <1>14, <1>15 DEF Next

\* The dump of a slot holds what the slot held, because the file it goes to is the
\* slot's own and writeout(), which is idle then, has none of those open.
LEMMA SlotStep == DumpInv /\ [Next]_vars /\ ~overlap' => SlotInv'
<1> SUFFICES ASSUME DumpInv, [Next]_vars, ~overlap' PROVE SlotInv'
  OBVIOUS
<1> USE DEF queueVars, dumpVars, frameVars
<1>0. /\ pc \in [Threads -> Places] /\ DOMAIN ret = Threads /\ i \in Nat
      /\ "writeout" \in Threads /\ "processing" \in Threads
      /\ SCAN_BUF_SIZE \in Nat /\ \A s \in Slots : s \in Nat /\ s < SCAN_BUF_SIZE
  BY DumpToolsAssumption DEF DumpInv, BuildInv, Threads, Slots
<1>1. ~overlap => SlotInv
  BY DEF DumpInv
<1>2. Untouched' \subseteq Untouched
  BY RingStep DEF DumpInv
<1>3. ASSUME UNCHANGED <<files, i, fd>>, pc'["processing"] = pc["processing"], ~overlap,
             pc["processing"] # "idle" => ret'["processing"] = ret["processing"] /\ filename' = filename
      PROVE  SlotInv'
  BY <1>1, <1>2, <1>3 DEF SlotInv
<1>4. CASE Select \/ Freeze \/ FrameCopies \/ FrameCopied \/ UNCHANGED vars
  <2>1. UNCHANGED <<files, i, fd, pc, ret, filename, overlap>>
    BY <1>4 DEF Select, Freeze, FrameCopies, FrameCopied, FrameStep, vars
  <2> QED
    BY <1>3, <2>1
<1>5. ASSUME pc["processing"] = "idle", pc'["processing"] = "idle", ~overlap, UNCHANGED i,
             \A s \in Slots : <<"error", s>> \in DOMAIN files' =>
               <<"error", s>> \in DOMAIN files /\ files'[<<"error", s>>] = files[<<"error", s>>]
      PROVE  SlotInv'
  BY <1>0, <1>1, <1>2, <1>5 DEF SlotInv
<1>6. ASSUME NEW place \in Places, pc["writeout"] # "idle", Goto("writeout", place), UNCHANGED overlap
      PROVE  pc["processing"] = "idle" /\ pc'["processing"] = "idle" /\ ~overlap
  <2>1. ~overlap /\ Other("writeout") = "processing"
    BY <1>6 DEF Other
  <2> QED
    BY <1>0, <1>6, <2>1, Alone, GotoStep
<1>7. CASE PictureArrives
  <2>1. UNCHANGED <<files, i, fd, ret, filename>> /\ Begins("writeout")
    BY <1>7 DEF PictureArrives
  <2>2. ~overlap /\ pc'["processing"] = pc["processing"]
    BY <1>0, <2>1, GotoStep DEF Begins, Places, Other
  <2> QED
    BY <1>3, <2>1, <2>2
<1>8. CASE Name("writeout") \/ Return("writeout") \/ Header \/ Store("writeout")
      \/ Check("writeout") \/ Close("writeout")
  <2>1. UNCHANGED <<files, i, overlap>> /\ pc["writeout"] # "idle"
    BY <1>8 DEF Name, Return, Header, Store, Check, Close, Step, Rest, NextSlot
  <2>2. PICK place \in Places : Goto("writeout", place)
    BY <1>8 DEF Name, Return, Header, Store, Check, Close, Step, Places
  <2> QED
    BY <1>5, <1>6, <2>1, <2>2
<1>9. CASE Open("writeout")
  <2>1. /\ pc["writeout"] = "open" /\ ~overlap /\ UNCHANGED i
        /\ pc["processing"] = "idle" /\ pc'["processing"] = "idle"
    BY <1>6, <1>9 DEF Open, Step, Rest, Places
  <2>2. \/ files' = files
        \/ files' = [f \in DOMAIN files \cup {filename} |-> IF f \in DOMAIN files THEN files[f] ELSE <<>>]
    BY <1>0, <1>9, <2>1, OpenAlone
  <2>3. filename = <<"frame", frame_num_s>>
    BY <2>1 DEF DumpInv, FilesInv
  <2>4. \A s \in Slots : <<"error", s>> \in DOMAIN files' =>
          <<"error", s>> \in DOMAIN files /\ files'[<<"error", s>>] = files[<<"error", s>>]
    BY <2>2, <2>3
  <2> QED
    BY <1>5, <2>1, <2>4
<1>10. CASE WriteHeader \/ WriteBuffer("writeout")
  <2>1. /\ pc["writeout"] \in {"headed", "write"} /\ ~overlap /\ UNCHANGED i
        /\ pc["processing"] = "idle" /\ pc'["processing"] = "idle"
    BY <1>6, <1>10 DEF WriteHeader, WriteBuffer, Step, Rest, Places
  <2>2. /\ DOMAIN files' = DOMAIN files
        /\ \A f \in DOMAIN files : f # filename => files'[f] = files[f]
    BY <1>0, <1>10, <2>1, HeaderAlone, BufferAlone
  <2>3. filename = <<"frame", frame_num_s>>
    BY <2>1 DEF DumpInv, FilesInv
  <2> QED
    BY <1>5, <2>1, <2>2, <2>3
<1>11. CASE SlotDump
  <2>1. /\ pc["processing"] = "idle" /\ pc'["processing"] = "name" /\ ~overlap
        /\ ret'["processing"] = ring[i].id /\ i < SCAN_BUF_SIZE
        /\ UNCHANGED <<files, i, fd, ring>>
    BY <1>0, <1>11, GotoStep DEF SlotDump, Begins, Places
  <2>2. i \in Slots /\ ring[i].id \in {i, SCAN_BUF_SIZE + i} /\ (i \in Untouched => ring[i].id = i)
    BY <1>0, <2>1 DEF Slots, DumpInv, RingInv, Untouched
  <2> QED
    BY <1>0, <1>1, <1>2, <2>1, <2>2 DEF SlotInv
<1>12. ASSUME NEW place \in Places, pc["processing"] # "idle", Goto("processing", place), UNCHANGED overlap
       PROVE  pc'["processing"] = place /\ ~overlap /\ Holds("processing") /\ SlotInv
  BY <1>0, <1>1, <1>12, Alone, GotoStep
<1>13. CASE Name("processing")
  <2>1. /\ pc["processing"] = "name" /\ pc'["processing"] = "open" /\ SlotInv
        /\ filename' = <<"error", ret["processing"]>> /\ UNCHANGED <<files, i, fd>>
    BY <1>12, <1>13 DEF Name, Step, Rest, Places
  <2> QED
    BY <1>2, <2>1 DEF SlotInv
<1>14. CASE Return("processing")
  <2>1. /\ pc["processing"] = "return" /\ pc'["processing"] = "store" /\ SlotInv
        /\ UNCHANGED <<files, filename, i, fd>>
    BY <1>12, <1>14 DEF Return, Step, Rest, Places
  <2> QED
    BY <1>2, <2>1 DEF SlotInv
<1>15. CASE Store("processing")
  <2>1. /\ pc["processing"] = "store" /\ pc'["processing"] = "check" /\ SlotInv
        /\ Holds("processing") /\ UNCHANGED <<files, filename, i>> /\ fd' = ret["processing"]
    BY <1>12, <1>15 DEF Store, Step, Rest, Places
  <2>2. fd' = fd
    BY <2>1 DEF Holds
  <2> QED
    BY <1>2, <2>1, <2>2 DEF SlotInv
<1>16. CASE Open("processing")
  <2>1. /\ pc["processing"] = "open" /\ pc'["processing"] = "return" /\ SlotInv /\ ~overlap
        /\ UNCHANGED <<filename, i>>
    BY <1>12, <1>16 DEF Open, Step, Rest, Places
  <2>2. \/ files' = files
        \/ /\ fd' # -1
           /\ files' = [f \in DOMAIN files \cup {filename} |-> IF f \in DOMAIN files THEN files[f] ELSE <<>>]
    BY <1>0, <1>16, <2>1, OpenAlone DEF Has
  <2>3. /\ filename \in {<<"error", i>>, <<"error", SCAN_BUF_SIZE + i>>}
        /\ i \in Untouched => filename = <<"error", i>>
    BY <2>1 DEF SlotInv
  <2>4. ASSUME NEW s \in Slots, <<"error", s>> \in DOMAIN files'
        PROVE  \/ s # i /\ <<"error", s>> \in DOMAIN files /\ files'[<<"error", s>>] = files[<<"error", s>>]
               \/ s = i /\ fd' # -1
    BY <1>0, <2>1, <2>2, <2>3, <2>4 DEF SlotInv
  <2>5. ASSUME NEW s \in Slots, <<"error", s>> \in DOMAIN files'
        PROVE  /\ s <= i
               /\ s = i => fd' # -1
               /\ s \in Untouched /\ s # i =>
                    files'[<<"error", s>>] \in {<<<<"raw", s>>>>, <<<<"cut", Cut>>>>}
    BY <1>0, <2>1, <2>4, <2>5 DEF SlotInv
  <2> QED
    BY <1>2, <2>1, <2>3, <2>5 DEF SlotInv
<1>17. CASE Check("processing")
  <2>1. PICK place \in {"idle", "write"} :
          Goto("processing", place) /\ (fd = -1 <=> place = "idle")
          /\ i' = IF place = "idle" THEN i + 1 ELSE i
    BY <1>17 DEF Check, NextSlot
  <2>2. /\ pc["processing"] = "check" /\ pc'["processing"] = place /\ SlotInv
        /\ UNCHANGED <<files, filename, fd>>
    BY <1>12, <1>17, <2>1 DEF Check, Rest, Places
  <2>3. CASE place = "idle"
    <3>1. fd = -1 /\ i' = i + 1
      BY <2>1, <2>3
    <3>2. \A s \in Slots : <<"error", s>> \in DOMAIN files => s < i
      BY <1>0, <2>2, <3>1 DEF SlotInv
    <3> QED
      BY <1>0, <1>2, <2>2, <2>3, <3>1, <3>2 DEF SlotInv
  <2>4. CASE place = "write"
    BY <1>2, <2>1, <2>2, <2>4 DEF SlotInv
  <2> QED
    BY <2>3, <2>4
<1>18. CASE WriteBuffer("processing")
  <2>1. /\ pc["processing"] = "write" /\ pc'["processing"] = "close" /\ SlotInv /\ ~overlap
        /\ UNCHANGED <<filename, i, fd, ring>>
    BY <1>12, <1>18 DEF WriteBuffer, Step, Rest, Places
  <2>2. /\ DOMAIN files' = DOMAIN files
        /\ \A f \in DOMAIN files : f # filename => files'[f] = files[f]
        /\ files'[filename] \in Seq(Chunks)
        /\ Len(files'[filename]) = 1
        /\ files'[filename][1] \in {<<"raw", ring[i].pixels>>, <<"cut", Cut>>}
    <3>1. /\ DOMAIN files' = DOMAIN files
          /\ \A f \in DOMAIN files : f # filename => files'[f] = files[f]
          /\ files'[filename] \in Seq(Chunks)
          /\ Len(files'[filename]) = 0 + 1
          /\ files'[filename][0 + 1] \in {<<"raw", ring[i].pixels>>, <<"cut", Cut>>}
      BY <1>0, <1>18, <2>1, BufferAlone
    <3> QED
      BY <3>1
  <2>3. /\ filename \in {<<"error", i>>, <<"error", SCAN_BUF_SIZE + i>>}
        /\ i \in Untouched => filename = <<"error", i>>
    BY <2>1 DEF SlotInv
  <2>4. i \in Untouched => files'[<<"error", i>>] \in {<<<<"raw", i>>>>, <<<<"cut", Cut>>>>}
    <3>1. files'[filename] = <<files'[filename][1]>>
      BY <2>2
    <3> QED
      BY <2>2, <2>3, <3>1 DEF Untouched
  <2>5. ASSUME NEW s \in Slots, <<"error", s>> \in DOMAIN files', s # i
        PROVE  <<"error", s>> \in DOMAIN files /\ files'[<<"error", s>>] = files[<<"error", s>>]
    BY <1>0, <2>2, <2>3, <2>5
  <2>6. fd' # -1 \/ \A s \in Slots : <<"error", s>> \in DOMAIN files' => s # i
    BY <2>1, <2>2 DEF SlotInv
  <2> QED
    BY <1>2, <2>1, <2>2, <2>3, <2>4, <2>5, <2>6 DEF SlotInv
<1>19. CASE Close("processing")
  <2>1. /\ pc["processing"] = "close" /\ pc'["processing"] = "idle" /\ SlotInv
        /\ i' = i + 1 /\ UNCHANGED <<files, filename, fd>>
    BY <1>12, <1>19 DEF Close, NextSlot, Step, Rest, Places
  <2> QED
    BY <1>0, <1>2, <2>1 DEF SlotInv
<1>20. ASSUME NEW u \in Threads PROVE u = "writeout" \/ u = "processing"
  BY DEF Threads
<1> QED
  BY <1>4, <1>7, <1>8, <1>9, <1>10, <1>11, <1>13, <1>14, <1>15, <1>16, <1>17, <1>18, <1>19, <1>20 DEF Next

-----------------------------------------------------------------------------
(* The invariant, and what it says of the files *)

\* Every step keeps the invariant.
LEMMA DumpStep == DumpInv /\ [Next]_vars => DumpInv'
BY BuildStep, KeptStep, RingStep, AloneStep, FilesStep, SlotStep DEF DumpInv

\* Whatever the two threads do with the shared fd and filename: one of them at a time
\* dumps, or both do and the files that were finished before stay as they were.
THEOREM DumpInvariance == Spec => []DumpInv
<1>1. Init => DumpInv
  BY DumpInit
<1>2. DumpInv /\ [Next]_vars => DumpInv'
  BY DumpStep
<1> QED
  BY <1>1, <1>2, PTL DEF Spec

\* dump_raw_buffer_with_header: no picture that was finished is spoilt by the dump of
\* the scan ring, for every size of the ring and of the directory of pictures.
THEOREM PicturesStayWhole == Spec => []PicturesWhole
<1>1. DumpInv => PicturesWhole
  BY DEF DumpInv, BuildInv, KeptInv, PicturesWhole
<1> QED
  BY <1>1, DumpInvariance, PTL

\* dump_buffer_raw: the file of a slot shows the slot as it was at the freeze.
THEOREM DumpsStayRight == Spec => []DumpsRight
<1>1. DumpInv => DumpsRight
  <2> SUFFICES ASSUME DumpInv, ~overlap PROVE DumpsRight
    BY DEF DumpsRight
  <2>1. (\A u \in Threads : pc[u] = "idle") => DOMAIN open = {}
    <3>1. "writeout" \in Threads /\ Other("writeout") \in Threads
      BY DEF Threads, Other
    <3> QED
      BY <3>1 DEF DumpInv, AloneInv, Holds, HasNone
  <2>2. ASSUME NEW s \in Slots, s < i, ring[s] = [id |-> s, pixels |-> s], <<"error", s>> \in DOMAIN files
        PROVE  files[<<"error", s>>] \in {<<<<"raw", s>>>>, <<<<"cut", Cut>>>>}
    <3>1. s \in Untouched /\ s # i
      BY <2>2 DEF Untouched, Slots, DumpInv, BuildInv
    <3> QED
      BY <2>2, <3>1 DEF DumpInv, SlotInv
  <2> QED
    BY <2>1, <2>2 DEF DumpsRight
<1> QED
  BY <1>1, DumpInvariance, PTL

=============================================================================
