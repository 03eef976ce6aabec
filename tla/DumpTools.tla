----------------------------- MODULE DumpTools -----------------------------
(***************************************************************************)
(* dumptools.c.  writeout() writes each picture to ./frames, processing()   *)
(* dumps the scan ring to ./errors when it freezes the system, and both go  *)
(* through the same globals fd and filename.  frame() may still copy a      *)
(* frame or two into the ring that is dumped.                               *)
(***************************************************************************)
EXTENDS Integers, Sequences

CONSTANTS SCAN_BUF_SIZE, FILE_NUMBER_MAX,
          Pictures,            \* bound: pictures selected
          Posts                \* frames frame() may still be asked for after the freeze

ASSUME DumpToolsAssumption ==
    /\ SCAN_BUF_SIZE \in Nat \ {0} /\ FILE_NUMBER_MAX \in Nat \ {0}
    /\ Pictures \in Nat /\ Posts \in Nat

VARIABLES build,               \* "sync", or "detect" (MODE_ALWAYS_DETECT_FRAME)
          fd, filename,        \* the globals of dumptools.c
          open, files,         \* the kernel: descriptors, and the content of each file
          frame_num_s,
          pc, ret,             \* of writeout() and processing(): place and local value
          selected, waiting,   \* pictures sent to writeout(), and still in the queue
          freeze_system, i,
          ring, slot, posts, fpc,   \* the scan ring and frame()
          kept, overlap        \* history: files finished before, and that, both dumped at once

dumpVars  == <<fd, filename, open, files, frame_num_s, pc, ret>>
queueVars == <<selected, waiting, freeze_system>>
frameVars == <<ring, slot, posts, fpc>>
vars == <<build, dumpVars, queueVars, i, frameVars, kept, overlap>>

Threads == {"writeout", "processing"}
Slots   == 0 .. SCAN_BUF_SIZE - 1
Mixed   == -2                  \* pixels of two frames
Cut     == -3                  \* "all bytes not written"
Picture == selected - waiting  \* the picture writeout() has taken

Init ==
    /\ build \in {"sync", "detect"}
    /\ fd = -1 /\ filename = <<"none", 0>> /\ open = <<>> /\ files = <<>> /\ frame_num_s = 0
    /\ pc = [u \in Threads |-> "idle"] /\ ret = [u \in Threads |-> -1]
    /\ selected = 0 /\ waiting = 0 /\ freeze_system = 0 /\ i = 0
    /\ ring = [s \in Slots |-> [id |-> s, pixels |-> s]]
    /\ slot \in Slots /\ posts = 0 /\ fpc = "idle"
    /\ kept = <<>> /\ overlap = FALSE

Goto(u, place) == pc' = [pc EXCEPT ![u] = place]
Other(u)       == IF u = "writeout" THEN "processing" ELSE "writeout"
Begins(u)      == /\ pc[u] = "idle" /\ Goto(u, "name")
                  /\ overlap' = (overlap \/ pc[Other(u)] # "idle")

-----------------------------------------------------------------------------
(* What leads to a dump *)

Select ==
    /\ freeze_system = 0 /\ selected < Pictures
    /\ selected' = selected + 1 /\ waiting' = waiting + 1
    /\ UNCHANGED <<build, dumpVars, freeze_system, i, frameVars, kept, overlap>>

\* In the synchronised build only the tick before the first selection can freeze
\* the system: FreezeOnlyAtSync of Selection.
FreezeAllowed == build = "sync" => selected = 0

Freeze ==
    /\ freeze_system = 0 /\ FreezeAllowed
    /\ freeze_system' = 1
    /\ posts' \in 0 .. Posts
    /\ UNCHANGED <<build, dumpVars, selected, waiting, i, ring, slot, fpc, kept, overlap>>

\* do_transformations calls dump_raw_buffer_with_header
PictureArrives ==
    /\ waiting > 0 /\ Begins("writeout")
    /\ waiting' = waiting - 1
    /\ UNCHANGED <<build, fd, filename, open, files, frame_num_s, ret, selected, freeze_system,
                   i, frameVars, kept>>

\* processing() calls dump_buffer_raw for slot i
SlotDump ==
    /\ freeze_system = 1 /\ i < SCAN_BUF_SIZE /\ Begins("processing")
    /\ ret' = [ret EXCEPT !["processing"] = ring[i].id]
    /\ UNCHANGED <<build, fd, filename, open, files, frame_num_s, queueVars, i, frameVars, kept>>

-----------------------------------------------------------------------------
(* _open_for_write, dump_raw_buffer_with_header and dump_buffer_raw: one     *)
(* step for each statement that uses fd or filename.  A call of the system   *)
(* is one step with the load of its arguments and the store of its result,   *)
(* and so is snprintf: a name of which each thread stored a part is not in   *)
(* the model.                                                               *)

Step(u, from, to) == pc[u] = from /\ Goto(u, to)
Rest == UNCHANGED <<build, queueVars, frameVars, overlap>>

Name(u) ==
    /\ Step(u, "name", "open")
    /\ filename' = IF u = "writeout" THEN <<"frame", frame_num_s>> ELSE <<"error", ret[u]>>
    /\ kept' = [n \in DOMAIN kept \ (IF u = "writeout" THEN {frame_num_s} ELSE {}) |-> kept[n]]
    /\ ret' = [ret EXCEPT ![u] = -1]
    /\ UNCHANGED <<fd, open, files, frame_num_s, i>> /\ Rest

\* a mistake in Position: O_APPEND
PositionAppend == IF filename \in DOMAIN files THEN Len(files[filename]) ELSE 0

\* O_CREAT without O_TRUNC: what the file has is overwritten
Position == 0

\* the lowest descriptor that is free
Open(u) ==
    /\ Step(u, "open", "return")
    /\ LET new == CHOOSE d \in 1 .. 5 : d \notin DOMAIN open /\ 1 .. d - 1 \subseteq DOMAIN open
       IN  \/ /\ fd' = new
              /\ open' = [d \in DOMAIN open \cup {new} |->
                            IF d = new THEN [name |-> filename, at |-> Position] ELSE open[d]]
              /\ files' = [f \in DOMAIN files \cup {filename} |->
                             IF f \in DOMAIN files THEN files[f] ELSE <<>>]
           \/ fd' = -1 /\ UNCHANGED <<open, files>>
    /\ UNCHANGED <<filename, frame_num_s, ret, i, kept>> /\ Rest

\* "return fd", which is the global
Return(u) ==
    /\ Step(u, "return", "store")
    /\ ret' = [ret EXCEPT ![u] = fd]
    /\ UNCHANGED <<fd, filename, open, files, frame_num_s, i, kept>> /\ Rest

NextSlot(u) == i' = IF u = "processing" THEN i + 1 ELSE i

\* "fd = _open_for_write(...)"
Store(u) ==
    /\ Step(u, "store", "check")
    /\ fd' = ret[u]
    /\ ret' = [ret EXCEPT ![u] = -1]
    /\ UNCHANGED <<filename, open, files, frame_num_s, i, kept>> /\ Rest

\* "if (fd == -1) return", which looks at the global again
Check(u) ==
    /\ pc[u] = "check"
    /\ IF fd = -1 THEN Goto(u, "idle") /\ NextSlot(u)
       ELSE Goto(u, IF u = "writeout" THEN "header" ELSE "write") /\ UNCHANGED i
    /\ UNCHANGED <<fd, filename, open, files, frame_num_s, ret, kept>> /\ Rest

NoCutYet == \A f \in DOMAIN files : \A k \in 1 .. Len(files[f]) : files[f][k] # <<"cut", Cut>>

\* write(d, chunk): all of it, or once (a bound) a part of it, or EBADF
Write(d, chunk) ==
    IF d \in DOMAIN open
      THEN LET e == open[d]
           IN  /\ open' = [open EXCEPT ![d].at = @ + 1]
               /\ \E put \in {chunk} \cup (IF NoCutYet THEN {<<"cut", Cut>>} ELSE {}) :
                    files' = [files EXCEPT ![e.name] =
                                [k \in 1 .. Len(@) \cup {e.at + 1} |-> IF k = e.at + 1 THEN put ELSE @[k]]]
      ELSE UNCHANGED <<open, files>>

\* _header_with_timestamp, called with the global and writing to its argument
Header ==
    /\ Step("writeout", "header", "headed")
    /\ ret' = [ret EXCEPT !["writeout"] = fd]
    /\ UNCHANGED <<fd, filename, open, files, frame_num_s, i, kept>> /\ Rest

WriteHeader ==
    /\ Step("writeout", "headed", "write")
    /\ Write(ret["writeout"], <<"header", Picture>>)
    /\ ret' = [ret EXCEPT !["writeout"] = -1]
    /\ UNCHANGED <<fd, filename, frame_num_s, i, kept>> /\ Rest

WriteBuffer(u) ==
    /\ Step(u, "write", "close")
    /\ Write(fd, IF u = "writeout" THEN <<"picture", Picture>> ELSE <<"raw", ring[i].pixels>>)
    /\ UNCHANGED <<fd, filename, frame_num_s, ret, i, kept>> /\ Rest

\* "Don't fill up disk ;)"
NextNumber == IF frame_num_s + 1 = FILE_NUMBER_MAX THEN 0 ELSE frame_num_s + 1

\* a mistake in Closed: the file is left open
ClosedNot == open

Closed == [d \in DOMAIN open \ {fd} |-> open[d]]

Close(u) ==
    /\ Step(u, "close", "idle")
    /\ open' = Closed
    /\ IF u = "writeout"
         THEN /\ frame_num_s' = NextNumber
              /\ kept' = IF overlap THEN kept
                         ELSE [n \in DOMAIN kept \cup {frame_num_s} |->
                                 IF n = frame_num_s THEN Picture ELSE kept[n]]
         ELSE UNCHANGED <<frame_num_s, kept>>
    /\ NextSlot(u)
    /\ UNCHANGED <<fd, filename, files, ret>> /\ Rest

-----------------------------------------------------------------------------
(* frame(), after the freeze: the copy, and then the id *)

FrameStep(from, to, s) ==
    /\ fpc = from /\ fpc' = to
    /\ ring' = [ring EXCEPT ![slot] = s]
    /\ UNCHANGED <<build, dumpVars, queueVars, i, kept, overlap>>

NewId == SCAN_BUF_SIZE + slot

FrameCopies == /\ posts > 0 /\ UNCHANGED <<slot, posts>>
               /\ FrameStep("idle", "copy", [ring[slot] EXCEPT !.pixels = Mixed])
FrameCopied == /\ slot' = (slot + 1) % SCAN_BUF_SIZE /\ posts' = posts - 1
               /\ FrameStep("copy", "idle", [id |-> NewId, pixels |-> NewId])

Next == \/ Select \/ Freeze \/ PictureArrives \/ SlotDump
        \/ \E u \in Threads : \/ Name(u) \/ Open(u) \/ Return(u) \/ Store(u) \/ Check(u)
                              \/ WriteBuffer(u) \/ Close(u)
        \/ Header \/ WriteHeader
        \/ FrameCopies \/ FrameCopied

Spec == Init /\ [][Next]_vars

-----------------------------------------------------------------------------
(* Properties *)

\* A finished file stays the header and the pixels of one picture, except that a write
\* may have been cut short, until its number comes round: every picture in the
\* synchronised build, where writeout() has nothing to write when the ring is dumped;
\* in the other those finished before both were dumping at once, whatever fd then is and
\* whichever of the two names filename holds.
PicturesWhole ==
    /\ build = "sync" => ~overlap
    /\ \A n \in DOMAIN kept :
         /\ Len(files[<<"frame", n>>]) = 2
         /\ files[<<"frame", n>>][1] \in {<<"header", kept[n]>>, <<"cut", Cut>>}
         /\ files[<<"frame", n>>][2] \in {<<"picture", kept[n]>>, <<"cut", Cut>>}

\* As long as they have not been dumping at once, no descriptor stays open, and the
\* dump named after a slot shows what was in it at the freeze, unless frame() has
\* since copied into that slot.
DumpsRight ==
    ~overlap =>
        /\ (\A u \in Threads : pc[u] = "idle") => DOMAIN open = {}
        /\ \A s \in {t \in Slots : t < i /\ ring[t] = [id |-> t, pixels |-> t]} :
             <<"error", s>> \in DOMAIN files =>
                files[<<"error", s>>] \in {<<<<"raw", s>>>>, <<<<"cut", Cut>>>>}

=============================================================================
