---------------------------- MODULE MemoryImage -----------------------------
(***************************************************************************)
(* The memory of the CPU in the windows of the GUI: the server reads the   *)
(* areas a client asked for after every n-th cycle and sends them          *)
(* (coreserver/server.py, memarea.py), the windows take from a dump what   *)
(* overlaps with them (gui/cpustate.py), and a change in a window writes   *)
(* its whole area back.                                                    *)
(***************************************************************************)
EXTENDS Integers, Sequences, SequencesExt, FiniteSets

CONSTANTS
  Space,      \* the memories there are, each with its number of bytes
  Sealed,     \* those of them a data block's permissions protect
  Byte,       \* what a byte may hold
  Kind,       \* what each window is: "boxes", "number", "lcd"
  Places,     \* areas a user may choose for each window
  Factor,     \* repetitionFactor: 10 in the GUI, 0 by default
  MaxActs,    \* bound: changes by the user and by the program
  MaxUp, MaxDown  \* bounds: messages on their way

VARIABLES mem,     \* the bytes of each memory
          request, \* memReadRequestMsg, repetitionFactor and -Count of the client
          up, down,\* messages to the server and to the client
          window,  \* what each window covers and holds
          awaiting, \* the GUI waits for the answer to its request
          due,     \* a window was closed: its area is still to be given up
          dumped,  \* dumps sent for the last request, 2 for more
          acts      \* changes so far; a window's typed is the number of the one
                    \* by which its text was typed, 0 if it was not

serverVars == <<mem, request, dumped>>
guiVars    == <<window, awaiting, due>>
imageVars  == <<serverVars, guiVars, up, down, acts>>

Windows == DOMAIN Kind
Area(s, start, length) == [space |-> s, start |-> start, length |-> length]
Closed  == Area("closed", 0, 0)
IsOpen(w) == window[w].area # Closed

-----------------------------------------------------------------------------
(* Memory areas.                                                           *)

\* Whether the server can read and write an area; the end counts, and a data
\* block must exist and permit it.
Legal(a) == a.space \in DOMAIN Space \ Sealed /\ a.start + a.length <= Space[a.space]

ReadFromCpu(m, a) ==
  [area |-> a, err |-> ~Legal(a),
   data |-> IF Legal(a) THEN SubSeq(m[a.space], a.start + 1, a.start + a.length) ELSE <<>>]

\* A slice is assigned: data of another length would change the size.
WriteToCpu(a, data) ==
  IF ~Legal(a) THEN mem
  ELSE [mem EXCEPT ![a.space] =
          SubSeq(@, 1, a.start) \o data \o SubSeq(@, a.start + a.length + 1, Len(@))]

OverlapsWith(a, b) ==
  /\ a.space = b.space
  /\ ~(a.start + a.length - 1 < b.start \/ b.start + b.length - 1 < a.start)

-----------------------------------------------------------------------------
(* The server.                                                             *)

Due == request.areas # <<>> /\ request.count - 1 <= 0

\* After the cycle the areas are read and sent when the count is down.
HandleMemReadReqs ==
  IF Due
  THEN /\ down' = Append(down, [kind |-> "MEMORY",
                                items |-> [i \in DOMAIN request.areas |->
                                             ReadFromCpu(mem', request.areas[i])]])
       /\ request' = [request EXCEPT !.count = request.factor]
       /\ dumped' = IF dumped = 0 THEN 1 ELSE 2
  ELSE /\ request' = [request EXCEPT !.count = IF request.areas = <<>> THEN @ ELSE @ - 1]
       /\ UNCHANGED <<down, dumped>>

Cycle ==
  /\ Len(down) < MaxDown
  /\ \/ UNCHANGED <<mem, acts>>
     \/ /\ acts < MaxActs /\ acts' = acts + 1
        /\ \E s \in DOMAIN Space, v \in Byte : \E b \in 1 .. Space[s] :
             mem' = [mem EXCEPT ![s][b] = v]
  /\ HandleMemReadReqs
  /\ UNCHANGED <<guiVars, up>>

ReqMemory ==
  /\ Head(up).kind = "REQ_MEMORY"
  /\ request' = [areas |-> Head(up).areas, factor |-> Factor, count |-> Factor]
  /\ dumped' = 0
  /\ down' = IF Head(up).sync THEN Append(down, [kind |-> "REPLY"]) ELSE down
  /\ UNCHANGED mem

Memory ==
  /\ Head(up).kind = "MEMORY"
  /\ mem' = WriteToCpu(Head(up).area, Head(up).data)
  /\ UNCHANGED <<request, dumped, down>>

HandleCommunication ==
  /\ up # <<>>
  /\ ReqMemory \/ Memory
  /\ up' = Tail(up)
  /\ UNCHANGED <<guiVars, acts>>

-----------------------------------------------------------------------------
(* A dump in the windows.  A byte that came from the CPU is marked "last",  *)
(* and "old" once another dump has come.                                    *)

Blank == [v |-> 0, age |-> "none"]
BytesOf(w) == [i \in DOMAIN w.bytes |-> w.bytes[i].v]
NoNumber == <<>>   \* an empty line, or "invalid address"

\* The bytes of a number are __currentValue, which is -1 at first; its text is
\* written anew only if that has changed.
Unset == [v |-> -1, age |-> "none"]
Redrawn(w, bytes) ==
  LET new == [w EXCEPT !.bytes = bytes]
  IN  IF w.kind # "number" \/ BytesOf(new) = BytesOf(w) THEN new
      ELSE [new EXCEPT !.text = BytesOf(new), !.typed = 0]
WriteOf(w) == [kind |-> "MEMORY", area |-> w.area, data |-> BytesOf(w)]

\* Byte b, of which the CPU has v if there is one.
Taken(b, there, v) ==
  IF there THEN [v |-> v, age |-> "last"]
  ELSE [b EXCEPT !.v = IF @ = Unset.v THEN 255 ELSE @]


\* The bytes of an area that lie in the window.
Filled(w, item) ==
  Redrawn([w EXCEPT !.on = TRUE],
          [i \in DOMAIN w.bytes |->
             LET k == w.area.start + i - item.area.start
             IN  Taken(w.bytes[i], k \in DOMAIN item.data, item.data[k])])

\* The window after byte i, of those up to n, was cleared; the text of a number
\* says so.
ClearedTo(w, n) ==
  [w EXCEPT !.on = FALSE, !.bytes = [i \in DOMAIN @ |-> IF i <= n THEN Blank ELSE @[i]],
            !.text = IF w.kind = "number" THEN NoNumber ELSE @, !.typed = 0]

\* Clearing check boxes is a change like one by the user: each byte that was
\* not 0 has the area written.
WritesOfClear(w) ==
  IF w.kind # "boxes" THEN <<>>
  ELSE LET Set == SetToSortSeq({i \in DOMAIN w.bytes : w.bytes[i].v # 0}, <)
       IN  [k \in DOMAIN Set |-> WriteOf(ClearedTo(w, Set[k]))]

\* setMemory: c is the window and the writes so far.
SetMemory(c, item) ==
  IF ~OverlapsWith(c.w.area, item.area) THEN c
  ELSE IF ~item.err THEN [c EXCEPT !.w = Filled(@, item)]
  ELSE IF c.w.kind = "lcd" THEN c
  ELSE [w |-> ClearedTo(c.w, Len(c.w.bytes)), writes |-> c.writes \o WritesOfClear(c.w)]

Aged(w) ==
  [w EXCEPT !.bytes = [i \in DOMAIN @ |-> IF @[i].age = "last" THEN [@[i] EXCEPT !.age = "old"] ELSE @[i]]]

SetMemories(w, items) == FoldLeft(SetMemory, [w |-> Aged(window[w]), writes |-> <<>>], items)

HandleMemoryUpdate ==
  /\ Head(down).kind = "MEMORY"
  /\ LET After == [w \in Windows |-> SetMemories(w, Head(down).items)]
     IN  /\ window' = [w \in Windows |-> After[w].w]
         /\ up' = up \o FlattenSeq([i \in 1 .. Cardinality(Windows) |-> After[i].writes])
  /\ UNCHANGED <<awaiting, due>>

Answered ==
  /\ Head(down).kind = "REPLY"
  /\ awaiting' = FALSE
  /\ UNCHANGED <<window, due, up>>

\* Messages are handled by a timer and while the GUI waits for an answer.
ProcessMessages ==
  /\ down # <<>> /\ Len(up) <= MaxUp
  /\ HandleMemoryUpdate \/ Answered
  /\ down' = Tail(down)
  /\ UNCHANGED <<serverVars, acts>>

-----------------------------------------------------------------------------
(* The user.  The GUI does nothing else while it waits.                    *)

\* The areas of all windows are asked for, and the answer is waited for.
UploadMemReadAreas(win) ==
  /\ up' = Append(up, [kind |-> "REQ_MEMORY", sync |-> TRUE,
                       areas |-> SelectSeq([i \in 1 .. Cardinality(Windows) |-> win[i].area],
                                           LAMBDA a : a # Closed)])
  /\ awaiting' = TRUE

Free == ~awaiting /\ Len(up) < MaxUp
ActsNow == /\ Free /\ acts < MaxActs /\ acts' = acts + 1 /\ UNCHANGED <<serverVars, down>>

\* A display that keeps the low bytes of its old value.
LowBytes(bytes, n) ==
  [i \in 1 .. n |-> IF Len(bytes) - n + i \in DOMAIN bytes THEN bytes[Len(bytes) - n + i] ELSE Blank]

\* A window is opened or its address or width is changed: its contents are built
\* anew, those of the LCD are kept.
Reconfigured(w) ==
  \E a \in Places[w] \ {window[w].area} :
    LET win == [window EXCEPT ![w] =
                  [@ EXCEPT !.area = a, !.on = TRUE,
                            !.bytes = IF Kind[w] = "lcd" THEN LowBytes(@, a.length)
                                      ELSE [i \in 1 .. a.length |-> IF Kind[w] = "number" THEN Unset ELSE Blank],
                            !.text = NoNumber, !.typed = 0]]
    IN  /\ ActsNow
        /\ window' = win
        /\ UploadMemReadAreas(win)
        /\ UNCHANGED due

\* A closed window is given up when the event loop comes round.
CloseEvent(w) ==
  /\ ActsNow /\ IsOpen(w)
  /\ window' = [window EXCEPT ![w] = [@ EXCEPT !.area = Closed, !.bytes = <<>>, !.text = NoNumber, !.typed = 0]]
  /\ due' = TRUE
  /\ UNCHANGED <<awaiting, up>>

WindowClosed ==
  /\ Free /\ due
  /\ due' = FALSE
  /\ UploadMemReadAreas(window)
  /\ UNCHANGED <<window, serverVars, down, acts>>

\* A check box is changed, and with it the whole area is written.
Click(w) ==
  /\ ActsNow /\ IsOpen(w) /\ Kind[w] = "boxes" /\ window[w].on
  /\ \E i \in DOMAIN window[w].bytes, v \in Byte :
       /\ v # window[w].bytes[i].v
       /\ window' = [window EXCEPT ![w].bytes[i].v = v]
  /\ up' = Append(up, WriteOf(window'[w]))
  /\ UNCHANGED <<awaiting, due>>

\* A number is typed: it is written and stands in the line; __currentValue stays.
NewValueEntered(w) ==
  /\ ActsNow /\ IsOpen(w) /\ Kind[w] = "number" /\ window[w].on
  /\ \E data \in [DOMAIN window[w].bytes -> Byte] :
       /\ up' = Append(up, [WriteOf(window[w]) EXCEPT !.data = data])
       /\ window' = [window EXCEPT ![w].text = data, ![w].typed = acts']
  /\ UNCHANGED <<awaiting, due>>

ImageInit ==
  /\ mem = [s \in DOMAIN Space |-> [b \in 1 .. Space[s] |-> 0]]
  /\ request = [areas |-> <<>>, factor |-> 0, count |-> 0]
  /\ up = <<>> /\ down = <<>>
  /\ window = [w \in Windows |-> [kind |-> Kind[w], area |-> Closed, on |-> TRUE, bytes |-> <<>>,
                                  text |-> NoNumber, typed |-> 0]]
  /\ awaiting = FALSE /\ due = FALSE /\ dumped = 0 /\ acts = 0

ImageNext ==
  \/ Cycle \/ HandleCommunication \/ ProcessMessages \/ WindowClosed
  \/ \E w \in Windows : Reconfigured(w) \/ CloseEvent(w) \/ Click(w) \/ NewValueEntered(w)

ImageFairness ==
  /\ WF_imageVars(Cycle)
  /\ WF_imageVars(HandleCommunication)
  /\ WF_imageVars(ProcessMessages)
  /\ WF_imageVars(WindowClosed)

ImageSpec == ImageInit /\ [][ImageNext]_imageVars /\ ImageFairness

-----------------------------------------------------------------------------
(* Properties.                                                             *)

\* What a window holds of the CPU's memory is of one cycle: the halves of a
\* word never come from different dumps, although the windows are fed by every
\* area that overlaps with them and areas change while dumps are on their way.
OneCycle ==
  \A w \in Windows :
    Kind[w] # "lcd" =>
      ~\E i, j \in DOMAIN window[w].bytes :
         window[w].bytes[i].age = "last" /\ window[w].bytes[j].age = "old"

\* No area that cannot be read overlaps with the window: one that does clears it.
Undisturbed(w) ==
  \A x \in Windows : OverlapsWith(window[w].area, window[x].area) => (Legal(window[x].area) <=> Legal(window[w].area))

\* A text that is not written anew, because the value that has come is the one
\* before it: something was done after it was typed, or a window that has been
\* cleared gets zeros.
Stays(w) ==
  LET win == window[w]
  IN  \/ win.typed # 0 /\ win.typed < acts
      \/ win.text = NoNumber /\ \A i \in DOMAIN win.bytes : win.bytes[i].v = 0

Shows(w) ==
  LET a == window[w].area
      now == SubSeq(mem[a.space], a.start + 1, a.start + a.length)
  IN  IF Legal(a) THEN window[w].on /\ BytesOf(window[w]) = now
                       /\ (Kind[w] = "number" => window[w].text = now \/ Stays(w))
      ELSE Kind[w] = "lcd" \/ ~window[w].on

\* Every number shows what the CPU holds; it does not if its text stays.
NumberFollows ==
  <>[](\A w \in Windows :
         Kind[w] = "number" /\ Legal(window[w].area) /\ Undisturbed(w) => window[w].text = BytesOf(window[w]))


\* A request with the repetition factor 0 is run once.
RequestRunsOnce == request.factor = 0 => dumped <= 1
=============================================================================
