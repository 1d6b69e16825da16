---------------------------- MODULE ModbusAreas -----------------------------
(***************************************************************************)
(* What a Modbus exchange does to the data areas of the two PLCs: the      *)
(* master constructs a request from its areas (modbus_master.py), the      *)
(* slave serves it on its own (modbus_slave.py), the master stores the     *)
(* response.  ModbusClient and ModbusServer say when these calls happen,   *)
(* this module what they do.  An exception that nothing catches ends the   *)
(* scan cycle of its PLC: down.                                            *)
(*                                                                         *)
(* An area is a data block with one field for every word, numbered from 1; *)
(* an address is looked up in the field numbered by its distance from the  *)
(* start of the area, from 0.  Addresses without a field can be configured *)
(* but not used.                                                           *)
(***************************************************************************)
EXTENDS Integers, Sequences, FiniteSetsExt

CONSTANTS
    Areas,        \* of "client" and "server": a sequence of areas
    BitsPerWord,  \* coils or inputs in a field (16)
    CellValue,    \* what a register holds
    MaxRead,      \* max_dataType_reading_length, for bits and for registers
    MaxWrite,     \* max_dataType_writing_length, for coils and for registers
    SingleWrites, \* the settings of single_write
    DataTypes, Addresses, Lengths \* what the program of the client asks for

ASSUME AreasAssumption ==
    /\ BitsPerWord \in Nat \ {0} /\ {0, 1} \subseteq CellValue /\ SingleWrites \subseteq BOOLEAN
    /\ Areas \in [{"client", "server"} -> Seq([type : 1..4, start : Int, end : Int])]
    /\ Addresses \subseteq Int /\ Lengths \subseteq Int

VARIABLES
    memory,      \* the cells of both sides
    step,        \* "idle", "asked" or "served"
    request, response,
    ERROR_CODE,  \* of the ModBusMaster and of the ModBusSlave object
    result,      \* what the master made of the last response (STATUS_MODBUS)
    down,        \* the sides whose scan cycle has ended
    asked, served, stray \* history: the cells at both ends, stray responses
areaVars == <<memory, step, request, response, ERROR_CODE, result, down, asked, served, stray>>

Sides == {"client", "server"}
IsBit(type) == type \in {1, 2}

\* The number of fields of an area, and the one an address is looked up in.
Ceil(n, d) == (n + d - 1) \div d
NumberOfWords(a) ==
    IF IsBit(a.type) THEN Ceil(a.end - a.start, BitsPerWord) ELSE a.end - a.start + 1
WordOf(a, address) ==
    IF IsBit(a.type) THEN (address - a.start) \div BitsPerWord ELSE address - a.start

\* The first of the areas of a type that an address lies in, or 0.
Find(side, type, address) ==
    LET fits == {i \in DOMAIN Areas[side] :
                   /\ Areas[side][i].type = type
                   /\ address \in Areas[side][i].start..Areas[side][i].end}
    IN  IF fits = {} THEN 0 ELSE Min(fits)

Cells(side) ==
    UNION {{<<i, a>> : a \in {b \in Areas[side][i].start..Areas[side][i].end :
                                WordOf(Areas[side][i], b) \in 1..NumberOfWords(Areas[side][i])}}
           : i \in DOMAIN Areas[side]}
CellValues(side, c) == IF IsBit(Areas[side][c[1]].type) THEN {0, 1} ELSE CellValue

Cell(side, type, address) == <<Find(side, type, address), address>>
HasCell(side, type, address) == Cell(side, type, address) \in Cells(side)

\* A loop over n addresses ends at the first that has no cell.
Reach(side, type, address, n) ==
    Min({k \in 0..n : k = n \/ ~HasCell(side, type, address + k)})

\* Variant: the values are fetched one address too far.
FetchedBeside(side, type, address, n) ==
    [j \in 1..n |-> LET c == Cell(side, type, address + j)
                    IN  IF c \in Cells(side) THEN memory[side][c] ELSE 0]

Fetched(side, type, address, n) ==
    [j \in 1..n |-> memory[side][Cell(side, type, address + j - 1)]]

StoredCells(side, type, address, n, data) ==
    [memory EXCEPT ![side] =
       [c \in DOMAIN @ |-> IF \E j \in 1..n : c = Cell(side, type, address + j - 1)
                           THEN data[c[2] - address + 1] ELSE @[c]]]

AreaOf(fc) == CASE fc \in {1, 5, 15} -> 1 [] fc = 2 -> 2 [] fc \in {3, 6, 16} -> 3 [] fc = 4 -> 4
Reads(fc) == fc \in 1..4

NoError == "NO_ERROR"
None == [fc |-> 0, address |-> 0, n |-> 0, data |-> <<>>]

AreasInit ==
    /\ memory = [side \in Sides |-> [c \in Cells(side) |-> 0]]
    /\ step = "idle" /\ request = None /\ response = None
    /\ ERROR_CODE = [side \in Sides |-> NoError]
    /\ result = NoError /\ down = {}
    /\ asked = <<>> /\ served = <<>> /\ stray = FALSE

\* The program of a PLC writes to its data block, at any time of an exchange.
ProgramWrites(side, c, v) ==
    /\ down = {} /\ memory[side][c] # v
    /\ memory' = [memory EXCEPT ![side][c] = v]
    /\ UNCHANGED <<step, request, response, ERROR_CODE, result, down, asked, served, stray>>
-----------------------------------------------------------------------------
\* The function code of a request, 0 if there is none: construct_request_message
\* returns None, whose length put takes, or fails itself.
FunctionCode(dataType, write, n, single) ==
    IF dataType \notin 1..4 \/ n < 0 THEN 0
    ELSE IF ~write THEN IF n > MaxRead[IsBit(dataType)] THEN 0 ELSE dataType
    ELSE IF dataType \in {2, 4} \/ n = 0 \/ n > MaxWrite[IsBit(dataType)] THEN 0
    ELSE IF n = 1 /\ single THEN IF dataType = 1 THEN 5 ELSE 6
    ELSE IF dataType = 1 THEN 15 ELSE 16

\* The client asks; the values to be written are read from its areas.
Construct(dataType, write, address, n, single) ==
    LET fc == FunctionCode(dataType, write, n, single)
        fails == fc = 0 \/ (write /\ Reach("client", dataType, address, n) < n)
    IN  /\ step = "idle" /\ "client" \notin down
        /\ IF fails
           THEN down' = down \cup {"client"} /\ UNCHANGED <<step, request, asked>>
           ELSE /\ request' = [fc |-> fc, address |-> address, n |-> n,
                               data |-> IF write THEN Fetched("client", dataType, address, n)
                                        ELSE <<>>]
                /\ step' = "asked" /\ asked' = IF write THEN memory["client"] ELSE <<>>
                /\ UNCHANGED down
        /\ result' = NoError
        /\ UNCHANGED <<memory, response, ERROR_CODE, served, stray>>
-----------------------------------------------------------------------------
Answer(r) == response' = r /\ step' = "served" /\ UNCHANGED down
Crash(side) == down' = down \cup {side} /\ UNCHANGED <<response, step>>

ErrorResponse == [None EXCEPT !.fc = 129]

\* Functions 1 to 4.  Reading coils and inputs fails at the first bit that is
\* found: currWord is used before it is set.
ServeRead ==
    LET type == AreaOf(request.fc)
        k == Reach("server", type, request.address, request.n)
    IN  /\ Reads(request.fc)
        /\ IF k = request.n /\ (k = 0 \/ ~IsBit(type))
           THEN Answer([request EXCEPT !.data = Fetched("server", type, request.address, k)])
           ELSE IF Find("server", type, request.address + k) = 0 /\ (k = 0 \/ ~IsBit(type))
           THEN Answer(ErrorResponse)
           ELSE Crash("server")
        /\ UNCHANGED <<memory, ERROR_CODE>>

\* Functions 5, 6, 15 and 16.  The cells before the first that fails are written.
\* The codes of SFB 102 (0xA006) do not fit into the byte of an error response.
ServeWrite ==
    LET type == AreaOf(request.fc)
        k == Reach("server", type, request.address, request.n)
    IN  /\ ~Reads(request.fc)
        /\ memory' = StoredCells("server", type, request.address, k, request.data)
        /\ IF k = request.n THEN Answer(request) /\ UNCHANGED ERROR_CODE
           ELSE /\ Crash("server")
                /\ ERROR_CODE' = IF Find("server", type, request.address + k) = 0
                                 THEN [ERROR_CODE EXCEPT !["server"] = "INVALID_COMBINATION"]
                                 ELSE ERROR_CODE

Serve ==
    /\ step = "asked" /\ "server" \notin down
    /\ ServeRead \/ ServeWrite
    /\ served' = IF Reads(request.fc) THEN memory["server"] ELSE <<>>
    /\ UNCHANGED <<request, result, asked, stray>>
-----------------------------------------------------------------------------
Finish(verdict) ==
    /\ result' = verdict
    /\ step' = "idle" /\ request' = None /\ response' = None
    /\ asked' = <<>> /\ served' = <<>>
    /\ UNCHANGED down

\* An error response has another function code than the request and is taken for
\* a wrong answer.
RejectFunction ==
    /\ response.fc # request.fc
    /\ Finish("INVALID_FUNCTION_CODE")
    /\ UNCHANGED <<memory, ERROR_CODE, stray>>

AcceptWrite ==
    /\ response.fc = request.fc /\ ~Reads(request.fc)
    /\ Finish(IF request.fc \in {5, 6} /\ response # request THEN "INVALID_MSG_ECHO" ELSE NoError)
    /\ UNCHANGED <<memory, ERROR_CODE, stray>>

\* A read is stored register by register.  Coils and inputs are expected in two
\* bytes each.  ERROR_CODE is looked at after every register, and never reset.
AcceptRead ==
    LET type == AreaOf(request.fc)
        n == request.n
        stuck == ERROR_CODE["client"] # NoError
        limit == IF stuck THEN Min({1, n}) ELSE n
        k == Min({limit, Reach("client", type, request.address, n)})
        unfound == k < limit /\ Find("client", type, request.address + k) = 0
    IN  /\ response.fc = request.fc /\ Reads(request.fc)
        /\ IF IsBit(type) /\ Ceil(Len(response.data), 8) # 2 * n
           THEN Finish("INVALID_REG_BIT_COUNT") /\ UNCHANGED <<memory, ERROR_CODE>>
           ELSE /\ memory' = StoredCells("client", type, request.address, k, response.data)
                /\ ERROR_CODE' = IF unfound THEN [ERROR_CODE EXCEPT !["client"] = "INVALID_COMBINATION"]
                                 ELSE ERROR_CODE
                /\ IF unfound \/ (stuck /\ k = limit /\ n > 0) THEN Finish("INVALID_COMBINATION")
                   ELSE IF k = limit THEN Finish(NoError)
                   ELSE /\ down' = down \cup {"client"}
                        /\ UNCHANGED <<result, step, request, response, asked, served>>
        /\ stray' = (stray \/ \E a \in request.address..request.address + n - 1 :
                                Find("client", type, a) = 0)

Process ==
    /\ step = "served" /\ "client" \notin down
    /\ RejectFunction \/ AcceptWrite \/ AcceptRead

AreasNext ==
    \/ \E side \in Sides : \E c \in Cells(side) : \E v \in CellValues(side, c) :
         ProgramWrites(side, c, v)
    \/ \E dataType \in DataTypes, write \in BOOLEAN, address \in Addresses, n \in Lengths,
          single \in SingleWrites : Construct(dataType, write, address, n, single)
    \/ Serve
    \/ Process

AreasSpec == AreasInit /\ [][AreasNext]_areaVars
-----------------------------------------------------------------------------
Addressed(r) == r.address..r.address + r.n - 1

\* What the exchange changes are addressed cells of the right type, on the side
\* it writes to.
OnlyAddressedChange ==
    \A side \in Sides : \A c \in Cells(side) :
       memory'[side][c] # memory[side][c] =>
         /\ side = IF Reads(request.fc) THEN "client" ELSE "server"
         /\ Areas[side][c[1]].type = AreaOf(request.fc)
         /\ c[2] \in Addressed(request)

\* A successful exchange copies every addressed cell, as it was at one moment,
\* from one PLC to the other: a write what the client held when it asked, a read
\* what the server held when it answered, whatever the programs do in between;
\* and even one that fails half way touches nothing else (the loops over
\* addresses, words and bits in the three files).
TransferCopies ==
    [][/\ \A a \in Addressed(request) :
            LET type == AreaOf(request.fc)
                c == Cell("client", type, a)
                s == Cell("server", type, a)
            IN  /\ step = "asked" /\ step' = "served" /\ ~Reads(request.fc) =>
                     memory'["server"][s] = asked[c]
                /\ step = "served" /\ step' = "idle" /\ result' = NoError /\ Reads(request.fc) =>
                     memory'["client"][c] = served[s]
       /\ Serve \/ Process => OnlyAddressedChange]_areaVars

\* When an exchange succeeds, exactly: no bits are read, every address has a field
\* at both ends, and no response of an earlier read has strayed from the areas of
\* the client - after which every read of a register reports an error
\* (modbus_master.py: ERROR_CODE is never reset).
SucceedsExactlyWhen ==
    [][step = "served" /\ step' = "idle" =>
         (result' = NoError <=>
            \/ request.n = 0
            \/ /\ ~IsBit(request.fc)
               /\ \A a \in Addressed(request), side \in Sides : HasCell(side, AreaOf(request.fc), a)
               /\ Reads(request.fc) => ~stray)]_areaVars

\* A request for addresses inside an area of the server is answered
\* (modbus_slave.py:71: "also constructs response message and returns it").
LegalRequestsServed ==
    step = "asked" /\ (\A a \in Addressed(request) : Find("server", AreaOf(request.fc), a) # 0)
      => "server" \notin down
=============================================================================
