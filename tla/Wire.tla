-------------------------------- MODULE Wire --------------------------------
(***************************************************************************)
(* The messages of the three proto files and the code protoc generated     *)
(* for them (rpcheader.pb.cpp, raftRPC.pb.cc, kvServerRPC.pb.cc).          *)
(*                                                                         *)
(* A message is a record.  Its bytes are a sequence of half-fields: every  *)
(* field that is written contributes two of them, so that a cut between    *)
(* two fields and a cut inside one can be told apart.  A half carries its  *)
(* tag (field number and wire type), its value, and whether the value is   *)
(* too long to travel in one piece.  A field that has its default value is *)
(* not written, so an all-default message has no bytes at all.             *)
(***************************************************************************)
EXTENDS Integers, Sequences, FiniteSets, SequencesExt

\* A value of more bytes than one recv of the client takes (char recv_buf[4096]) and
\* than one read of the server may get.
Long == "long"

Default(kind) ==
    CASE kind = "bytes"    -> ""
      [] kind = "int"      -> 0
      [] kind = "bool"     -> FALSE
      [] kind = "repeated" -> <<>>

\* int32, int64, uint32 and bool are varints; bytes and messages have a length.
WireType(kind) == IF kind \in {"int", "bool"} THEN "varint" ELSE "length"

Half(number, kind, h, value, long) ==
    [tag |-> <<number, WireType(kind)>>, half |-> h, val |-> value, long |-> long]

\* A field of a scalar type in the bytes of a message: nothing when it has its default.
WriteField(number, kind, value) ==
    IF value = Default(kind) THEN <<>>
    ELSE [h \in 1 .. 2 |-> Half(number, kind, h, value, kind = "bytes" /\ value = Long)]

\* Every element of a repeated message field is written, the empty ones too.
WriteRepeated(number, encoded) ==
    [i \in 1 .. 2 * Len(encoded) |->
        LET bytes == encoded[(i + 1) \div 2]
        IN  Half(number, "repeated", 2 - (i % 2), bytes, \E j \in DOMAIN bytes : bytes[j].long)]

\* The bytes can be read as fields: none of them is cut.
Parses(bytes) ==
    /\ Len(bytes) % 2 = 0
    /\ \A i \in DOMAIN bytes : bytes[i].half = IF i % 2 = 1 THEN 1 ELSE 2

\* Where the bytes hold a value of a field; a field of another number or another wire
\* type is skipped as unknown.
Places(bytes, number, kind) ==
    {i \in DOMAIN bytes : bytes[i].half = 2 /\ bytes[i].tag = <<number, WireType(kind)>>}

\* The values that the bytes hold for a field, in their order.
ValuesOf(bytes, number, kind) ==
    LET at == Places(bytes, number, kind)
        nth(n) == CHOOSE i \in at : Cardinality({j \in at : j <= i}) = n
    IN  [n \in 1 .. Cardinality(at) |-> bytes[nth(n)].val]

\* Clear sets the default; then the last occurrence of the field counts.
ReadField(bytes, number, kind) ==
    LET values == ValuesOf(bytes, number, kind)
    IN  IF values = <<>> THEN Default(kind) ELSE Last(values)

-----------------------------------------------------------------------------
(* rpcheader.proto: bytes service_name, bytes method_name, uint32 args_size *)

SerializeRpcHeader(m) ==
    WriteField(1, "bytes", m.service_name) \o WriteField(2, "bytes", m.method_name)
        \o WriteField(3, "int", m.args_size)

ParseRpcHeader(b) ==
    [service_name |-> ReadField(b, 1, "bytes"), method_name |-> ReadField(b, 2, "bytes"),
     args_size |-> ReadField(b, 3, "int")]

-----------------------------------------------------------------------------
(* raftRPC.proto *)

LogEntry == [command : STRING, logterm : Int, logindex : Int]

SerializeLogEntry(m) ==
    WriteField(1, "bytes", m.command) \o WriteField(2, "int", m.logterm)
        \o WriteField(3, "int", m.logindex)

ParseLogEntry(b) ==
    [command |-> ReadField(b, 1, "bytes"), logterm |-> ReadField(b, 2, "int"),
     logindex |-> ReadField(b, 3, "int")]

AppendEntriesArgs ==
    [term : Int, leaderid : Int, prevlogindex : Int, prevlogterm : Int, entries : Seq(LogEntry),
     leadercommit : Int]

SerializeAppendEntriesArgs(m) ==
    WriteField(1, "int", m.term) \o WriteField(2, "int", m.leaderid)
        \o WriteField(3, "int", m.prevlogindex) \o WriteField(4, "int", m.prevlogterm)
        \o WriteRepeated(5, [i \in DOMAIN m.entries |-> SerializeLogEntry(m.entries[i])])
        \o WriteField(6, "int", m.leadercommit)

ParseAppendEntriesArgs(b) ==
    LET encoded == ValuesOf(b, 5, "repeated")
    IN  [term |-> ReadField(b, 1, "int"), leaderid |-> ReadField(b, 2, "int"),
         prevlogindex |-> ReadField(b, 3, "int"), prevlogterm |-> ReadField(b, 4, "int"),
         entries |-> [i \in DOMAIN encoded |-> ParseLogEntry(encoded[i])],
         leadercommit |-> ReadField(b, 6, "int")]

AppendEntriesReply == [term : Int, success : BOOLEAN, updatenextindex : Int, appstate : Int]

SerializeAppendEntriesReply(m) ==
    WriteField(1, "int", m.term) \o WriteField(2, "bool", m.success)
        \o WriteField(3, "int", m.updatenextindex) \o WriteField(4, "int", m.appstate)

ParseAppendEntriesReply(b) ==
    [term |-> ReadField(b, 1, "int"), success |-> ReadField(b, 2, "bool"),
     updatenextindex |-> ReadField(b, 3, "int"), appstate |-> ReadField(b, 4, "int")]

RequestVoteArgs == [term : Int, candidateid : Int, lastlogindex : Int, lastlogterm : Int]

SerializeRequestVoteArgs(m) ==
    WriteField(1, "int", m.term) \o WriteField(2, "int", m.candidateid)
        \o WriteField(3, "int", m.lastlogindex) \o WriteField(4, "int", m.lastlogterm)

ParseRequestVoteArgs(b) ==
    [term |-> ReadField(b, 1, "int"), candidateid |-> ReadField(b, 2, "int"),
     lastlogindex |-> ReadField(b, 3, "int"), lastlogterm |-> ReadField(b, 4, "int")]

RequestVoteReply == [term : Int, votegranted : BOOLEAN, votestate : Int]

SerializeRequestVoteReply(m) ==
    WriteField(1, "int", m.term) \o WriteField(2, "bool", m.votegranted)
        \o WriteField(3, "int", m.votestate)

ParseRequestVoteReply(b) ==
    [term |-> ReadField(b, 1, "int"), votegranted |-> ReadField(b, 2, "bool"),
     votestate |-> ReadField(b, 3, "int")]

InstallSnapshotRequest ==
    [leaderid : Int, term : Int, lastsnapshotincludeindex : Int, lastsnapshotincludeterm : Int,
     data : STRING]

SerializeInstallSnapshotRequest(m) ==
    WriteField(1, "int", m.leaderid) \o WriteField(2, "int", m.term)
        \o WriteField(3, "int", m.lastsnapshotincludeindex)
        \o WriteField(4, "int", m.lastsnapshotincludeterm) \o WriteField(5, "bytes", m.data)

ParseInstallSnapshotRequest(b) ==
    [leaderid |-> ReadField(b, 1, "int"), term |-> ReadField(b, 2, "int"),
     lastsnapshotincludeindex |-> ReadField(b, 3, "int"),
     lastsnapshotincludeterm |-> ReadField(b, 4, "int"), data |-> ReadField(b, 5, "bytes")]

InstallSnapshotResponse == [term : Int]

SerializeInstallSnapshotResponse(m) == WriteField(1, "int", m.term)

ParseInstallSnapshotResponse(b) == [term |-> ReadField(b, 1, "int")]

-----------------------------------------------------------------------------
(* kvServerRPC.proto *)

GetArgs == [key : STRING, clientid : STRING, requestid : Int]

SerializeGetArgs(m) ==
    WriteField(1, "bytes", m.key) \o WriteField(2, "bytes", m.clientid)
        \o WriteField(3, "int", m.requestid)

ParseGetArgs(b) ==
    [key |-> ReadField(b, 1, "bytes"), clientid |-> ReadField(b, 2, "bytes"),
     requestid |-> ReadField(b, 3, "int")]

GetReply == [err : STRING, value : STRING]

SerializeGetReply(m) == WriteField(1, "bytes", m.err) \o WriteField(2, "bytes", m.value)

ParseGetReply(b) == [err |-> ReadField(b, 1, "bytes"), value |-> ReadField(b, 2, "bytes")]

PutAppendArgs ==
    [key : STRING, value : STRING, op : STRING, clientid : STRING, requestid : Int, ttlms : Int]

SerializePutAppendArgs(m) ==
    WriteField(1, "bytes", m.key) \o WriteField(2, "bytes", m.value) \o WriteField(3, "bytes", m.op)
        \o WriteField(4, "bytes", m.clientid) \o WriteField(5, "int", m.requestid)
        \o WriteField(6, "int", m.ttlms)

ParsePutAppendArgs(b) ==
    [key |-> ReadField(b, 1, "bytes"), value |-> ReadField(b, 2, "bytes"),
     op |-> ReadField(b, 3, "bytes"), clientid |-> ReadField(b, 4, "bytes"),
     requestid |-> ReadField(b, 5, "int"), ttlms |-> ReadField(b, 6, "int")]

PutAppendReply == [err : STRING]

SerializePutAppendReply(m) == WriteField(1, "bytes", m.err)

ParsePutAppendReply(b) == [err |-> ReadField(b, 1, "bytes")]
=============================================================================
