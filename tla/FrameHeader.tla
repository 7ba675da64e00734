------------------------------- MODULE FrameHeader -------------------------------
(*****************************************************************************)
(* The 24 bytes in front of every frame of ipc_reliable.c: what              *)
(* SendMessageInternal puts into the header, SerializeHeader, and            *)
(* DeserializeHeader with its three tests.  Shifts and masks of unsigned     *)
(* numbers are divisions and remainders by powers of two, an | of shifted    *)
(* bytes is their sum.                                                       *)
(*****************************************************************************)
EXTENDS Integers, Sequences

Byte == {n \in Int : 0 =< n /\ n < 256}
UInt16 == {n \in Int : 0 =< n /\ n < 65536}
UInt32 == {n \in Int : 0 =< n /\ n < 4294967296}

\* sizeof(IpcMessageHeader); its comment calls it 16 bytes.
HeaderSize == 24

IPC_MAGIC == 1229996882         \* 'IPCR'
IPC_VERSION == 1
IPC_MAX_PAYLOAD_SIZE == 64 * 1024 - HeaderSize

IpcMessageHeader ==
    [magic : UInt32, version : Byte, type : Byte, flags : UInt16,
     seq : UInt32, ack : UInt32, payloadLen : UInt32, checksum : UInt32]

\* The header of a frame, and the size the sender refuses to exceed.
Built(type, flags, seq, ack, payloadLen, checksum) ==
    [magic |-> IPC_MAGIC, version |-> IPC_VERSION, type |-> type, flags |-> flags,
     seq |-> seq, ack |-> ack, payloadLen |-> payloadLen, checksum |-> checksum]
NotTooLarge(payloadLen) == payloadLen =< IPC_MAX_PAYLOAD_SIZE

\* (x >> 24) & 0xff and so on.
Byte3(x) == (x \div 16777216) % 256
Byte2(x) == (x \div 65536) % 256
Byte1(x) == (x \div 256) % 256
Byte0(x) == x % 256

\* The buffer of a header, where buf[k] of the code is element k + 1: the highest
\* byte of a field comes first.
SerializeHeader(h) ==
    << Byte3(h.magic), Byte2(h.magic), Byte1(h.magic), Byte0(h.magic),
       h.version, h.type, Byte1(h.flags), Byte0(h.flags),
       Byte3(h.seq), Byte2(h.seq), Byte1(h.seq), Byte0(h.seq),
       Byte3(h.ack), Byte2(h.ack), Byte1(h.ack), Byte0(h.ack),
       Byte3(h.payloadLen), Byte2(h.payloadLen), Byte1(h.payloadLen), Byte0(h.payloadLen),
       Byte3(h.checksum), Byte2(h.checksum), Byte1(h.checksum), Byte0(h.checksum) >>

\* A field of four bytes, and one of two, put together from its bytes.
Word(b3, b2, b1, b0) == (b3 * 16777216) + (b2 * 65536) + (b1 * 256) + b0
Half(b1, b0) == (b1 * 256) + b0

\* The header DeserializeHeader fills in ...
Deserialized(buf) ==
    [magic |-> Word(buf[1], buf[2], buf[3], buf[4]),
     version |-> buf[5], type |-> buf[6], flags |-> Half(buf[7], buf[8]),
     seq |-> Word(buf[9], buf[10], buf[11], buf[12]),
     ack |-> Word(buf[13], buf[14], buf[15], buf[16]),
     payloadLen |-> Word(buf[17], buf[18], buf[19], buf[20]),
     checksum |-> Word(buf[21], buf[22], buf[23], buf[24])]

\* ... and whether it returns true.
DeserializeHeader(buf) ==
    LET h == Deserialized(buf)
    IN  /\ h.magic = IPC_MAGIC
        /\ h.version = IPC_VERSION
        /\ h.payloadLen =< IPC_MAX_PAYLOAD_SIZE

Buffers == [1 .. HeaderSize -> Byte]
==================================================================================
